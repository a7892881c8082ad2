----------------------------- MODULE EraseOnKhash -----------------------------
(***************************************************************************)
(* The erase_existing block of benchmark() running on khash: the driver's  *)
(* loops call the khash shim, whose insert() may rehash in between.  A     *)
(* driver's counters move when the call it makes returns.                  *)
(*                                                                         *)
(* The keys are the indices that shuffled_unique_key() gets, and the       *)
(* random start of a sweep is any of them.  There is one shim, blueprint   *)
(* and run; the block is entered once.                                     *)
(***************************************************************************)
EXTENDS Khash

CONSTANTS KEY_COUNT, INTERVAL, OPS      \* as in Benchmark

ASSUME EraseOnKhashAssumption ==
  KEY_COUNT \in Nat \ {0} /\ INTERVAL \in Nat \ {0} /\ OPS \in Nat \ {0}

\* The driver numbers its keys, and this module has memory enough for them.
DriversKeys == Keys = 0 .. KEY_COUNT - 1 /\ ~AllocMayFail

VARIABLES step, i, since, k, l, begin,   \* since is the driver's j
          results

driver == <<step, i, since, k, l, begin, results>>
allvars == <<driver, vars>>

InitBlock == /\ Init
             /\ step = "enter"
             /\ i = 0 /\ since = 0 /\ k = 0 /\ l = 0 /\ begin = 0
             /\ results = {}

EnterBlock == /\ step = "enter" /\ create_table
              /\ step' = "insert"
              /\ UNCHANGED <<i, since, k, l, begin, results>>

LeaveBlock == /\ step = "insert" /\ i = KEY_COUNT /\ destroy_table
              /\ step' = "next"
              /\ UNCHANGED <<i, since, k, l, begin, results>>

\* The outer loop's insert() is called, and returns.
CallGrow == /\ step = "insert" /\ i < KEY_COUNT /\ insert(i)
            /\ UNCHANGED driver

GrowReturns ==
  /\ step = "insert" /\ Put
  /\ i' = i + 1 /\ since' = since + 1
  /\ step' = IF since + 1 = INTERVAL THEN "measure" ELSE "insert"
  /\ UNCHANGED <<k, l, begin, results>>

StartErase == /\ step = "measure"
              /\ \E b \in 0 .. i - 1 : begin' = b /\ l' = b
              /\ k' = 0 /\ step' = "sweep"
              /\ UNCHANGED <<i, since, results, vars>>

FollowingKey == IF l + 1 = i THEN 0 ELSE l + 1

\* The restoring loop counts anew.
Fault_CountKept == k + 1
RestoreStart == 0

EraseExisting ==
  /\ step = "sweep" /\ erase(l)
  /\ IF k + 1 = OPS
     THEN /\ results' = results \cup {i \div INTERVAL - 1}
          /\ k' = RestoreStart /\ l' = begin /\ step' = "restore"
     ELSE k' = k + 1 /\ l' = FollowingKey /\ UNCHANGED <<step, results>>
  /\ UNCHANGED <<i, since, begin>>

CallRestore == /\ step = "restore" /\ insert(l)
               /\ UNCHANGED driver

RestoreReturns ==
  /\ step = "restore" /\ Put
  /\ IF k + 1 = OPS
     THEN k' = 0 /\ l' = 0 /\ begin' = 0 /\ since' = 0 /\ step' = "insert"
     ELSE k' = k + 1 /\ l' = FollowingKey /\ UNCHANGED <<step, since, begin>>
  /\ UNCHANGED <<i, results>>

Rehash == (StartResize \/ RehashNext \/ Place \/ FinishResize)
          /\ UNCHANGED driver

Left == step = "next" /\ UNCHANGED allvars

NextInBlock == \/ EnterBlock \/ LeaveBlock \/ CallGrow \/ GrowReturns
               \/ StartErase \/ EraseExisting \/ CallRestore \/ RestoreReturns
               \/ Rehash \/ Left

SpecBlock == InitBlock /\ [][NextInBlock]_allvars /\ WF_allvars(NextInBlock)
-----------------------------------------------------------------------------

(***************************************************************************)
(* The block on khash is the block that Benchmark describes on an ideal    *)
(* table: the driver cannot tell them apart, and in particular no rehash   *)
(* in the middle of a sweep or a restore loses a key.                      *)
(***************************************************************************)
B == INSTANCE Benchmark WITH
  RUN_COUNT <- 1, SHIMS <- 1, BLUEPRINTS <- 1, CONFIGS <- {{"erase_existing"}},
  enabled <- {"erase_existing"},
  run <- 0, shim <- 1, blueprint <- 1, bench <- "erase_existing", j <- since,
  results <- {<<1, 1, "erase_existing", point>> : point \in results},
  table <- TableKeys, itr <- [here |-> {}, rest |-> {}]

BlockStep == \/ B!EnterBlock \/ B!LeaveBlock \/ B!GrowTable \/ B!StartErase
             \/ B!EraseExisting \/ B!RestoreErased

ImplementsBlock == [][BlockStep]_(B!vars)

\* The block ends, whatever rehashes its insertions set off.
BlockEnds == <>(step = "next")
=============================================================================
