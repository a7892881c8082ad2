---------------------------- MODULE ShimContract ----------------------------
(***************************************************************************)
(* What a shim promises to the benchmark, whatever hash table is behind    *)
(* it: a dictionary over Keys with one live iterator.  The operations are  *)
(* those the concept check_shim_against_blueprint (main.cpp:120-145)       *)
(* demands, with the meaning they have in the std_unordered_map shim, the  *)
(* one whose container is defined by a standard.                           *)
(*                                                                         *)
(* insert() always stores a default-constructed value, so that a table is  *)
(* told apart by its keys only.  Every concrete table of this project is   *)
(* shown to refine this module.                                            *)
(***************************************************************************)
CONSTANT Keys

VARIABLES made,     \* whether the table exists
          table,    \* the keys in the table
          itr       \* the iterator the caller holds

tvars == <<made, table, itr>>

(***************************************************************************)
(* An iterator points at one key (here = {k}) or at nothing (here = {}),   *)
(* and still has the keys in rest before it.  The order in which a table   *)
(* yields its keys is its own business.                                    *)
(***************************************************************************)
EndItr == [here |-> {}, rest |-> {}]

is_itr_valid(it) == it.here # {}

Iterators(S) == {EndItr} \cup
                {[here |-> {k}, rest |-> r] : k \in S, r \in SUBSET S}

TableInit == made = FALSE /\ table = {} /\ itr = EndItr

create_table == /\ ~made
                /\ made' = TRUE
                /\ table' = {}
                /\ itr' = EndItr

\* A change of the table leaves the caller without a usable iterator.
insert(k) == /\ made
             /\ table' = table \cup {k}
             /\ itr' = EndItr
             /\ UNCHANGED made

erase(k) == /\ made
            /\ table' = table \ {k}
            /\ itr' = EndItr
            /\ UNCHANGED made

find(k) == /\ made
           /\ itr' \in IF k \in table
                       THEN [here : {{k}}, rest : SUBSET (table \ {k})]
                       ELSE {EndItr}
           /\ UNCHANGED <<made, table>>

begin_itr == /\ made
             /\ itr' \in IF table = {} THEN {EndItr}
                         ELSE {[here |-> {k}, rest |-> table \ {k}] :
                                  k \in table}
             /\ UNCHANGED <<made, table>>

increment_itr == /\ made
                 /\ is_itr_valid(itr)
                 /\ itr' \in IF itr.rest = {}
                             THEN {EndItr}
                             ELSE {[here |-> {k}, rest |-> itr.rest \ {k}] :
                                      k \in itr.rest}
                 /\ UNCHANGED <<made, table>>

\* The caller's iterator goes out of scope.
release_itr == itr' = EndItr /\ UNCHANGED <<made, table>>

destroy_table == /\ made
                 /\ made' = FALSE
                 /\ table' = {}
                 /\ itr' = EndItr

TableNext == \/ create_table
             \/ \E k \in Keys : insert(k) \/ erase(k) \/ find(k)
             \/ begin_itr
             \/ increment_itr
             \/ release_itr
             \/ destroy_table

TableSpec == TableInit /\ [][TableNext]_tvars
=============================================================================
