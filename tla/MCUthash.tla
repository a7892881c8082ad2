------------------------------ MODULE MCUthash ------------------------------
(* Instances of Uthash for TLC.                                            *)
EXTENDS Uthash, TLC

\* Four keys with one code, and two that part only in a larger table.
CONSTANTS k1, k2, k3, k4, k5, k6
Clashing == k1 :> 0 @@ k2 :> 0 @@ k3 :> 0 @@ k4 :> 0 @@ k5 :> 1 @@ k6 :> 33
Alike == Permutations({k1, k2, k3, k4})
=============================================================================
