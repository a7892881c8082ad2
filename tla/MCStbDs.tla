------------------------------- MODULE MCStbDs -------------------------------
(* Instances of StbDs for TLC.                                             *)
EXTENDS StbDs, TLC

CONSTANTS k1, k2, k3, k4, k5, k6, k7, k8

\* All but k5 are in the first bucket of 4 among 8, which three of them, or
\* two and a tombstone, fill together with k1, so that the next one is in the
\* second.  The codes of k1 and k3 are those of an empty and a deleted slot.
Crowding == k1 :> 0 @@ k2 :> 2 @@ k3 :> 1 @@ k4 :> 10 @@ k5 :> 7

\* k1 to k7 fill the first seven of 8 slots; k8 belongs to the last one.
Apart == [k \in {k1, k2, k3, k4, k5, k6, k7} |-> 8] @@ k8 :> 7

\* Keys of the same hash code can stand in for each other.
SameCodes == Permutations({k1, k2, k3, k4, k5, k6})
=============================================================================
