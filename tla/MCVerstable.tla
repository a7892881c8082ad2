----------------------------- MODULE MCVerstable -----------------------------
(* Instances of Verstable for TLC.                                         *)
EXTENDS Verstable, TLC

CONSTANTS k1, k2, k3, k4, k5

\* k1, k2 and k3 share a home bucket among 8, the last one, and fill their
\* chain when the limit is 3; the home of k4 is a bucket that one of them is
\* displaced to, among 8 as among 16, where all have room.
Crowding == k1 :> 7 @@ k2 :> 7 @@ k3 :> 15 @@ k4 :> 8 @@ k5 :> 16
Frags == k1 :> 0 @@ k2 :> 5 @@ k3 :> 0 @@ k4 :> 5 @@ k5 :> 0
=============================================================================
