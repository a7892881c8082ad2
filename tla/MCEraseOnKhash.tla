---------------------------- MODULE MCEraseOnKhash ----------------------------
(* Instances of EraseOnKhash for TLC.                                      *)
EXTENDS EraseOnKhash, TLC

\* The keys' homes cluster at the start of the table, as those of 0, 1 and 2
\* do in every table and those of 3 and 5 in a small one.
Clustered == 0 :> 0 @@ 1 :> 1 @@ 2 :> 0 @@ 3 :> 9 @@ 4 :> 2 @@ 5 :> 4

ASSUME DriversKeys
=============================================================================
