------------------------------- MODULE MCKhash -------------------------------
(* Instances of Khash for TLC.                                             *)
EXTENDS Khash, TLC

CONSTANTS a, b, c, d

\* a and b share a home bucket, in tables of 4 and 8 buckets; c's is the next
\* one on their way.
Colliding == a :> 0 @@ b :> 8 @@ c :> 1 @@ d :> 3
=============================================================================
