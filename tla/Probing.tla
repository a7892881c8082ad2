-------------------------------- MODULE Probing --------------------------------
(***************************************************************************)
(* The two notions that the probe sequences of khash and stb_ds rest on.   *)
(***************************************************************************)
EXTENDS Integers

\* The only odd number that divides a power of two is 1.
PowerOfTwo(n) == n > 0 /\ \A d \in 1 .. n : n % d = 0 => d = 1 \/ d % 2 = 0

\* How far t steps lead when each is one longer than the last.
Triangle(t) == (t * (t + 1)) \div 2
=============================================================================
