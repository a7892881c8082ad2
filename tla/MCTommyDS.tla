------------------------------ MODULE MCTommyDS ------------------------------
(* Instances of TommyDS for TLC.                                           *)
EXTENDS TommyDS, TLC

\* Among the first keys, 0 and 1 are in one bucket whatever its size, and 2
\* and 3 are with them as long as there are few buckets.
Codes == [k \in 0 .. 18 |-> CASE k = 1 -> 64 [] k = 2 -> 4 [] k = 3 -> 8
                              [] OTHER -> k]

AllKeys == 0 .. 18

TwoBuckets == [kd \in {"dyn", "hash", "lin"} |-> 2]

\* A caller that does as it likes with a few keys, and one that fills and
\* empties a large table in order.
FewAndMany == {[keys |-> 0 .. 5, inOrder |-> FALSE],
               [keys |-> 0 .. 18, inOrder |-> TRUE]}

Few == {[keys |-> 0 .. 2, inOrder |-> FALSE]}
=============================================================================
