----------------------------- MODULE MCBenchmark -----------------------------
(* Instances of Benchmark for TLC.                                         *)
EXTENDS Benchmark

\* All benchmarks; some blocks and some sequences of the combined block; and
\* no sequence at all.
AllOrSome == {BenchmarkIds,
              {"erase_existing", "get_existing", "iteration"},
              {"insert_nonexisting"}}
=============================================================================
