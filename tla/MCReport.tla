------------------------------ MODULE MCReport ------------------------------
(* Instances of Report for TLC.                                            *)
EXTENDS Report

\* Four runs each: with a slow run, with two slow ones and two that took no
\* measurable time, and nothing measurable but for one run.
ThreeSamples == {<<1, 1, 90, 1>>, <<70, 0, 80, 0>>, <<0, 0, 0, 6>>}

Two == <<"reinsert_after_erasure", "get_existing">>
=============================================================================
