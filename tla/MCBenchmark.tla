---------------------------- MODULE MCBenchmark ----------------------------
(***************************************************************************)
(* Benchmark for TLC.                                                      *)
(***************************************************************************)
EXTENDS Benchmark

MCService == {"minikv", "redis"}

MCServiceFlags == {<<"minikv", "", "redis">>, <<"minikv", "other">>, <<"">>}

MCWorkloads ==
  [runs : {2}, keys : 1 .. 6, valueBytes : {1}, concurrency : 0 .. 4]
    \cup [runs : 0 .. 1, keys : 0 .. 1, valueBytes : 0 .. 1, concurrency : {1}]

\* The nearest rank: the least sample with p percent of the samples up to it.
ASSUME PercentileIsNearestRank ==
  \A n \in 1 .. 60, p \in {50, 95} :
    LET covers(i) == 100 * (i + 1) >= p * n
    IN  percentileIndex(n, p) = CHOOSE i \in 0 .. n - 1 : covers(i) /\ \A j \in 0 .. i - 1 : ~ covers(j)
=============================================================================
