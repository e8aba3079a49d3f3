---- MODULE MCBenchmark ----
(* An instance of Benchmark for TLC.                                       *)
EXTENDS Benchmark

====
