---- MODULE MCBenchmarks ----
EXTENDS Benchmarks
====
