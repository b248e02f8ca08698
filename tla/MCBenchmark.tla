----------------------------- MODULE MCBenchmark ----------------------------
(***************************************************************************)
(* Benchmarks over three or four runs, with a graph of up to three matches  *)
(* of which `find` returns two.                                             *)
(***************************************************************************)
EXTENDS Benchmark

MCMeasurements ==
  LET Own(time, count) == ("self-time" :> time) @@ ("samples" :> count)
  IN  {Own(1, 4), Own(2, 4), Own(9, 5), "below" :> 3}
=============================================================================
