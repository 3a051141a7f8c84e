------------------------------ MODULE MCProfiler ------------------------------
(* Both ways of profiling, all five strategies, with and without CUDA. *)
EXTENDS Profiler
=============================================================================
