------------------------------ MODULE MCBarrier ------------------------------
(***************************************************************************)
(* psync::Barrier for TLC: four threads, as many as the constructor is     *)
(* told: three workers and main(), as the benchmarks use it.               *)
(***************************************************************************)
EXTENDS Barrier

CONSTANTS t1, t2, t3, t4
=============================================================================
