------------------------------- MODULE MCFanIn -------------------------------
(* FanIn for TLC: workers are interchangeable. *)
EXTENDS FanIn, TLC

WorkerSymmetry == Permutations(SynthWorkers)
=============================================================================
