----------------------------- MODULE MCNarration -----------------------------
(* Narration for TLC: invocations of one handler are interchangeable. *)
EXTENDS Narration, TLC

WorkerSymmetry ==
  Permutations(SynthWorkers) \cup Permutations(StitchWorkers)
    \cup Permutations(Sweepers) \cup Permutations(Retriers)
=============================================================================
