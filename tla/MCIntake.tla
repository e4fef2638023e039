------------------------------- MODULE MCIntake -------------------------------
(* Intake for TLC: invocations of one handler are interchangeable. *)
EXTENDS Intake, TLC

WorkerSymmetry == Permutations(ExtractWorkers) \cup Permutations(ExtractSweepers)
=============================================================================
