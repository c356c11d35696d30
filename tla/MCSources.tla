------------------------------ MODULE MCSources ------------------------------
(* An instance of Sources for TLC.  Runs of the worker are interchangeable. *)
EXTENDS Sources, TLC

RunSymmetry == Permutations(Runs)
==============================================================================
