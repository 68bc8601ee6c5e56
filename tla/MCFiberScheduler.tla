-------------------------- MODULE MCFiberScheduler --------------------------
(* Instances of FiberScheduler for TLC. *)
EXTENDS FiberScheduler, TLC

\* Tasks and workers are interchangeable in every safety property.
Symmetry == Permutations(Tasks) \cup Permutations(Workers)
=============================================================================
