--------------------------- MODULE MCManagedSlots ---------------------------
(* Small instances of ManagedSlots for TLC. *)
EXTENDS ManagedSlots, TLC

\* Threads and objects are interchangeable.
Symmetry == Permutations(Threads) \cup Permutations(Objects)
=============================================================================
