------------------------------ MODULE MCLanes -------------------------------
(* Small instances of Lanes for TLC. *)
EXTENDS Lanes

\* Role labels are interchangeable.
Symmetry == Permutations(Roles)
=============================================================================
