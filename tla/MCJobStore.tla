----------------------------- MODULE MCJobStore ------------------------------
(***************************************************************************)
(* JobStore for TLC: job ids and runners are interchangeable model values. *)
(***************************************************************************)
EXTENDS JobStore, TLC

Symmetry == Permutations(Jobs) \cup Permutations(Runners)

==============================================================================
