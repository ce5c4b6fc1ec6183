----------------------------- MODULE MCDispatch ------------------------------
(***************************************************************************)
(* Dispatch for TLC.  Jobs, runners, leaders and requests are              *)
(* interchangeable model values; the tokens for Redis entries are numbers. *)
(***************************************************************************)
EXTENDS Dispatch, TLC

Symmetry == Permutations(Jobs) \cup Permutations(Runners) \cup Permutations(Leaders)
            \cup Permutations(Calls)

==============================================================================
