----------------------------- MODULE MCDispatch -----------------------------
(* Two worker tasks, one or two switches, at most one mutation. *)
EXTENDS Dispatch, TLC

Symmetry == Permutations(Slot) \cup Permutations(Scope \ {InitialScope})
=============================================================================
