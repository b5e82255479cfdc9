------------------------------ MODULE MCPlanner -------------------------------
(* Planner for TLC.  Requests differ in nothing but their names.            *)
EXTENDS Planner, TLC

Symmetry == Permutations(Requests)
=============================================================================
