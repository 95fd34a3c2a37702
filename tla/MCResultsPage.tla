---------------------------- MODULE MCResultsPage ----------------------------
(* A small instance of ResultsPage for TLC: its values are in the .cfg. *)
EXTENDS ResultsPage, TLC

Symmetry == Permutations(Load)
=============================================================================
