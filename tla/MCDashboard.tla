----------------------------- MODULE MCDashboard -----------------------------
(* A small instance of Dashboard for TLC: its values are in the .cfg. *)
EXTENDS Dashboard
=============================================================================
