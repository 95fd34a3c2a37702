---------------------------- MODULE MCJobScripts ----------------------------
(* A small instance of JobScripts for TLC: two jobs. *)
EXTENDS JobScripts

CONSTANTS grade, state

MCDirs == <<grade, state>>
=============================================================================
