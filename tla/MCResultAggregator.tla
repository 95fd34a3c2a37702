------------------------- MODULE MCResultAggregator -------------------------
(* Small instances of ResultAggregator for TLC. *)
EXTENDS ResultAggregator

CONSTANTS d1, d2

MCSummaryDirs == <<d1, d2>>
=============================================================================
