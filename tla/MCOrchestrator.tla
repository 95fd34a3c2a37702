--------------------------- MODULE MCOrchestrator ---------------------------
(* A small instance of Orchestrator for TLC. *)
EXTENDS Orchestrator

CONSTANTS r1, r2, j1, j2, all, bogus

MCJob == {j1, j2}
MCId  == {j1, j2, all, bogus}
MCAllJobs == <<j1, j2>>

\* Two runs that meet on one output, or work beside each other; a job that is
\* repeated.
MCRequests == {<<j1, j1>>, <<j2>>}

\* One of the runs may take a job for FAILED whose application goes on.
MCLoseTouch == {<<r1, 1>>, <<r1, 2>>}
=============================================================================
