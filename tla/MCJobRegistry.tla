---------------------------- MODULE MCJobRegistry ----------------------------
(* Small instances of JobRegistry for TLC. *)
EXTENDS JobRegistry

CONSTANTS r1, p1, j1, j2, all, bogus

MCRun == {r1}
MCJob  == {j1, j2}
MCId   == {j1, j2, all, bogus}
MCAllJobs == <<j1, j2>>

\* The alias, a job named twice around another, an unknown id after a known
\* one, the alias where it is not expanded, and no id at all.
MCRequests == {<<all>>, <<j1, j2, j1>>, <<j1, bogus>>, <<j2, all>>, << >>}
=============================================================================
