---------------------------- MODULE MCRunLifecycle ----------------------------
(* Two runs of one scenario, the first with pinned agents.                   *)
EXTENDS RunLifecycle

CONSTANTS r1, r2, repo

MCRuns   == {r1, r2}
MCRepoOf == [r \in MCRuns |-> repo]
=============================================================================
