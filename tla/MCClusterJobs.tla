--------------------------- MODULE MCClusterJobs ---------------------------
(* An instance of ClusterJobs for TLC.                                     *)
EXTENDS ClusterJobs

CONSTANTS w1, w2, c1

\* The wait is for both jobs, the cancel for one; w2 submits a job itself.
Calls == [x \in {w1, w2, c1} |-> IF x = w1 THEN {1, 2} ELSE {1}]
=============================================================================
