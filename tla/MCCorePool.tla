----------------------------- MODULE MCCorePool -----------------------------
(* Instances of CorePool for TLC.                                          *)
EXTENDS CorePool

CONSTANTS p1, p2, p3, i1, i2, i3

Procs3 == {p1, p2, p3}
Pids3 == {i1, i2, i3}

\* p1 wants two of the cores, the others one.
Wants3 == [p \in Procs3 |-> IF p = p1 THEN 2 ELSE 1]
=============================================================================
