---------------------------- MODULE MCFlockSlots ----------------------------
(* Instances of FlockSlots for TLC: three Hares processes, three calls.    *)
EXTENDS FlockSlots

CONSTANTS p1, p2, p3, t1, t2, t3

Procs == {p1, p2, p3}
Tasks == {t1, t2, t3}

\* p1 runs two calls on its event loop, p2 one.
Owners == [t \in Tasks |-> IF t = t3 THEN p2 ELSE p1]

\* p3 was started with a raised cap: its last slot file is not for the others.
Caps == [p \in Procs |-> IF p = p3 THEN 3 ELSE 2]

\* t1 asks for one slot, the others for two.
Weights == [t \in Tasks |-> IF t = t1 THEN 1 ELSE 2]
=============================================================================
