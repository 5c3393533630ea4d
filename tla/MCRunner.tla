------------------------------ MODULE MCRunner ------------------------------
(* Instances of Runner for TLC.                                            *)
EXTENDS Runner

CONSTANTS t1, t2, t3, t4

Tasks3 == {t1, t2, t3}
Tasks4 == {t1, t2, t3, t4}

\* Two heavy commands and two light ones; all light.
TwoHeavy4 == [t \in Tasks4 |-> IF t \in {t1, t2} THEN 2 ELSE 1]
Light == [t \in Tasks3 |-> 1]
=============================================================================
