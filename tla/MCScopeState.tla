---------------------------- MODULE MCScopeState ----------------------------
(* Instances of ScopeState for TLC.                                        *)
EXTENDS ScopeState

CONSTANTS a1, a2, d1, d2

Agents1 == {a1}
Agents2 == {a1, a2}
Paths1 == {d1}
Paths2 == {d1, d2}
Inodes == 1 .. 4
Inodes6 == 1 .. 6
=============================================================================
