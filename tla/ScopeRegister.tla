--------------------------- MODULE ScopeRegister ---------------------------
(***************************************************************************)
(* What a state file promises: the active scope is a register that only    *)
(* restrict_paths replaces, each time under the next sequence number.  A   *)
(* restart is invisible: no scope is forgotten, none reappears, and no     *)
(* sequence number is used for two scopes.                                 *)
(***************************************************************************)
EXTENDS Naturals

CONSTANT Path

VARIABLE scope

Init == scope = [seq |-> 0, paths |-> {}]

Replace(P) == scope' = [seq |-> scope.seq + 1, paths |-> P]

Next == \E P \in SUBSET Path : Replace(P)

Spec == Init /\ [][Next]_scope
=============================================================================
