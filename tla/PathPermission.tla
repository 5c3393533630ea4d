--------------------------- MODULE PathPermission ---------------------------
(***************************************************************************)
(* What an approval of request_path_access is worth: one operation when    *)
(* the user said `once', any number when the user said `session', none     *)
(* before the answer.  How the grants are kept, found and consumed is not  *)
(* visible here.                                                           *)
(***************************************************************************)
EXTENDS Naturals

CONSTANT Request

VARIABLES
    lifetime,  \* what was approved for each request; "none" so far
    uses       \* operations that it served: 0, 1, or 2 for more

vars == <<lifetime, uses>>

Init ==
    /\ lifetime = [r \in Request |-> "none"]
    /\ uses = [r \in Request |-> 0]

Approve(r, l) ==
    /\ lifetime[r] = "none"
    /\ lifetime' = [lifetime EXCEPT ![r] = l]
    /\ UNCHANGED uses

MayServe(r) ==
    \/ lifetime[r] = "session"
    \/ lifetime[r] = "once" /\ uses[r] = 0

\* One operation, authorised by all of R.
Serve(R) ==
    /\ \A r \in R : MayServe(r)
    /\ uses' = [r \in Request |->
                  IF r \in R /\ uses[r] < 2 THEN uses[r] + 1 ELSE uses[r]]
    /\ UNCHANGED lifetime

Next ==
    \/ \E r \in Request, l \in {"once", "session"} : Approve(r, l)
    \/ \E R \in SUBSET Request : Serve(R)

Spec == Init /\ [][Next]_vars
=============================================================================
