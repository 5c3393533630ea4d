----------------------------- MODULE SlotLease -----------------------------
(***************************************************************************)
(* What the coordination directory promises its users: the slot files      *)
(* slots/slot-0.lock, slot-1.lock, ... are leased to commands, a slot to   *)
(* one command at a time, and a command runs on a whole set of slots of    *)
(* the size it was granted or on none.  How the set is collected (one      *)
(* flock at a time, with partial attempts undone) is not visible here.     *)
(***************************************************************************)
CONSTANTS
    Task,       \* calls of Runner.execute, over all Hares processes
    Grants(_)   \* the sets of slots that make a task's command run: of its
                \* size, and among the slots that its process looks at

VARIABLE lease  \* the slots each task runs on; {} when it does not run

Init == lease = [t \in Task |-> {}]

\* A task gets, in one step, all of its slots.
Grant(t) ==
    /\ lease[t] = {}
    /\ \E S \in Grants(t) :
        /\ \A u \in Task : S \cap lease[u] = {}
        /\ lease' = [lease EXCEPT ![t] = S]

\* One task finishes, or a process dies and all of its tasks lose theirs.
Return(T) ==
    lease' = [t \in Task |-> IF t \in T THEN {} ELSE lease[t]]

Next ==
    \/ \E t \in Task : Grant(t)
    \/ \E T \in SUBSET Task : Return(T)

Spec == Init /\ [][Next]_lease
=============================================================================
