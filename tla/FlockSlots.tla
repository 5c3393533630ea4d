----------------------------- MODULE FlockSlots -----------------------------
(***************************************************************************)
(* The cross-process concurrency cap of coordination.py: several Hares     *)
(* processes share one coordination directory, and a command may only run  *)
(* while its process holds `weight' slot files under flock(LOCK_EX).       *)
(*                                                                         *)
(* Every flock call is a step: another process may act between any two of  *)
(* them.  Inside one process the calls between two awaits are not          *)
(* interleaved with the process's own other tasks (one event loop), which  *)
(* OnLoop states.  A process may die at any step; the kernel then drops    *)
(* the locks of all of its file descriptors.                               *)
(***************************************************************************)
EXTENDS Integers, FiniteSets

CONSTANTS
    Proc,           \* Hares processes that share the directory
    Task,           \* concurrent calls of Runner.execute
    Owner,          \* Owner[t]: the process that runs task t
    MaxConcurrent,  \* MaxConcurrent[p]: HARES_MAX_CONCURRENT of process p
    WeightCap,      \* the weight_cap parameter of CrossProcessCoordinator
    Weight,         \* Weight[t]: the weight t asks for
    MaxCrashes,     \* bound: process deaths
    MaxOpenErrors,  \* bound: slot files a process fails to open in its life
    MaxProbes,      \* bound: slot files that runs of doctor look at
    Doctor,         \* `hares doctor', in processes of their own
    NoTask

ASSUME ConstantsAssumption ==
    /\ Owner \in [Task -> Proc]
    /\ MaxConcurrent \in [Proc -> Nat \ {0}]
    /\ WeightCap \in Nat \ {0}
    /\ Weight \in [Task -> Nat \ {0}]
    /\ MaxCrashes \in Nat
    /\ MaxOpenErrors \in Nat
    /\ MaxProbes \in Nat
    /\ NoTask \notin Task
    /\ Doctor \notin Task \cup {NoTask}
    /\ Proc \cap (Task \cup {NoTask, Doctor}) = {}

VARIABLES
    holder,    \* kernel: whose descriptor holds the flock of a slot; a
               \* process, when no call of it knows the descriptor any more
    pc,        \* where each task is in acquire / run / release
    cursor,    \* the index of `for sf in self._slot_files'
    acquired,  \* the list `acquired' of a scan, then the slot token
    failed,    \* failed[p]: slot files that process p failed to open
    crashes,   \* process deaths so far
    probes     \* slot files that doctor has found free so far

vars == <<holder, pc, cursor, acquired, failed, crashes, probes>>

-----------------------------------------------------------------------------

SlotsOf(p) == 0 .. MaxConcurrent[p] - 1
Slot == UNION {SlotsOf(p) : p \in Proc}

\* weight = max(1, min(weight, self._weight_cap))
Want(t) == IF Weight[t] <= WeightCap THEN Weight[t] ELSE WeightCap

Phase == {"idle", "scan", "undo", "raise", "sleep", "running", "release",
          "dead"}

\* Between two awaits: no other task of the same process runs.
InSection(t) == pc[t] \in {"scan", "undo", "raise", "release"}

OnLoop(t) ==
    \A u \in Task \ {t} : Owner[u] = Owner[t] => ~InSection(u)

Goto(t, phase) == pc' = [pc EXCEPT ![t] = phase]

Init ==
    /\ holder = [s \in Slot |-> NoTask]
    /\ pc = [t \in Task |-> "idle"]
    /\ cursor = [t \in Task |-> 0]
    /\ acquired = [t \in Task |-> {}]
    /\ failed = [p \in Proc |-> 0]
    /\ crashes = 0
    /\ probes = 0

-----------------------------------------------------------------------------
\* Acquisition: _acquire_flock_slots.

\* Entering the `while True' loop, on the call or after asyncio.sleep(0.5).
StartScan(t) ==
    /\ OnLoop(t)
    /\ Goto(t, "scan")
    /\ cursor' = [cursor EXCEPT ![t] = 0]
    /\ UNCHANGED <<holder, acquired, failed, crashes, probes>>

\* A task calls again and again, without bound.
Call(t) ==
    /\ pc[t] = "idle"
    /\ StartScan(t)

Wake(t) ==
    /\ pc[t] = "sleep"
    /\ StartScan(t)

\* Mutant of Scanning: the index runs one past the process's slot files.
ScanningPastEnd(t) ==
    /\ pc[t] = "scan"
    /\ Cardinality(acquired[t]) < Want(t)
    /\ cursor[t] <= MaxConcurrent[Owner[t]]

\* The loop goes on: a slot file is left and the weight is not reached.
Scanning(t) ==
    /\ pc[t] = "scan"
    /\ Cardinality(acquired[t]) < Want(t)
    /\ cursor[t] < MaxConcurrent[Owner[t]]

\* Mutant of TryLock: LOCK_SH in place of LOCK_EX.
TryLockShared(t) ==
    /\ Scanning(t)
    /\ holder' = [holder EXCEPT ![cursor[t]] = t]
    /\ acquired' = [acquired EXCEPT ![t] = @ \cup {cursor[t]}]
    /\ cursor' = [cursor EXCEPT ![t] = @ + 1]
    /\ UNCHANGED <<pc, failed, crashes, probes>>

\* flock(fd, LOCK_EX | LOCK_NB) on the next slot file.
TryLock(t) ==
    /\ Scanning(t)
    /\ IF holder[cursor[t]] = NoTask
       THEN /\ holder' = [holder EXCEPT ![cursor[t]] = t]
            /\ acquired' = [acquired EXCEPT ![t] = @ \cup {cursor[t]}]
       ELSE UNCHANGED <<holder, acquired>>
    /\ cursor' = [cursor EXCEPT ![t] = @ + 1]
    /\ UNCHANGED <<pc, failed, crashes, probes>>

\* Mutant of LockError: the error leaves before the partial set is released.
LockErrorLeaks(t) ==
    /\ Scanning(t)
    /\ Goto(t, "idle")
    /\ UNCHANGED <<holder, cursor, acquired, failed, crashes, probes>>

\* flock fails with an errno other than EACCES and EAGAIN.
LockError(t) ==
    /\ Scanning(t)
    /\ Goto(t, "raise")
    /\ UNCHANGED <<holder, cursor, acquired, failed, crashes, probes>>

\* os.open of the next slot file fails (no descriptor left, file removed).  It
\* stands before the `try': the call ends, and nobody closes the descriptors
\* in `acquired', which are plain numbers.  The process keeps their locks.
OpenError(t) ==
    /\ Scanning(t)
    /\ failed[Owner[t]] < MaxOpenErrors
    /\ failed' = [failed EXCEPT ![Owner[t]] = @ + 1]
    /\ holder' = [s \in Slot |->
                    IF s \in acquired[t] THEN Owner[t] ELSE holder[s]]
    /\ acquired' = [acquired EXCEPT ![t] = {}]
    /\ Goto(t, "idle")
    /\ UNCHANGED <<cursor, crashes, probes>>

\* len(acquired) >= weight: the slots are the token of the call.
Granted(t) ==
    /\ pc[t] = "scan"
    /\ Cardinality(acquired[t]) >= Want(t)
    /\ Goto(t, "running")
    /\ UNCHANGED <<holder, cursor, acquired, failed, crashes, probes>>

\* Not enough free: release the partial set and sleep.
NotEnough(t) ==
    /\ pc[t] = "scan"
    /\ Cardinality(acquired[t]) < Want(t)
    /\ cursor[t] >= MaxConcurrent[Owner[t]]
    /\ Goto(t, "undo")
    /\ UNCHANGED <<holder, cursor, acquired, failed, crashes, probes>>

-----------------------------------------------------------------------------
\* Release: flock(LOCK_UN) and close, one descriptor after the other.

\* The phase in which a task is once its last descriptor is closed.
AfterRelease(phase) == IF phase = "undo" THEN "sleep" ELSE "idle"

\* Mutant of Unlock: a slot is given back while the command still runs.
UnlockEarly(t, s) ==
    /\ pc[t] \in {"undo", "raise", "running"}
    /\ s \in acquired[t]
    /\ holder' = [holder EXCEPT ![s] = NoTask]
    /\ acquired' = [acquired EXCEPT ![t] = @ \ {s}]
    /\ UNCHANGED <<pc, cursor, failed, crashes, probes>>

\* Mutant of Unlock: the descriptor is forgotten, not unlocked.
UnlockForgets(t, s) ==
    /\ pc[t] \in {"undo", "raise", "release"}
    /\ s \in acquired[t]
    /\ acquired' = [acquired EXCEPT ![t] = @ \ {s}]
    /\ UNCHANGED <<holder, pc, cursor, failed, crashes, probes>>

Unlock(t, s) ==
    /\ pc[t] \in {"undo", "raise", "release"}
    /\ s \in acquired[t]
    /\ \A r \in acquired[t] : s <= r
    /\ holder' = [holder EXCEPT ![s] = NoTask]
    /\ acquired' = [acquired EXCEPT ![t] = @ \ {s}]
    /\ UNCHANGED <<pc, cursor, failed, crashes, probes>>

Released(t) ==
    /\ pc[t] \in {"undo", "raise", "release"}
    /\ acquired[t] = {}
    /\ Goto(t, AfterRelease(pc[t]))
    /\ UNCHANGED <<holder, cursor, acquired, failed, crashes, probes>>

\* The command ends, or its call is cancelled: execute's finally clause.
Finish(t) ==
    /\ pc[t] = "running"
    /\ OnLoop(t)
    /\ Goto(t, "release")
    /\ UNCHANGED <<holder, cursor, acquired, failed, crashes, probes>>

\* The call is cancelled in asyncio.sleep, the only await of the loop.
Cancel(t) ==
    /\ pc[t] = "sleep"
    /\ OnLoop(t)
    /\ Goto(t, "idle")
    /\ UNCHANGED <<holder, cursor, acquired, failed, crashes, probes>>

-----------------------------------------------------------------------------
\* Death of a process, at any step, and its restart.

TasksOf(p) == {t \in Task : Owner[t] = p}

Crash(p) ==
    /\ crashes < MaxCrashes
    /\ \A t \in TasksOf(p) : pc[t] # "dead"
    /\ crashes' = crashes + 1
    /\ pc' = [t \in Task |-> IF t \in TasksOf(p) THEN "dead" ELSE pc[t]]
    /\ holder' = [s \in Slot |->
                    IF holder[s] \in TasksOf(p) \cup {p} THEN NoTask
                    ELSE holder[s]]
    /\ failed' = [failed EXCEPT ![p] = 0]
    /\ acquired' = [t \in Task |->
                      IF t \in TasksOf(p) THEN {} ELSE acquired[t]]
    /\ UNCHANGED <<cursor, probes>>

Restart(p) ==
    /\ \A t \in TasksOf(p) : pc[t] = "dead"
    /\ pc' = [t \in Task |-> IF t \in TasksOf(p) THEN "idle" ELSE pc[t]]
    /\ UNCHANGED <<holder, cursor, acquired, failed, crashes, probes>>

-----------------------------------------------------------------------------
\* count_free_slots: doctor tries each slot file with a lock of its own, and
\* unlocks it at once.  It does not wait, and what it counts is only printed.

Probe(s) ==
    /\ probes < MaxProbes
    /\ holder[s] = NoTask
    /\ holder' = [holder EXCEPT ![s] = Doctor]
    /\ probes' = probes + 1
    /\ UNCHANGED <<pc, cursor, acquired, failed, crashes>>

\* Unlocked, or dropped by the death of doctor.
ProbeEnds(s) ==
    /\ holder[s] = Doctor
    /\ holder' = [holder EXCEPT ![s] = NoTask]
    /\ UNCHANGED <<pc, cursor, acquired, failed, crashes, probes>>

-----------------------------------------------------------------------------

\* The steps of a task between two awaits, which nothing but the death of its
\* process takes away.
SectionStep(t) ==
    \/ TryLock(t)
    \/ Granted(t)
    \/ NotEnough(t)
    \/ \E s \in Slot : Unlock(t, s)
    \/ Released(t)

Next ==
    \/ \E t \in Task :
          \/ Call(t) \/ Wake(t) \/ Finish(t) \/ Cancel(t)
          \/ LockError(t) \/ OpenError(t)
          \/ SectionStep(t)
    \/ \E p \in Proc : Crash(p) \/ Restart(p)
    \/ \E s \in Slot : Probe(s) \/ ProbeEnds(s)

Spec == Init /\ [][Next]_vars

(***************************************************************************)
(* A started section goes on.  The event loop runs its ready tasks in FIFO *)
(* order: a task whose 0.5 s are over, or whose command ended, gets its    *)
(* turn though the loop is busy with a sibling whenever it is looked at    *)
(* (strong fairness).  Every command ends: each has a timeout.  A probe    *)
(* ends.  Nothing says that a task finds free slots when it wakes, and     *)
(* nobody has to call, cancel, die, restart or run doctor.                 *)
(***************************************************************************)
Fairness ==
    /\ \A t \in Task :
          WF_vars(SectionStep(t)) /\ SF_vars(Wake(t)) /\ SF_vars(Finish(t))
    /\ \A s \in Slot : WF_vars(ProbeEnds(s))

FairSpec == Spec /\ Fairness

-----------------------------------------------------------------------------

TypeOK ==
    /\ holder \in [Slot -> Task \cup Proc \cup {NoTask, Doctor}]
    /\ pc \in [Task -> Phase]
    /\ cursor \in [Task -> Nat]
    /\ \A t \in Task : cursor[t] <= MaxConcurrent[Owner[t]]
    /\ acquired \in [Task -> SUBSET Slot]
    /\ failed \in [Proc -> 0 .. MaxOpenErrors]
    /\ crashes \in 0 .. MaxCrashes
    /\ probes \in 0 .. MaxProbes

\* The locks a process holds without a call that knows of them.
Stranded(p) == {s \in Slot : holder[s] = p}

\* What a call knows it holds is what the kernel holds for it.
LocksKnown ==
    \A t \in Task :
        /\ acquired[t] = {s \in Slot : holder[s] = t}
        /\ pc[t] \in {"idle", "sleep", "dead"} => acquired[t] = {}

\* A file that could not be opened strands less than a weight.
StrandedFew ==
    \A p \in Proc :
        Cardinality(Stranded(p)) <= failed[p] * (WeightCap - 1)

\* Every lock is accounted for: the descriptors a call knows of are exactly the
\* locks the kernel holds for it, and a call that sleeps, ended, raised or died
\* has none (the scan keeps nothing while it sleeps).  After any mix of partial
\* attempts, flock errors, cancellations, probes and deaths, only a slot file
\* that could not be opened strands locks, less than a weight each time, and
\* none that outlives the process; with a weight_cap of 1 there are none.
LocksAreAccounted == LocksKnown /\ StrandedFew

\* The cap is global: commands that run at once hold disjoint sets of slots
\* of the size each was granted, whatever process they belong to and however
\* the scans and releases of the processes interleave.
CapIsGlobal ==
    \A t \in Task : pc[t] = "running" =>
        /\ Cardinality(acquired[t]) = Want(t)
        /\ acquired[t] \subseteq SlotsOf(Owner[t])
        /\ \A u \in Task \ {t} :
              pc[u] = "running" => acquired[t] \cap acquired[u] = {}

\* The detailed protocol implements the lease of whole sets of slots.
Grants(t) == {S \in SUBSET SlotsOf(Owner[t]) : Cardinality(S) = Want(t)}
leased == [t \in Task |-> IF pc[t] = "running" THEN acquired[t] ELSE {}]

Lease == INSTANCE SlotLease WITH lease <- leased

ImplementsLease == Lease!Spec

\* Two calls hold a part of what each wants.
Colliding ==
    \E t, u \in Task :
        /\ t # u
        /\ {pc[t], pc[u]} \subseteq {"scan", "undo"}
        /\ acquired[t] # {} /\ acquired[u] # {}
        /\ Want(t) > 1 /\ Want(u) > 1

\* coordination.py:175, "Blocks indefinitely -- slots are released when commands
\* finish or when a holding process dies [...], so callers eventually make
\* progress".  For as long as calls poll for slots, again and again a command
\* runs or a call raises, whatever the scans, releases, probes and deaths in
\* between: unless two calls that want several slots collide again and again, or
\* slots are stranded, so that too few may be left.  With a weight_cap of 1
\* neither can be.  (It is said of the callers together: new calls may overtake
\* a sleeping one.)
CallersProgress ==
    []<>(\/ \E t \in Task : pc[t] \in {"running", "raise"}
         \/ \A t \in Task : pc[t] \notin {"scan", "undo", "sleep"}
         \/ Colliding
         \/ \E p \in Proc : Stranded(p) # {})
=============================================================================
