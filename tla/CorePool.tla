------------------------------ MODULE CorePool ------------------------------
(***************************************************************************)
(* The shared core pool of coordination.py: each Hares process registers   *)
(* the cores it pins its commands to in core_pool.json, at start, and      *)
(* drops its entry at exit.  Read, evict, choose, write and replace run    *)
(* under flock(LOCK_EX) on core_pool.json.lock; a process may die between  *)
(* any two of them, and a process id may come back as another process.     *)
(***************************************************************************)
EXTENDS Integers, FiniteSets

CONSTANTS
    Proc,           \* Hares processes, one life each
    Pid,            \* process ids, which the host reuses
    NumCores,       \* the host's cores
    MaxConcurrent,  \* HARES_MAX_CONCURRENT of each process
    Nobody

ASSUME ConstantsAssumption ==
    /\ NumCores \in Nat \ {0}
    /\ MaxConcurrent \in [Proc -> Nat \ {0}]
    /\ Nobody \notin Proc
    /\ Pid # {}

VARIABLES
    pool,     \* core_pool.json: the cores each pid claims, {} for no entry
    lock,     \* the process that holds the flock of core_pool.json.lock
    pc,       \* where each process is
    pid,      \* os.getpid() of a process that lives
    foreign,  \* pids of live processes that are not Hares
    state,    \* the dict a process has read from the pool file
    claimed,  \* _claimed_cores of each process
    shared    \* whether it found no free core and took used ones

vars == <<pool, lock, pc, pid, foreign, state, claimed, shared>>

-----------------------------------------------------------------------------

Core == 0 .. NumCores - 1
EmptyPool == [i \in Pid |-> {}]

Phase == {"new", "lock", "read", "choose", "write", "unlock",
          "up", "exitLock", "exitRead", "exitWrite", "exitUnlock", "gone"}

Living(p) == pc[p] \notin {"new", "gone"}

\* What os.kill(pid, 0) finds.
PidAlive(i) == i \in foreign \/ \E p \in Proc : Living(p) /\ pid[p] = i

Least(a, b) == IF a <= b THEN a ELSE b

\* cores[:n] of an ascending list.
FirstOf(S, n) == {c \in S : Cardinality({d \in S : d < c}) < n}

Goto(p, phase) == pc' = [pc EXCEPT ![p] = phase]

Init ==
    /\ pool = EmptyPool
    /\ lock = Nobody
    /\ pc = [p \in Proc |-> "new"]
    /\ pid = [p \in Proc |-> CHOOSE i \in Pid : TRUE]
    /\ foreign = {}
    /\ state = [p \in Proc |-> EmptyPool]
    /\ claimed = [p \in Proc |-> {}]
    /\ shared = [p \in Proc |-> FALSE]

-----------------------------------------------------------------------------
\* The lock file: blocking flock, released on close and on death.

\* Mutant of Lock: the pool file itself is locked, and replaced under the
\* waiters, so two processes hold locks on two inodes.
LockReplaced(p, from, to) ==
    /\ pc[p] = from
    /\ lock' = p
    /\ Goto(p, to)
    /\ UNCHANGED <<pool, pid, foreign, state, claimed, shared>>

Lock(p, from, to) ==
    /\ pc[p] = from
    /\ lock = Nobody
    /\ lock' = p
    /\ Goto(p, to)
    /\ UNCHANGED <<pool, pid, foreign, state, claimed, shared>>

\* Mutant of Unlock: the descriptor stays open.
UnlockKept(p, from, to) ==
    /\ pc[p] = from
    /\ Goto(p, to)
    /\ UNCHANGED <<pool, lock, pid, foreign, state, claimed, shared>>

Unlock(p, from, to) ==
    /\ pc[p] = from
    /\ lock' = Nobody
    /\ Goto(p, to)
    /\ UNCHANGED <<pool, pid, foreign, state, claimed, shared>>

-----------------------------------------------------------------------------
\* claim_cores, from Runner.__init__.

Start(p) ==
    /\ pc[p] = "new"
    /\ \E i \in Pid :
        /\ ~PidAlive(i)
        /\ pid' = [pid EXCEPT ![p] = i]
    /\ Goto(p, "lock")
    /\ UNCHANGED <<pool, lock, foreign, state, claimed, shared>>

\* _read_core_pool, then _evict_stale_entries on what was read.
Read(p) ==
    /\ pc[p] = "read"
    /\ state' = [state EXCEPT ![p] =
                   [i \in Pid |-> IF PidAlive(i) THEN pool[i] ELSE {}]]
    /\ Goto(p, "choose")
    /\ UNCHANGED <<pool, lock, pid, foreign, claimed, shared>>

\* Mutant of FreeCores: the cores of the host, not of the affinity mask.
FreeCoresOfHost(p) == (0 .. NumCores) \ UNION {state[p][i] : i \in Pid}

\* Mutant of FreeCores: only the process's own entry is left out.
FreeCoresAlone(p) == Core \ state[p][pid[p]]

\* The free cores are those no entry claims, an old entry under the process's
\* own pid included.  With none free, the first cores of all are taken.
FreeCores(p) == Core \ UNION {state[p][i] : i \in Pid}

Choice(p) ==
    LET free == FreeCores(p)
    IN  IF free # {}
        THEN FirstOf(free, Least(MaxConcurrent[p], Cardinality(free)))
        ELSE FirstOf(Core, MaxConcurrent[p])

Choose(p) ==
    /\ pc[p] = "choose"
    /\ state' = [state EXCEPT ![p][pid[p]] = Choice(p)]
    /\ shared' = [shared EXCEPT ![p] = FreeCores(p) = {}]
    /\ Goto(p, "write")
    /\ UNCHANGED <<pool, lock, pid, foreign, claimed>>

\* _write_core_pool: the pid-unique tmp file is renamed over the pool file.
Write(p) ==
    /\ pc[p] = "write"
    /\ pool' = state[p]
    /\ claimed' = [claimed EXCEPT ![p] = state[p][pid[p]]]
    /\ state' = [state EXCEPT ![p] = EmptyPool]
    /\ Goto(p, "unlock")
    /\ UNCHANGED <<lock, pid, foreign, shared>>

-----------------------------------------------------------------------------
\* release_cores, from atexit.

Exit(p) ==
    /\ pc[p] = "up"
    /\ Goto(p, "exitLock")
    /\ UNCHANGED <<pool, lock, pid, foreign, state, claimed, shared>>

ExitRead(p) ==
    /\ pc[p] = "exitRead"
    /\ state' = [state EXCEPT ![p] = [pool EXCEPT ![pid[p]] = {}]]
    /\ Goto(p, "exitWrite")
    /\ UNCHANGED <<pool, lock, pid, foreign, claimed, shared>>

ExitWrite(p) ==
    /\ pc[p] = "exitWrite"
    /\ pool' = state[p]
    /\ claimed' = [claimed EXCEPT ![p] = {}]
    /\ state' = [state EXCEPT ![p] = EmptyPool]
    /\ Goto(p, "exitUnlock")
    /\ UNCHANGED <<lock, pid, foreign, shared>>

-----------------------------------------------------------------------------
\* The host.

\* Any cause; the kernel drops the process's lock.
Die(p) ==
    /\ Living(p)
    /\ lock' = IF lock = p THEN Nobody ELSE lock
    /\ claimed' = [claimed EXCEPT ![p] = {}]
    /\ state' = [state EXCEPT ![p] = EmptyPool]
    /\ Goto(p, "gone")
    /\ UNCHANGED <<pool, pid, foreign, shared>>

\* The host goes down.  The tmp file was not synced before the rename, so
\* the pool file may come back empty or torn, which reads as a fresh dict.
HostCrash ==
    /\ \E p \in Proc : Living(p)
    /\ pool' \in {pool, EmptyPool}
    /\ lock' = Nobody
    /\ pc' = [p \in Proc |-> IF Living(p) THEN "gone" ELSE pc[p]]
    /\ foreign' = {}
    /\ state' = [p \in Proc |-> EmptyPool]
    /\ claimed' = [p \in Proc |-> {}]
    /\ UNCHANGED <<pid, shared>>

\* A process that is not Hares gets a free pid, or ends.
ForeignStart(i) ==
    /\ ~PidAlive(i)
    /\ foreign' = foreign \cup {i}
    /\ UNCHANGED <<pool, lock, pc, pid, state, claimed, shared>>

ForeignEnd(i) ==
    /\ i \in foreign
    /\ foreign' = foreign \ {i}
    /\ UNCHANGED <<pool, lock, pc, pid, state, claimed, shared>>

-----------------------------------------------------------------------------

\* What a process that has begun does by itself.
Step(p) ==
    \/ Lock(p, "lock", "read")
    \/ Read(p)
    \/ Choose(p)
    \/ Write(p)
    \/ Unlock(p, "unlock", "up")
    \/ Lock(p, "exitLock", "exitRead")
    \/ ExitRead(p)
    \/ ExitWrite(p)
    \/ Unlock(p, "exitUnlock", "gone")

Next ==
    \/ \E p \in Proc : Start(p) \/ Exit(p) \/ Die(p) \/ Step(p)
    \/ \E i \in Pid : ForeignStart(i) \/ ForeignEnd(i)
    \/ HostCrash

Spec == Init /\ [][Next]_vars

\* The critical sections are short and processes are finitely many, so a
\* waiter that is always runnable when the lock is free gets it.
FairSpec == Spec /\ \A p \in Proc : SF_vars(Step(p))

-----------------------------------------------------------------------------

TypeOK ==
    /\ pool \in [Pid -> SUBSET Core]
    /\ lock \in Proc \cup {Nobody}
    /\ pc \in [Proc -> Phase]
    /\ pid \in [Proc -> Pid]
    /\ foreign \in SUBSET Pid
    /\ state \in [Proc -> [Pid -> SUBSET Core]]
    /\ claimed \in [Proc -> SUBSET Core]
    /\ shared \in [Proc -> BOOLEAN]

\* Claims are pairwise disjoint among the processes that found a free core:
\* no start, exit, death or pid reuse in between hands a core out twice.
ClaimsDisjoint ==
    \A p, q \in Proc :
        p # q /\ ~shared[p] /\ ~shared[q] => claimed[p] \cap claimed[q] = {}

\* No lost update: while a process lives on its claim, the pool file carries
\* exactly that claim under its pid, whatever the others write.
ClaimRegistered ==
    \A p \in Proc : claimed[p] # {} => pool[pid[p]] = claimed[p]

\* Every process that starts gets its cores (or dies); one that exits ends.
Starts ==
    \A p \in Proc :
        /\ pc[p] = "lock" ~> pc[p] \in {"up", "gone"}
        /\ pc[p] = "exitLock" ~> pc[p] = "gone"
=============================================================================
