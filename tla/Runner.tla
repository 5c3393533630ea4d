------------------------------- MODULE Runner -------------------------------
(***************************************************************************)
(* The life of the commands of one Hares process (runner.py, execute), on  *)
(* the in-process semaphore: the one the Runner owns when it is embedded   *)
(* without a coordinator, or the coordinator's when no coordination        *)
(* directory is set.                                                       *)
(*                                                                         *)
(* All tasks share an event loop, so an action is everything a task does   *)
(* between two awaits that really suspend.  Taking the last permit,        *)
(* claiming cores, composing the sandbox and consuming the once grants     *)
(* form one action, which ends at the await of the spawn.                  *)
(***************************************************************************)
EXTENDS Integers, Sequences, FiniteSets

CONSTANTS
    Task,           \* the calls of execute; each calls once
    MaxConcurrent,  \* HARES_MAX_CONCURRENT
    NumCores,       \* cores in the Runner's pool
    Weight,         \* Weight[t]: the weight t asks for
    WeightCap,      \* weight_cap; MaxConcurrent when the Runner's own
                    \* semaphore is used, which has no second clamp
    CountPartial,   \* TRUE: `acquired' counts each permit as it is taken
                    \* (Runner); FALSE: only the whole weight (coordinator)
    Modes           \* how children may be spawned: "rlimit", in a "cgroup"
                    \* scope, or behind a network "allowlist"; without
                    \* slirp4netns an allowlist is no more than "rlimit"

ASSUME ConstantsAssumption ==
    /\ MaxConcurrent \in Nat \ {0}
    /\ NumCores \in Nat
    /\ Weight \in [Task -> Nat \ {0}]
    /\ WeightCap \in Nat \ {0}
    /\ CountPartial \in BOOLEAN
    /\ Modes \subseteq {"rlimit", "cgroup", "allowlist"}

VARIABLES
    mode,     \* how this Runner spawns its children
    value,    \* Semaphore._value
    queue,    \* Semaphore._waiters, in FIFO order
    woken,    \* waiters whose future has its result: a permit in flight
    pc,       \* where each call is
    held,     \* permits the call has taken
    cores,    \* pinned_cores of the call
    inUse,    \* Runner._core_in_use
    child,    \* the command's process tree, as the event loop sees it
    outcome   \* how the call ended

vars == <<mode, value, queue, woken, pc, held, cores, inUse, child, outcome>>
semaphore == <<value, queue, woken>>

-----------------------------------------------------------------------------

\* "ready": the child exists, its cgroup or its network is awaited.
Phase == {"idle", "wait", "spawn", "ready", "run", "drain", "join", "done"}
Occupying == {"spawn", "ready", "run", "drain", "join"}
Outcome == {"none", "result", "timeout", "stalled", "failed", "cancelled"}

\* "stuck": the leader was killed but is in uninterruptible sleep, so it goes
\* on for a while; "left": the leader ended and was reaped, and processes that
\* it put in the background live on.
ChildState == {"none", "alive", "stuck", "left", "gone"}

Core == 0 .. NumCores - 1

Least(a, b) == IF a <= b THEN a ELSE b

\* The n smallest members of a set of numbers.
FirstOf(S, n) == {c \in S : Cardinality({d \in S : d < c}) < n}

\* The permits behind the numbers in h, one by one.
Permits(h) == UNION {{t} \X (1 .. h[t]) : t \in Task}

\* execute clamps the weight to max_concurrent; the coordinator then clamps
\* the slots, and not the cores, to weight_cap.
CoreWeight(t) == Least(Weight[t], MaxConcurrent)
SlotWeight(t) == Least(CoreWeight(t), WeightCap)

Init ==
    /\ mode \in Modes
    /\ value = MaxConcurrent
    /\ queue = <<>>
    /\ woken = {}
    /\ pc = [t \in Task |-> "idle"]
    /\ held = [t \in Task |-> 0]
    /\ cores = [t \in Task |-> {}]
    /\ inUse = {}
    /\ child = [t \in Task |-> "none"]
    /\ outcome = [t \in Task |-> "none"]

-----------------------------------------------------------------------------
\* asyncio.Semaphore.

\* deque.remove of the future t waits on.
Without(q, t) ==
    LET at == CHOOSE i \in 1 .. Len(q) : q[i] = t
    IN  [i \in 1 .. Len(q) - 1 |-> IF i < at THEN q[i] ELSE q[i + 1]]

\* Who is woken by n wake-ups when q waits and w is woken already: the first
\* waiters that have no permit.
Handed(n, q, w) ==
    {q[i] : i \in FirstOf({j \in 1 .. Len(q) : q[j] \notin w}, n)}

\* With v permits free, n of them are handed on: each release() hands on one,
\* the `finally' of acquire() hands on all there are.
Settle(v, n, q, w) ==
    /\ value' = v - Cardinality(Handed(n, q, w))
    /\ woken' = w \cup Handed(n, q, w)
    /\ queue' = q

-----------------------------------------------------------------------------
\* Cores: _claim_cores and _release_cores.

\* Mutant of Chosen: cores in use are not left out.
ChosenInUse(n) == FirstOf(Core, n)

\* free[:weight], or the whole pool[:weight] when no core is free.
Chosen(n) ==
    LET free == Core \ inUse
    IN  FirstOf(IF free = {} THEN Core ELSE free, n)

ClaimCores(t) ==
    /\ cores' = [cores EXCEPT ![t] = Chosen(CoreWeight(t))]
    /\ inUse' = inUse \cup Chosen(CoreWeight(t))

\* Cores another call shares are marked free as well.
ReleaseCores(t) ==
    /\ cores' = [cores EXCEPT ![t] = {}]
    /\ inUse' = inUse \ cores[t]

-----------------------------------------------------------------------------
\* Acquisition: `for _ in range(weight): await sem.acquire()'.

\* The loop from h permits taken, until it has the weight or must wait.  A
\* permit is taken at once only when nobody is in the queue.
AcquireLoop(t, h, v, q, w) ==
    LET need == SlotWeight(t) - h
        take == IF q = <<>> THEN Least(v, need) ELSE 0
    IN  /\ held' = [held EXCEPT ![t] = h + take]
        /\ value' = v - take
        /\ woken' = w
        /\ \/ /\ take = need
              /\ queue' = q
              /\ pc' = [pc EXCEPT ![t] = "spawn"]
              /\ ClaimCores(t)
           \/ /\ take < need
              /\ queue' = Append(q, t)
              /\ pc' = [pc EXCEPT ![t] = "wait"]
              /\ UNCHANGED <<cores, inUse>>

Call(t) ==
    /\ pc[t] = "idle"
    /\ AcquireLoop(t, 0, value, queue, woken)
    /\ UNCHANGED <<child, outcome>>

\* Mutant of Resume: the permit in flight is taken a second time.
ResumeTakesAgain(t) ==
    /\ pc[t] = "wait"
    /\ t \in woken
    /\ AcquireLoop(t, held[t] + 1, value - 1, Without(queue, t), woken \ {t})
    /\ UNCHANGED <<child, outcome>>

\* The future of a waiter has its result.  acquire() first wakes those who
\* came while a permit was free and had to queue, then returns.
Resume(t) ==
    /\ pc[t] = "wait"
    /\ t \in woken
    /\ LET q == Without(queue, t)
           w == woken \ {t}
           next == Handed(value, q, w)
       IN  AcquireLoop(t, held[t] + 1, value - Cardinality(next), q,
                       w \cup next)
    /\ UNCHANGED <<child, outcome>>

-----------------------------------------------------------------------------
\* The finally clause of execute: cores first, then the permits.

Finally(t, how) ==
    /\ ReleaseCores(t)
    /\ held' = [held EXCEPT ![t] = 0]
    /\ Settle(value + held[t], held[t], queue, woken)
    /\ pc' = [pc EXCEPT ![t] = "done"]
    /\ outcome' = [outcome EXCEPT ![t] = how]

\* Mutant of CancelWait: a permit in flight is dropped.
CancelWaitDrops(t) ==
    /\ pc[t] = "wait"
    /\ LET v == value + held[t]
       IN  Settle(v, v, Without(queue, t), woken \ {t})
    /\ held' = [held EXCEPT ![t] = 0]
    /\ pc' = [pc EXCEPT ![t] = "done"]
    /\ outcome' = [outcome EXCEPT ![t] = "cancelled"]
    /\ UNCHANGED <<cores, inUse, child>>

\* CancelledError out of sem.acquire(): a permit in flight goes back, and
\* the permits taken before only where they have been counted.
CancelWait(t) ==
    /\ pc[t] = "wait"
    /\ LET inFlight == IF t \in woken THEN 1 ELSE 0
           counted == IF CountPartial THEN held[t] ELSE 0
           v == value + inFlight + counted
       IN  Settle(v, v, Without(queue, t), woken \ {t})
    /\ held' = [held EXCEPT ![t] = 0]
    /\ pc' = [pc EXCEPT ![t] = "done"]
    /\ outcome' = [outcome EXCEPT ![t] = "cancelled"]
    /\ UNCHANGED <<cores, inUse, child>>

-----------------------------------------------------------------------------
\* The child.

\* _spawn_sandboxed, like the unsandboxed spawn, goes on to await the cgroup
\* or the network of the child, if there is one to await.
AfterSpawn == IF mode = "rlimit" THEN "run" ELSE "ready"

SpawnOk(t) ==
    /\ pc[t] = "spawn"
    /\ pc' = [pc EXCEPT ![t] = AfterSpawn]
    /\ child' = [child EXCEPT ![t] = "alive"]
    /\ UNCHANGED <<semaphore, held, cores, inUse, outcome>>

\* Mutant of SpawnFails: the handshake fails and the child is left alive.
SpawnFailsLeaks(t) ==
    /\ pc[t] = "spawn"
    /\ Finally(t, "failed")
    /\ child' = [child EXCEPT ![t] = "alive"]

\* create_subprocess_* raises (no such cwd, preexec failure, ...).
SpawnFails(t) ==
    /\ pc[t] = "spawn"
    /\ Finally(t, "failed")
    /\ UNCHANGED child

\* Cancelled in create_subprocess_*: asyncio kills and reaps the child.
CancelSpawn(t) ==
    /\ pc[t] = "spawn"
    /\ Finally(t, "cancelled")
    /\ UNCHANGED child

\* _resolve_scope_dir: found, or given up after six attempts.
ScopeResolved(t) ==
    /\ pc[t] = "ready"
    /\ mode = "cgroup"
    /\ pc' = [pc EXCEPT ![t] = "run"]
    /\ UNCHANGED <<semaphore, held, cores, inUse, child, outcome>>

\* The sync pipe of bwrap is read at its write end, which is an OSError, and
\* only TimeoutError is caught there: no allowlist command gets further.
HandshakeFails(t) ==
    /\ pc[t] = "ready"
    /\ mode = "allowlist"
    /\ Finally(t, "failed")
    /\ UNCHANGED child

\* Cancelled in either wait: nothing is killed.
CancelReady(t) ==
    /\ pc[t] = "ready"
    /\ Finally(t, "cancelled")
    /\ UNCHANGED child

\* The tree ends by itself, is killed by the kernel or the monitor for its
\* memory or CPU use, or its stalled I/O returns.
ChildEnds(t) ==
    /\ child[t] \in {"alive", "stuck", "left"}
    /\ child' = [child EXCEPT ![t] = "gone"]
    /\ UNCHANGED <<semaphore, pc, held, cores, inUse, outcome>>

\* The leader ends before its background processes.  Behind an allowlist the
\* leader is bwrap, and its PID namespace ends with it.
LeaderEnds(t) ==
    /\ child[t] \in {"alive", "stuck"}
    /\ mode # "allowlist"
    /\ child' = [child EXCEPT ![t] = "left"]
    /\ UNCHANGED <<semaphore, pc, held, cores, inUse, outcome>>

Leave(t, how) ==
    /\ pc' = [pc EXCEPT ![t] = "join"]
    /\ outcome' = [outcome EXCEPT ![t] = how]
    /\ UNCHANGED <<semaphore, held, cores, inUse>>

\* communicate() returns: the leader has ended and the pipes are closed, which
\* background processes that were redirected do not hold open.
Complete(t) ==
    /\ pc[t] = "run"
    /\ child[t] \in {"gone", "left"}
    /\ Leave(t, "result")
    /\ UNCHANGED child

\* What cgroup.kill and the SIGKILL to the leader's group may leave.  Neither
\* need reach the background processes: there may be no scope to kill, they may
\* be in groups of their own, and a leader that was reaped has no group any
\* more (CommandWatch models which of them die).
AfterKill(c) == IF c = "alive" THEN {"stuck", "left", "gone"} ELSE {c, "gone"}

\* wait_for expires, possibly together with the child's end.
Timeout(t) ==
    /\ pc[t] = "run"
    /\ pc' = [pc EXCEPT ![t] = "drain"]
    /\ \E c \in AfterKill(child[t]) : child' = [child EXCEPT ![t] = c]
    /\ UNCHANGED <<semaphore, held, cores, inUse, outcome>>

Drained(t) ==
    /\ pc[t] = "drain"
    /\ child[t] \in {"gone", "left"}
    /\ Leave(t, "timeout")
    /\ UNCHANGED child

\* Mutant of DrainStalls: the drain after SIGKILL has no timeout.
DrainUnbounded(t) ==
    /\ pc[t] = "drain"
    /\ child[t] \in {"gone", "left"}
    /\ Leave(t, "stalled")
    /\ UNCHANGED child

\* _POST_KILL_DRAIN_TIMEOUT expires: the leader is wedged, or processes it left
\* behind hold the pipes.  The tree is abandoned.
DrainStalls(t) ==
    /\ pc[t] = "drain"
    /\ child[t] \in {"stuck", "left"}
    /\ Leave(t, "stalled")
    /\ UNCHANGED child

\* CancelledError out of communicate(): nothing is killed.
CancelRun(t) ==
    /\ pc[t] \in {"run", "drain"}
    /\ Leave(t, "cancelled")
    /\ UNCHANGED child

\* `await monitor' is over; the result is returned or the error goes on.
Join(t) ==
    /\ pc[t] = "join"
    /\ Finally(t, outcome[t])
    /\ UNCHANGED child

\* The call is cancelled only now, while it waits for the monitor.
CancelJoin(t) ==
    /\ pc[t] = "join"
    /\ Finally(t, "cancelled")
    /\ UNCHANGED child

-----------------------------------------------------------------------------

Cancelled(t) ==
    \/ CancelWait(t)
    \/ CancelSpawn(t)
    \/ CancelReady(t)
    \/ CancelRun(t)
    \/ CancelJoin(t)

\* What the event loop and execute's two timeouts bring about by themselves.
Progress(t) ==
    \/ Resume(t)
    \/ SpawnOk(t)
    \/ SpawnFails(t)
    \/ ScopeResolved(t)
    \/ HandshakeFails(t)
    \/ Complete(t)
    \/ Timeout(t)
    \/ Drained(t)
    \/ DrainStalls(t)
    \/ Join(t)

Next ==
    /\ \E t \in Task :
          \/ Call(t) \/ Cancelled(t) \/ Progress(t)
          \/ ChildEnds(t) \/ LeaderEnds(t)
    /\ UNCHANGED mode

Spec == Init /\ [][Next]_vars

\* No fairness for Call, Cancelled, ChildEnds or LeaderEnds: a command may never
\* end.
FairSpec == Spec /\ \A t \in Task : WF_vars(Progress(t) /\ UNCHANGED mode)

-----------------------------------------------------------------------------

TypeOK ==
    /\ mode \in Modes
    /\ value \in Nat
    /\ queue \in Seq(Task)
    /\ woken \in SUBSET Task
    /\ pc \in [Task -> Phase]
    /\ held \in [Task -> Nat]
    /\ cores \in [Task -> SUBSET Core]
    /\ inUse \in SUBSET Core
    /\ child \in [Task -> ChildState]
    /\ outcome \in [Task -> Outcome]

\* No permit is lost or made up by any interleaving of releases, wake-ups,
\* cancellations and failed spawns: the free ones, the ones in flight to a
\* woken waiter and the ones the calls hold add up to the cap, and a command
\* runs on exactly its weight, an ended call on nothing.
PermitsConserved ==
    /\ value + Cardinality(woken) + Cardinality(Permits(held))
         = MaxConcurrent
    /\ \A t \in Task :
        /\ pc[t] \in Occupying => held[t] = SlotWeight(t)
        /\ pc[t] \in {"idle", "done"} => held[t] = 0

\* While the slots a command takes bound its cores (no second clamp) and the
\* pool is as large as the cap, commands are pinned to disjoint cores, as
\* many as their weight, and _core_in_use is exactly what is pinned.
CoresExclusive ==
    /\ inUse = UNION {cores[t] : t \in Task}
    /\ \A t \in Task :
        /\ pc[t] \in Occupying =>
              Cardinality(cores[t]) = CoreWeight(t)
        /\ \A u \in Task \ {t} : cores[t] \cap cores[u] = {}

\* A command whose leader is alive without its slots was abandoned: its call
\* was cancelled, the leader survived SIGKILL for the whole drain time, or it
\* waits behind an allowlist.  No failed spawn, result, timeout or drain leaves
\* the leader behind.  (The processes it put in the background are another
\* matter: they may outlive every one of these.  See CommandWatch.)
ChildrenAccounted ==
    \A t \in Task : child[t] \in {"alive", "stuck"} =>
        \/ held[t] = SlotWeight(t)
        \/ outcome[t] \in {"stalled", "cancelled"}
        \/ mode = "allowlist" /\ outcome[t] = "failed"

\* runner.py:4, "A global asyncio.Semaphore enforcing max concurrent
\* commands": the commands that are alive, those stuck in D-state set aside,
\* never weigh more than the cap.
MaxConcurrentCommands ==
    LET alive == [t \in Task |->
                    IF child[t] = "alive" THEN SlotWeight(t) ELSE 0]
    IN  Cardinality(Permits(alive)) <= MaxConcurrent

\* The calls that wait hold all the permits: none of them can get its last one.
Standstill ==
    LET waiting == [t \in Task |-> IF pc[t] = "wait" THEN held[t] ELSE 0]
    IN  Cardinality(Permits(waiting)) = MaxConcurrent

\* coordination.py:175, "Blocks indefinitely -- slots are released when commands
\* finish or when a holding process dies [...], so callers eventually make
\* progress": again and again no call is under way; since each is made once, all
\* that are made end, their commands with them or not.  Neither a command that
\* never finishes nor one that cannot be killed holds a slot for ever, and no
\* permit in flight is forgotten.  Except where calls of more than one permit,
\* which take them one by one, come to hold all of them while they wait for
\* more: two that were woken together are enough for that.
EveryCallEnds ==
    []<>((\A t \in Task : pc[t] \in {"idle", "done"}) \/ Standstill)
=============================================================================
