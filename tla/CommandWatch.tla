--------------------------- MODULE CommandWatch ---------------------------
(***************************************************************************)
(* One command between its spawn and the reply of Runner.execute: the      *)
(* process tree and the kernel below it, the coroutine that waits in       *)
(* communicate, and the task _monitor_rss beside it.  What the reply gives *)
(* as the reason of a kill is put together from what those two, the cgroup *)
(* and the exit status tell, each at its own time.                         *)
(*                                                                         *)
(* Processes run beside the event loop: they act between any two actions   *)
(* of the code.  The two coroutines exclude each other between awaits.     *)
(***************************************************************************)
EXTENDS Naturals, FiniteSets

CONSTANTS
    Leader,     \* the process asyncio spawned: the shell, or bwrap around it
    Kids,       \* the processes the command may fork
    Hosts,      \* the configurations of a host and a server, see Host
    MemCap,     \* large processes that fit under the memory cap together
    MaxOom,     \* bound on the kills of the kernel's OOM killer
    None

Procs == {Leader} \union Kids

\* cgroup: execute wraps the command in a scope; sandboxed: in bwrap;
\* canonical: the scope is at the path that memlimit constructs from the uid.
Host == [cgroup : BOOLEAN, sandboxed : BOOLEAN, canonical : BOOLEAN]

ASSUME ConstantsAssumption ==
    /\ Leader \notin Kids
    /\ IsFiniteSet(Kids)
    /\ Hosts \subseteq Host
    /\ MemCap \in Nat
    /\ MaxOom \in Nat

VARIABLES
    host,       \* the configuration of this run
    state,      \* kernel: of each process, see ProcState
    parent,     \* kernel: parent of each process, Init once it is orphaned
    big,        \* kernel: the processes that use much memory
    group,      \* kernel: the processes in the group of the leader
    held,       \* kernel: the processes with the pipes of the command open
    scope,      \* kernel, systemd: the cgroup directory, absent, live or gone
    oomKills,   \* kernel: the counter oom_kill of the scope
    cause,      \* history: why the leader ended
    counted,    \* history: OOM kills that could be read after communicate
    refused,    \* history: cgroup_kill failed on a live scope
    returncode, \* asyncio: what it reaped the leader with
    phase,      \* coroutine of execute: where it is
    dir,        \* execute: scope_dir is set
    timedOut,   \* execute: timed_out
    stalled,    \* execute: drain_stalled
    reply,      \* execute: killed_reason of the result
    mon,        \* coroutine of _monitor_rss: where it is
    monDir,     \* _monitor_rss: resolved_dir is set
    listed,     \* _monitor_rss: procs, between children() and memory_info()
    flag        \* kill_flag

tree == <<state, parent, big, group, held, scope, oomKills, cause>>
exec == <<phase, dir, timedOut, stalled, reply, counted, refused>>
monitor == <<mon, monDir, listed>>
vars == <<host, tree, returncode, exec, monitor, flag>>

\* A wedged process waits for I/O in the kernel (D-state); a doomed one has
\* SIGKILL pending meanwhile.
ProcState == {"none", "running", "wedged", "doomed", "dead"}
Orphan == "init"
Signal == {"KILL", "TERM", "XCPU"}
Reason == {"oom", "rss_exceeded", "cpu_exceeded", "timeout"}
Cause == {"exit", "self", "cpu", "oom", "oomd", "watch"}
Count == 0..MaxOom

ASSUME NoneAssumption ==
    /\ None \notin Count /\ None \notin Reason /\ None \notin Cause
    /\ None \notin Signal \union {"exit"}

TypeOK ==
    /\ host \in Hosts
    /\ state \in [Procs -> ProcState]
    /\ parent \in [Procs -> Procs \union {Orphan}]
    /\ big \subseteq Procs /\ group \subseteq Procs /\ held \subseteq Procs
    /\ scope \in {"absent", "live", "gone"}
    /\ oomKills \in Count
    /\ cause \in Cause \union {None}
    /\ counted \in Count /\ refused \in BOOLEAN
    /\ returncode \in {None, "exit"} \union Signal
    /\ phase \in {"resolving", "communicating", "draining", "joining",
                  "replied"}
    /\ dir \in BOOLEAN /\ timedOut \in BOOLEAN /\ stalled \in BOOLEAN
    /\ IF phase = "replied" THEN reply \in Reason \union {"none"}
                            ELSE reply = None
    /\ mon \in {"none", "new", "polling", "reading", "ended"}
    /\ monDir \in BOOLEAN
    /\ listed \subseteq Procs
    /\ flag \in [reason : Reason \union {None}, done : BOOLEAN,
                 baseline : Count \union {None}, seen : Count \union {None},
                 dir : BOOLEAN]

Init ==
    /\ host \in Hosts
    /\ state = [p \in Procs |-> IF p = Leader THEN "running" ELSE "none"]
    /\ parent = [p \in Procs |-> Orphan]
    /\ big = {} /\ group = {Leader} /\ held = {Leader}
    /\ scope = "absent" /\ oomKills = 0 /\ cause = None /\ returncode = None
    /\ counted = 0 /\ refused = FALSE
    /\ phase = "resolving" /\ dir = FALSE
    /\ timedOut = FALSE /\ stalled = FALSE /\ reply = None
    /\ mon = "none" /\ monDir = FALSE /\ listed = {}
    /\ flag = [reason |-> None, done |-> FALSE, baseline |-> None,
               seen |-> None, dir |-> FALSE]
-----------------------------------------------------------------------------
(***************************************************************************)
(* The process tree and the kernel (external).                             *)
(***************************************************************************)
Alive(p) == state[p] \in {"running", "wedged", "doomed"}
Living == {p \in Procs : Alive(p)}

\* systemd-run joins the scope before it becomes the command.
Started == host.cgroup => scope # "absent"
Runs(p) == state[p] = "running" /\ Started

Descendants ==
    LET under1 == {p \in Living : parent[p] = Leader}
    IN  under1 \union {p \in Living : parent[p] \in under1}

\* SIGKILL to the set dying.  In the sandbox all processes are below the init
\* of a pid namespace that dies with bwrap, so none survives the leader.
Killed(dying) ==
    IF host.sandboxed /\ Leader \in dying THEN Procs ELSE dying

\* Those who get SIGKILL end at once, or when they leave the kernel.
AfterKill(dying) ==
    [p \in Procs |->
        IF p \in Killed(dying) /\ state[p] = "running" THEN "dead"
        ELSE IF p \in Killed(dying) /\ state[p] = "wedged" THEN "doomed"
        ELSE state[p]]

\* Orphans go to init, or to the init of the namespace, below bwrap.
AfterDeath(s) ==
    [p \in Procs |->
        IF parent[p] # Orphan /\ s[parent[p]] = "dead"
        THEN IF host.sandboxed THEN Leader ELSE Orphan
        ELSE parent[p]]

Die(dying, why) ==
    /\ state' = AfterKill(dying)
    /\ parent' = AfterDeath(state')
    /\ big' = big \ {p \in Procs : state'[p] = "dead"}
    /\ cause' = IF cause = None /\ state'[Leader] \in {"doomed", "dead"}
                THEN why ELSE cause

SystemdStarts ==
    /\ host.cgroup /\ scope = "absent" /\ state[Leader] = "running"
    /\ scope' = "live"
    /\ UNCHANGED <<host, state, parent, big, group, held, oomKills, cause,
                   returncode, exec, monitor, flag>>

\* A child has the group and the pipes of its parent, unless it is started
\* with setsid, or with its output sent elsewhere.  Which of the names that
\* are left it gets does not matter.
Fork(p) ==
    LET unborn == {q \in Kids : state[q] = "none"}
        q == CHOOSE q \in unborn : TRUE
    IN  /\ Runs(p) /\ parent[p] \in {Orphan, Leader} /\ unborn # {}
        /\ state' = [state EXCEPT ![q] = "running"]
        /\ parent' = [parent EXCEPT ![q] = p]
        /\ \/ p \in group /\ group' = group \union {q}
           \/ UNCHANGED group
        /\ \/ p \in held /\ held' = held \union {q}
           \/ UNCHANGED held
        /\ UNCHANGED <<host, big, scope, oomKills, cause, returncode, exec,
                       monitor, flag>>

Wedge(p) ==
    /\ Runs(p) /\ \A q \in Procs : state[q] \notin {"wedged", "doomed"}
    /\ state' = [state EXCEPT ![p] = "wedged"]
    /\ UNCHANGED <<host, parent, big, group, held, scope, oomKills, cause,
                   returncode, exec, monitor, flag>>

Unwedge(p) ==
    /\ state[p] \in {"wedged", "doomed"}
    /\ state' = [state EXCEPT ![p] = IF @ = "doomed" THEN "dead"
                                     ELSE "running"]
    /\ parent' = AfterDeath(state')
    /\ big' = big \ {q \in Procs : state'[q] = "dead"}
    /\ UNCHANGED <<host, group, held, scope, oomKills, cause, returncode,
                   exec, monitor, flag>>

\* A process ends, by exit or by a signal that is none of Hares' making.
Ends(p) ==
    /\ state[p] = "running"
    /\ \E why \in {"exit", "self", "cpu"} :
          /\ why = "exit" \/ (p = Leader /\ Started)
          /\ Die({p}, why)
    /\ UNCHANGED <<host, group, held, scope, oomKills, returncode, exec,
                   monitor, flag>>

\* RLIMIT_AS bounds each process; under memory.max, what does not fit makes
\* the kernel kill one of the large processes of the scope.
Grow(p) ==
    LET large == big \union {p}
    IN  /\ Runs(p) /\ p \notin big
        /\ IF host.cgroup /\ Cardinality(large) > MemCap
           THEN /\ oomKills < MaxOom
                /\ oomKills' = oomKills + 1
                /\ \E v \in large :
                      /\ state[v] = "running"
                      /\ state' = AfterKill({v})
                      /\ parent' = AfterDeath(state')
                      /\ big' = {q \in large : state'[q] # "dead"}
                      /\ cause' = IF v = Leader THEN "oom" ELSE cause
           ELSE big' = large /\ UNCHANGED <<state, parent, cause, oomKills>>
    /\ UNCHANGED <<host, group, held, scope, returncode, exec, monitor, flag>>

\* systemd stops the scope: after an OOM kill, or systemd-oomd on its own.
OomdStops ==
    /\ scope = "live" /\ \E p \in Procs : state[p] = "running"
    /\ Die(Procs, "oomd")
    /\ UNCHANGED <<host, group, held, scope, oomKills, returncode, exec,
                   monitor, flag>>

SystemdRemoves ==
    /\ scope = "live" /\ Living = {}
    /\ scope' = "gone"
    /\ UNCHANGED <<host, state, parent, big, group, held, oomKills, cause,
                   returncode, exec, monitor, flag>>

\* _make_preexec sets the soft and the hard limit to the same value; at the
\* hard limit the kernel sends SIGKILL, and SIGXCPU only below it.
CpuLimits == [soft |-> 1, hard |-> 1]
CpuSignal == IF CpuLimits.soft < CpuLimits.hard THEN "XCPU" ELSE "KILL"

\* The exit statuses with which a leader can be reaped.  bwrap turns a signal
\* of the command into an exit code; a signal to all may hit bwrap first.
Statuses ==
    LET sent == CASE cause = "exit" -> {"exit"}
                  [] cause = "self" -> Signal
                  [] cause = "cpu"  -> {CpuSignal}
                  [] cause = "oomd" -> {"TERM"}
                  [] OTHER          -> {"KILL"}
    IN  IF ~host.sandboxed THEN sent
        ELSE IF cause \in {"oomd", "watch"} THEN sent \union {"exit"}
        ELSE {"exit"}

\* The child watcher of asyncio.
Reap ==
    /\ state[Leader] = "dead" /\ returncode = None /\ mon # "reading"
    /\ returncode' \in Statuses
    /\ UNCHANGED <<host, tree, exec, monitor, flag>>
-----------------------------------------------------------------------------
(***************************************************************************)
(* _monitor_rss.                                                           *)
(***************************************************************************)
\* _try_resolve_scope_dir: by the cgroup of the leader or of a descendant, or
\* at the constructed path.
Resolvable == scope = "live" /\ (host.canonical \/ Alive(Leader))

\* read_oom_kill_count, None when it cannot be read.
OomCount == IF scope = "live" THEN oomKills ELSE None
OrZero(count) == IF count = None THEN 0 ELSE count

\* One thread runs both coroutines.
OnLoop == mon # "reading"

MonitorStarts ==
    /\ host.cgroup /\ mon = "new"
    /\ mon' = "polling"
    /\ monDir' = dir
    /\ flag' = IF dir THEN [flag EXCEPT !.baseline = OrZero(OomCount)]
               ELSE flag
    /\ UNCHANGED <<host, tree, returncode, exec, listed>>

\* An iteration of the loop in cgroup mode.  The condition of the loop comes
\* after it, so that there is one more iteration when execute is done.
PollCgroup ==
    LET found    == monDir \/ Resolvable
        baseline == IF found /\ ~monDir THEN OrZero(OomCount)
                    ELSE flag.baseline
        current  == IF found THEN OomCount ELSE None
        risen    == OrZero(current) > OrZero(baseline)
    IN  /\ host.cgroup /\ mon = "polling"
        /\ monDir' = found
        /\ mon' = IF risen \/ flag.done THEN "ended" ELSE "polling"
        /\ flag' = [flag EXCEPT
                !.baseline = baseline,
                !.seen = IF current = None THEN @ ELSE current,
                !.reason = IF risen THEN "oom" ELSE @,
                !.dir = @ \/ (~risen /\ flag.done /\ found)]
        /\ UNCHANGED <<host, tree, returncode, exec, listed>>

\* Mutant of ListTree: the loop does not look whether execute is done.
ListTreeForever ==
    /\ ~host.cgroup /\ mon \in {"new", "polling"}
    /\ IF returncode # None
       THEN mon' = "ended" /\ UNCHANGED listed
       ELSE mon' = "reading" /\ listed' = {Leader} \union Descendants
    /\ UNCHANGED <<host, tree, returncode, exec, monDir, flag>>

\* parent.children(); a leader that was reaped is no such process.
ListTree ==
    /\ ~host.cgroup /\ mon \in {"new", "polling"}
    /\ IF flag.done \/ returncode # None
       THEN mon' = "ended" /\ UNCHANGED listed
       ELSE mon' = "reading" /\ listed' = {Leader} \union Descendants
    /\ UNCHANGED <<host, tree, returncode, exec, monDir, flag>>

\* memory_info() of a process that has vanished meanwhile raises, which ends
\* the monitor.  The sum above the threshold ends it too, after killpg.
Vanished ==
    /\ mon = "reading"
    /\ \E p \in listed \ {Leader} : state[p] = "dead"
    /\ mon' = "ended" /\ listed' = {}
    /\ UNCHANGED <<host, tree, returncode, exec, monDir, flag>>

\* Mutant of Rss: children are not counted.
RssOfLeader == Cardinality({Leader} \intersect big)

Rss == Cardinality(listed \intersect big)

SumRss ==
    /\ mon = "reading"
    /\ listed' = {}
    /\ IF Rss > MemCap
       THEN /\ mon' = "ended"
            /\ flag' = [flag EXCEPT !.reason = "rss_exceeded"]
            /\ Die(group, "watch")
       ELSE /\ mon' = "polling"
            /\ UNCHANGED <<flag, state, parent, big, cause>>
    /\ UNCHANGED <<host, group, held, scope, oomKills, returncode, exec,
                   monDir>>
-----------------------------------------------------------------------------
(***************************************************************************)
(* Runner.execute from the spawn on.                                       *)
(***************************************************************************)
\* _resolve_scope_dir tries for a while; what it finds in the end counts.
Watch ==
    /\ phase = "resolving"
    /\ dir' = (host.cgroup /\ Resolvable)
    /\ phase' = "communicating" /\ mon' = "new"
    /\ UNCHANGED <<host, tree, returncode, timedOut, stalled, reply, counted,
                   refused, monDir, listed, flag>>

\* communicate waits for the end of both pipes and of the leader.
PipesClosed == held \intersect Living = {}
Communicated == PipesClosed /\ returncode # None

\* The final check looks into the directory once more, and at what the
\* monitor read last.
FinalOom ==
    /\ host.cgroup /\ flag.reason = None
    /\ \/ /\ dir \/ flag.dir
          /\ OrZero(OomCount) > OrZero(flag.baseline)
       \/ OrZero(flag.seen) > OrZero(flag.baseline)

Complete ==
    /\ phase = "communicating" /\ OnLoop /\ mon # "new"
    /\ Communicated
    /\ flag' = [flag EXCEPT !.done = TRUE,
                            !.reason = IF FinalOom THEN "oom" ELSE @]
    /\ counted' = OrZero(OomCount)
    /\ phase' = "joining"
    /\ UNCHANGED <<host, tree, returncode, dir, timedOut, stalled, reply,
                   refused, monitor>>

\* cgroup_kill writes to cgroup.kill, and returns False on any error: the
\* kernel is older than that file, no permission, no descriptor left.  Neither
\* caller looks.
Killable == {written \in BOOLEAN : written => scope = "live"}

\* Mutant of Reached: only the process group.
ReachedByGroup(written) == IF returncode = None THEN group ELSE {}

\* What was written reaches all of the scope, killpg the group of a leader
\* that has not been reaped; the error otherwise is swallowed.
Reached(written) ==
    (IF written THEN Procs ELSE {})
    \union (IF returncode = None THEN group ELSE {})

Expire ==
    /\ phase = "communicating" /\ OnLoop /\ mon # "new"
    /\ \E written \in Killable :
          /\ written => dir
          /\ Die(Reached(written), "watch")
          /\ refused' = (dir /\ scope = "live" /\ ~written)
    /\ phase' = "draining"
    /\ UNCHANGED <<host, group, held, scope, oomKills, returncode, dir,
                   timedOut, stalled, reply, counted, monitor, flag>>

DrainEnds(isStalled) ==
    /\ phase = "draining" /\ OnLoop
    /\ stalled' = isStalled
    /\ timedOut' = TRUE
    /\ flag' = [flag EXCEPT !.done = TRUE]
    /\ phase' = "joining"
    /\ UNCHANGED <<host, tree, returncode, dir, reply, counted, refused,
                   monitor>>

Drained == Communicated /\ DrainEnds(FALSE)

\* Nothing that was killed takes as long to end as the drain may last, unless
\* it is wedged.
DrainStalls == ~(PipesClosed /\ state[Leader] = "dead") /\ DrainEnds(TRUE)

\* Mutants of Inferred: nothing by default, and SIGKILL only.
InferredOrNothing ==
    IF returncode = "XCPU" THEN "cpu_exceeded"
    ELSE IF host.cgroup /\ returncode \in {"KILL", "TERM"} THEN "oom"
    ELSE IF returncode = "KILL" THEN "rss_exceeded" ELSE None
InferredFromKill ==
    IF returncode = "XCPU" THEN "cpu_exceeded"
    ELSE IF returncode # "KILL" THEN "none"
    ELSE IF host.cgroup THEN "oom" ELSE "rss_exceeded"

\* The reason by the exit status, when nobody has set one.
Inferred ==
    IF returncode = "XCPU" THEN "cpu_exceeded"
    ELSE IF host.cgroup /\ returncode \in {"KILL", "TERM"} THEN "oom"
    ELSE IF returncode = "KILL" THEN "rss_exceeded"
    ELSE "none"

\* The second cgroup_kill, in the directory that only the monitor found.
KillLate ==
    \E written \in Killable :
        /\ refused' = (scope = "live" /\ ~written)
        /\ IF written THEN Die(Procs, "watch")
           ELSE UNCHANGED <<state, parent, big, cause>>

Join ==
    /\ phase = "joining" /\ mon = "ended"
    /\ phase' = "replied"
    /\ reply' = IF timedOut THEN "timeout"
                ELSE IF flag.reason # None THEN flag.reason ELSE Inferred
    /\ IF timedOut /\ ~dir /\ flag.dir THEN KillLate
       ELSE UNCHANGED <<state, parent, big, cause, refused>>
    /\ UNCHANGED <<host, group, held, scope, oomKills, returncode, dir,
                   timedOut, stalled, counted, monitor, flag>>
-----------------------------------------------------------------------------
Command ==
    \/ \E p \in Procs : \/ Wedge(p) \/ Unwedge(p) \/ Ends(p) \/ Grow(p)
                        \/ Fork(p)
    \/ SystemdStarts \/ OomdStops \/ SystemdRemoves

Monitor == MonitorStarts \/ PollCgroup \/ ListTree \/ Vanished \/ SumRss
Execute == Watch \/ Complete \/ Drained \/ DrainStalls \/ Join

\* What becomes of the processes after the reply is not followed.
Next ==
    (phase # "replied" /\ Command) \/ Reap \/ Monitor \/ Execute \/ Expire

\* The event loop serves ready coroutines in FIFO order and timers fire, but
\* the sums of the monitor disable the others again and again.  Nothing is
\* assumed of the command, and not that its timeout is near.
Spec ==
    /\ Init /\ [][Next]_vars
    /\ SF_vars(Reap) /\ WF_vars(Monitor) /\ SF_vars(Execute)
-----------------------------------------------------------------------------
Replied == phase = "replied"

\* A command whose leader was killed for memory, by the kernel, by systemd or
\* by the monitor, does not look like one that failed by itself.  bwrap hides
\* the signal; then the counter must tell, and it does where it could be read
\* after communicate, unless the kill came before the first reading.
\* (killed_reason in execute, with its three sources)
MemoryKillReported ==
    Replied /\ ~timedOut =>
        /\ cause = "watch" => reply = "rss_exceeded"
        /\ cause \in {"oom", "oomd"} /\ ~host.sandboxed => reply = "oom"
        /\ counted > OrZero(flag.baseline) /\ dir => reply = "oom"

\* What no kill of a timeout reaches: without a sandbox, and without a scope
\* that is known and could be killed, the processes in other groups, or all
\* when the leader has been reaped.
Beyond(p) ==
    /\ ~host.sandboxed
    /\ dir \/ flag.dir => refused
    /\ p \notin group \/ cause # "watch"

\* "Wall-clock exceeded - kill the whole tree": when a timeout is reported,
\* all processes of the command are dead or have SIGKILL pending, save those
\* that neither sandbox, scope nor group gave execute a hold of.
TimeoutKillsTree ==
    Replied /\ timedOut =>
        \A p \in Procs : state[p] \in {"running", "wedged"} => Beyond(p)

\* Once the command is over or its time is up, execute answers, whatever is
\* left of the processes: the drain and the monitor end.
CallAnswers == (phase = "draining" \/ Communicated) ~> Replied

\* Those the monitor sees and killpg reaches use too much, without a cgroup.
OverCap ==
    LET using == {p \in {Leader} \union Descendants :
                     /\ state[p] \in {"running", "wedged"}
                     /\ p \in group \/ host.sandboxed}
    IN  ~host.cgroup /\ ~Replied /\ Cardinality(using \intersect big) > MemCap

\* Without a cgroup, a tree over the memory cap does not stay so, unless the
\* monitor has given up because a process vanished under its hands.
RssOverrunEnds ==
    OverCap ~> (~OverCap \/ (mon = "ended" /\ flag.reason = None))
=============================================================================
