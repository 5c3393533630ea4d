------------------------- MODULE CommandWatchProofs -------------------------
(***************************************************************************)
(* Proofs about CommandWatch, for any number of processes, any memory cap  *)
(* and any number of OOM kills, on every configuration of a host.          *)
(***************************************************************************)
EXTENDS CommandWatch, TLAPS

-----------------------------------------------------------------------------
\* The inductive invariant.

\* Neither dead nor with SIGKILL pending.
Active(p) == state[p] \in {"running", "wedged"}
Quiet == \A p \in Procs : ~Active(p)
GroupQuiet == \A p \in group : ~Active(p)

\* The leader never leaves its group; a sandbox ends with it, a group that
\* was killed does not grow again, and a removed scope is empty.
Tree ==
    /\ Leader \in group
    /\ \A p \in group : state[p] # "none"
    /\ cause = None <=> Active(Leader)
    /\ host.sandboxed /\ ~Active(Leader) => Quiet
    /\ cause = "watch" => GroupQuiet
    /\ scope = "gone" => Living = {}
    /\ scope # "absent" => host.cgroup
    /\ cause \in {"oom", "oomd"} => host.cgroup

\* The status of the leader tells of a kill that bwrap does not hide.
Status ==
    returncode # None =>
        /\ state[Leader] = "dead"
        /\ ~host.sandboxed =>
              /\ cause = "oom" => returncode = "KILL"
              /\ cause = "oomd" => returncode = "TERM"

\* The scope directory that a coroutine has found exists or did; each way to
\* a reason belongs to one of the modes; the monitor starts before execute
\* passes communicate, with the directory that execute has found.
Known ==
    /\ dir \/ monDir \/ flag.dir => scope # "absent"
    /\ mon = "reading" \/ flag.reason = "rss_exceeded" => ~host.cgroup
    /\ flag.reason = "oom" => host.cgroup
    /\ flag.reason \in {None, "oom", "rss_exceeded"}
    /\ phase = "resolving" <=> mon = "none"
    /\ phase \notin {"resolving", "communicating"} => mon # "new"
    /\ dir /\ mon \in {"polling", "ended"} => monDir

\* What follows a timeout, ...
Expired ==
    /\ phase \in {"resolving", "communicating", "draining"} => ~timedOut
    /\ (phase = "draining" \/ timedOut)
          /\ ((dir /\ ~refused) \/ host.sandboxed) => Quiet
    /\ Replied => mon = "ended"
    /\ Replied /\ timedOut /\ flag.dir /\ ~refused => Quiet

\* ... and what leads to the reason of a command that did not reach it.
Reported ==
    ~timedOut =>
        /\ cause = "watch" /\ phase # "draining" =>
              flag.reason = "rss_exceeded"
        /\ phase \in {"joining", "replied"} =>
              /\ returncode # None
              /\ dir /\ counted > OrZero(flag.baseline) => flag.reason = "oom"
        /\ Replied => reply = IF flag.reason # None THEN flag.reason
                              ELSE Inferred

IInv ==
    /\ TypeOK
    /\ Tree
    /\ Status
    /\ Known
    /\ Expired
    /\ Reported

-----------------------------------------------------------------------------
\* The process tree.

\* SIGKILL takes the processes it is sent to out of the active ones, all of
\* them when a sandbox loses its leader, and no other process changes.
LEMMA KillEffects ==
  ASSUME TypeOK, NEW STATE dying, dying \in SUBSET Procs,
         state' = AfterKill(dying)
  PROVE  /\ state' \in [Procs -> ProcState]
         /\ \A p \in Procs :
               /\ Active(p)' => Active(p)
               /\ ~Active(p) => state'[p] = state[p]
               /\ p \in dying => ~Active(p)'
               /\ Active(p) /\ ~Active(p)' => state'[p] \in {"doomed", "dead"}
               /\ Alive(p)' => Alive(p)
         /\ host.sandboxed /\ Leader \in dying => Quiet'
         /\ Leader \notin dying => state'[Leader] = state[Leader]
<1>1. state \in [Procs -> ProcState] /\ Leader \in Procs
  BY DEF TypeOK, Procs
<1>2. Killed(dying) \subseteq Procs /\ dying \subseteq Killed(dying)
  BY DEF Killed
<1>3. \A p \in Procs :
         state'[p] = IF p \in Killed(dying) /\ state[p] = "running" THEN "dead"
                     ELSE IF p \in Killed(dying) /\ state[p] = "wedged"
                          THEN "doomed" ELSE state[p]
  BY DEF AfterKill
<1>4. state' \in [Procs -> ProcState]
  BY <1>1 DEF AfterKill, ProcState
<1>5. \A p \in Procs :
         /\ Active(p)' => Active(p)
         /\ ~Active(p) => state'[p] = state[p]
         /\ p \in Killed(dying) => ~Active(p)'
         /\ Active(p) /\ ~Active(p)' => state'[p] \in {"doomed", "dead"}
         /\ Alive(p)' => Alive(p)
         /\ p \notin Killed(dying) => state'[p] = state[p]
  BY <1>1, <1>3 DEF Active, Alive, ProcState
<1>6. /\ host.sandboxed /\ Leader \in dying => Killed(dying) = Procs
      /\ Leader \notin dying => Killed(dying) = dying
  BY DEF Killed
<1> QED BY <1>1, <1>2, <1>4, <1>5, <1>6 DEF Quiet

\* Orphans have a parent that TypeOK allows.
LEMMA AfterDeathType ==
  ASSUME TypeOK, NEW s
  PROVE  AfterDeath(s) \in [Procs -> Procs \union {Orphan}]
<1>1. parent \in [Procs -> Procs \union {Orphan}] /\ Leader \in Procs
  BY DEF TypeOK, Procs
<1>2. \A p \in Procs : (IF parent[p] # Orphan /\ s[parent[p]] = "dead"
                        THEN IF host.sandboxed THEN Leader ELSE Orphan
                        ELSE parent[p]) \in Procs \union {Orphan}
  BY <1>1
<1> QED BY <1>2 DEF AfterDeath

LEMMA DieType ==
  ASSUME TypeOK, NEW STATE dying, dying \in SUBSET Procs, NEW why \in Cause,
         Die(dying, why)
  PROVE  /\ state' \in [Procs -> ProcState]
         /\ parent' \in [Procs -> Procs \union {Orphan}]
         /\ big' \subseteq Procs /\ cause' \in Cause \union {None}
<1>1. state' = AfterKill(dying) /\ parent' = AfterDeath(state')
  BY DEF Die
<1>2. /\ state' \in [Procs -> ProcState]
      /\ parent' \in [Procs -> Procs \union {Orphan}]
  BY <1>1, KillEffects, AfterDeathType
<1>3. big' \subseteq Procs /\ cause' \in Cause \union {None}
  BY DEF Die, TypeOK
<1> QED BY <1>2, <1>3

\* The names that a fork takes.
LEMMA ForkEffects ==
  ASSUME TypeOK, NEW p \in Procs, Fork(p)
  PROVE  \E q \in Kids :
            /\ state[p] = "running" /\ state[q] = "none"
            /\ state' = [state EXCEPT ![q] = "running"]
            /\ parent' = [parent EXCEPT ![q] = p]
            /\ group' = group \/ (p \in group /\ group' = group \union {q})
            /\ held' = held \/ held' = held \union {q}
            /\ UNCHANGED <<host, big, scope, oomKills, cause, returncode, exec,
                           monitor, flag>>
<1> DEFINE unborn == {q \in Kids : state[q] = "none"}
           q == CHOOSE q \in unborn : TRUE
<1>1. /\ unborn # {} /\ Runs(p)
      /\ state' = [state EXCEPT ![q] = "running"]
      /\ parent' = [parent EXCEPT ![q] = p]
      /\ group' = group \/ (p \in group /\ group' = group \union {q})
      /\ held' = held \/ held' = held \union {q}
      /\ UNCHANGED <<host, big, scope, oomKills, cause, returncode, exec,
                     monitor, flag>>
  BY DEF Fork
<1>2. unborn # {} /\ Runs(p)
  BY DEF Fork
<1>3. q \in Kids /\ state[q] = "none"
  <2>1. \E r : r \in unborn
    BY <1>2
  <2>2. q \in unborn
    BY <2>1, Zenon
  <2> QED BY <2>2
<1>4. state[p] = "running"
  BY <1>2 DEF Runs
<1> HIDE DEF q, unborn
<1> QED BY <1>1, <1>3, <1>4

-----------------------------------------------------------------------------
\* Types.

LEMMA TypeInit == Init => TypeOK
<1> SUFFICES ASSUME Init PROVE TypeOK
  OBVIOUS
<1>1. 0 \in Count
  BY ConstantsAssumption DEF Count
<1> QED BY <1>1 DEF Init, TypeOK, Procs, ProcState

LEMMA Readings ==
  ASSUME TypeOK
  PROVE  /\ OomCount \in Count \union {None} /\ OrZero(OomCount) \in Count
         /\ OrZero(flag.baseline) \in Count /\ OrZero(flag.seen) \in Count
         /\ 0 \in Count /\ Count \subseteq Nat
<1>1. 0 \in Count /\ Count \subseteq Nat
  BY ConstantsAssumption DEF Count
<1> QED BY <1>1 DEF TypeOK, OomCount, OrZero

\* Each step of the processes and of the kernel, ...
LEMMA CommandType ==
  ASSUME TypeOK, Command
  PROVE  TypeOK'
<1> USE DEF exec, monitor
<1>1. ASSUME NEW p \in Procs, Wedge(p) PROVE TypeOK'
  BY <1>1 DEF Wedge, TypeOK, ProcState
<1>2. ASSUME NEW p \in Procs, Unwedge(p) PROVE TypeOK'
  <2>1. parent' \in [Procs -> Procs \union {Orphan}]
    BY <1>2, AfterDeathType DEF Unwedge
  <2>2. state' \in [Procs -> ProcState]
    BY <1>2 DEF Unwedge, TypeOK, ProcState
  <2>3. big' \subseteq Procs
    BY <1>2 DEF Unwedge, TypeOK
  <2>4. UNCHANGED <<host, group, held, scope, oomKills, cause, returncode,
                    phase, dir, timedOut, stalled, reply, counted, refused,
                    mon, monDir, listed, flag>>
    BY <1>2 DEF Unwedge
  <2> QED BY <2>1, <2>2, <2>3, <2>4 DEF TypeOK
<1>3. ASSUME NEW p \in Procs, Ends(p) PROVE TypeOK'
  <2>1. PICK why \in {"exit", "self", "cpu"} : Die({p}, why)
    BY <1>3 DEF Ends
  <2>2. /\ state' \in [Procs -> ProcState]
        /\ parent' \in [Procs -> Procs \union {Orphan}]
        /\ big' \subseteq Procs /\ cause' \in Cause \union {None}
    BY <2>1, DieType DEF Cause
  <2> QED BY <1>3, <2>2 DEF Ends, TypeOK
<1>4. ASSUME NEW p \in Procs, Grow(p) PROVE TypeOK'
  <2>1. CASE host.cgroup /\ Cardinality(big \union {p}) > MemCap
    <3>1. PICK v \in big \union {p} :
             /\ state' = AfterKill({v}) /\ parent' = AfterDeath(state')
             /\ big' = {q \in big \union {p} : state'[q] # "dead"}
             /\ cause' = IF v = Leader THEN "oom" ELSE cause
      BY <1>4, <2>1 DEF Grow
    <3>2. {v} \in SUBSET Procs
      BY <3>1 DEF TypeOK
    <3>3. /\ state' \in [Procs -> ProcState]
          /\ parent' \in [Procs -> Procs \union {Orphan}]
      BY <3>1, <3>2, KillEffects, AfterDeathType
    <3>4. oomKills' \in Count
      BY <1>4, <2>1, ConstantsAssumption DEF Grow, TypeOK, Count
    <3>5. big' \subseteq Procs /\ cause' \in Cause \union {None}
      BY <3>1 DEF TypeOK, Cause
    <3> QED BY <1>4, <3>3, <3>4, <3>5 DEF Grow, TypeOK
  <2>2. CASE ~(host.cgroup /\ Cardinality(big \union {p}) > MemCap)
    BY <1>4, <2>2 DEF Grow, TypeOK
  <2> QED BY <2>1, <2>2
<1>5. ASSUME NEW p \in Procs, Fork(p) PROVE TypeOK'
  <2>1. PICK q \in Kids :
            /\ state' = [state EXCEPT ![q] = "running"]
            /\ parent' = [parent EXCEPT ![q] = p]
            /\ group' = group \/ (p \in group /\ group' = group \union {q})
            /\ held' = held \/ held' = held \union {q}
            /\ UNCHANGED <<host, big, scope, oomKills, cause, returncode, exec,
                           monitor, flag>>
    BY <1>5, ForkEffects
  <2>2. /\ state' \in [Procs -> ProcState]
        /\ parent' \in [Procs -> Procs \union {Orphan}]
        /\ group' \subseteq Procs /\ held' \subseteq Procs
    BY <2>1 DEF TypeOK, ProcState, Procs
  <2> QED BY <2>1, <2>2 DEF TypeOK
<1>6. CASE SystemdStarts \/ SystemdRemoves
  BY <1>6 DEF SystemdStarts, SystemdRemoves, TypeOK
<1>7. CASE OomdStops
  <2>1. /\ state' \in [Procs -> ProcState]
        /\ parent' \in [Procs -> Procs \union {Orphan}]
        /\ big' \subseteq Procs /\ cause' \in Cause \union {None}
    BY <1>7, DieType DEF OomdStops, Cause
  <2> QED BY <1>7, <2>1 DEF OomdStops, TypeOK
<1> QED BY <1>1, <1>2, <1>3, <1>4, <1>5, <1>6, <1>7 DEF Command

\* ... of the monitor ...
LEMMA MonitorType ==
  ASSUME TypeOK, Monitor
  PROVE  TypeOK'
<1> USE DEF exec, tree
<1>1. CASE MonitorStarts
  BY <1>1, Readings DEF MonitorStarts, TypeOK
<1>2. CASE PollCgroup
  <2>1. flag' \in [reason : Reason \union {None}, done : BOOLEAN,
                   baseline : Count \union {None},
                   seen : Count \union {None}, dir : BOOLEAN]
    BY <1>2, Readings DEF PollCgroup, TypeOK, Reason, Resolvable
  <2>2. monDir' \in BOOLEAN /\ mon' \in {"ended", "polling"}
    BY <1>2 DEF PollCgroup, TypeOK, Resolvable
  <2> QED BY <1>2, <2>1, <2>2 DEF PollCgroup, TypeOK
<1>3. CASE ListTree
  BY <1>3 DEF ListTree, TypeOK, Descendants, Living, Procs
<1>4. CASE Vanished
  BY <1>4 DEF Vanished, TypeOK
<1>5. CASE SumRss
  <2>1. /\ state' \in [Procs -> ProcState]
        /\ parent' \in [Procs -> Procs \union {Orphan}]
        /\ big' \subseteq Procs /\ cause' \in Cause \union {None}
    <3>1. CASE Rss > MemCap
      <4>1. Die(group, "watch") /\ group \in SUBSET Procs /\ "watch" \in Cause
        BY <1>5, <3>1 DEF SumRss, TypeOK, Cause
      <4> QED BY <4>1, DieType
    <3>2. CASE ~(Rss > MemCap)
      BY <1>5, <3>2 DEF SumRss, TypeOK
    <3> QED BY <3>1, <3>2
  <2>2. /\ flag' \in [reason : Reason \union {None}, done : BOOLEAN,
                      baseline : Count \union {None},
                      seen : Count \union {None}, dir : BOOLEAN]
        /\ mon' \in {"ended", "polling"} /\ listed' = {}
    BY <1>5 DEF SumRss, TypeOK, Reason
  <2> QED BY <1>5, <2>1, <2>2 DEF SumRss, TypeOK
<1> QED BY <1>1, <1>2, <1>3, <1>4, <1>5 DEF Monitor

\* ... and of execute.
LEMMA ExecuteType ==
  ASSUME TypeOK, Execute \/ Expire \/ Reap
  PROVE  TypeOK'
<1> USE DEF monitor, tree, exec
<1>1. CASE Watch
  BY <1>1 DEF Watch, TypeOK, Resolvable, Alive, Host
<1>2. CASE Complete
  <2>1. flag' \in [reason : Reason \union {None}, done : BOOLEAN,
                   baseline : Count \union {None},
                   seen : Count \union {None}, dir : BOOLEAN]
    BY <1>2 DEF Complete, TypeOK, Reason
  <2>2. counted' \in Count /\ phase = "communicating" /\ phase' = "joining"
    BY <1>2, Readings DEF Complete
  <2> QED BY <1>2, <2>1, <2>2 DEF Complete, TypeOK
<1>3. CASE Drained \/ DrainStalls
  <2>1. PICK isStalled \in BOOLEAN : DrainEnds(isStalled)
    BY <1>3 DEF Drained, DrainStalls
  <2>2. flag' \in [reason : Reason \union {None}, done : BOOLEAN,
                   baseline : Count \union {None},
                   seen : Count \union {None}, dir : BOOLEAN]
    BY <2>1 DEF DrainEnds, TypeOK
  <2>3. phase = "draining" /\ phase' = "joining" /\ UNCHANGED reply
    BY <2>1 DEF DrainEnds
  <2> QED BY <2>1, <2>2, <2>3 DEF DrainEnds, TypeOK
<1>4. CASE Join
  <2>1. /\ state' \in [Procs -> ProcState]
        /\ parent' \in [Procs -> Procs \union {Orphan}]
        /\ big' \subseteq Procs /\ cause' \in Cause \union {None}
        /\ refused' \in BOOLEAN
    <3>1. CASE KillLate
      <4>1. refused' \in BOOLEAN /\ "watch" \in Cause
        BY <3>1 DEF KillLate, Cause
      <4>2. CASE Die(Procs, "watch")
        BY <4>1, <4>2, DieType
      <4>3. CASE UNCHANGED <<state, parent, big, cause>>
        BY <4>1, <4>3 DEF TypeOK
      <4> QED BY <3>1, <4>2, <4>3 DEF KillLate
    <3>2. CASE UNCHANGED <<state, parent, big, cause, refused>>
      BY <3>2 DEF TypeOK
    <3> QED BY <1>4, <3>1, <3>2 DEF Join
  <2>2. reply' \in Reason \union {"none"} /\ phase' = "replied"
    BY <1>4 DEF Join, TypeOK, Reason, Inferred
  <2> QED BY <1>4, <2>1, <2>2 DEF Join, TypeOK
<1>5. CASE Expire
  <2>1. PICK written \in BOOLEAN :
           /\ Die(Reached(written), "watch")
           /\ refused' = (dir /\ scope = "live" /\ ~written)
    BY <1>5 DEF Expire, Killable
  <2>2. Reached(written) \in SUBSET Procs
    BY DEF Reached, TypeOK
  <2>3. /\ state' \in [Procs -> ProcState]
        /\ parent' \in [Procs -> Procs \union {Orphan}]
        /\ big' \subseteq Procs /\ cause' \in Cause \union {None}
    BY <2>1, <2>2, DieType DEF Cause
  <2>4. refused' \in BOOLEAN
    BY <2>1
  <2> QED BY <1>5, <2>3, <2>4 DEF Expire, TypeOK
<1>6. CASE Reap
  <2>1. Statuses \subseteq Signal \union {"exit"}
    BY DEF Statuses, Signal, CpuSignal
  <2> QED BY <1>6, <2>1 DEF Reap, TypeOK
<1> QED BY <1>1, <1>2, <1>3, <1>4, <1>5, <1>6 DEF Execute

LEMMA TypeStep == TypeOK /\ [Next]_vars => TypeOK'
<1>1. TypeOK /\ UNCHANGED vars => TypeOK'
  BY DEF vars, tree, exec, monitor, TypeOK
<1> QED BY <1>1, CommandType, MonitorType, ExecuteType DEF Next

-----------------------------------------------------------------------------
\* The process tree, step by step.

\* Who is active, and why the leader ended, when SIGKILL goes to a set.
LEMMA KillKeeps ==
  ASSUME TypeOK, Tree, NEW STATE dying, dying \in SUBSET Procs,
         state' = AfterKill(dying), UNCHANGED <<host, group, scope>>,
         NEW why, why \in Cause,
         cause' = IF cause = None /\ state'[Leader] \in {"doomed", "dead"}
                  THEN why ELSE cause,
         why = "watch" /\ Active(Leader) => group \subseteq dying,
         why \in {"oom", "oomd"} => host.cgroup
  PROVE  Tree'
<1>1. /\ state' \in [Procs -> ProcState]
      /\ \A p \in Procs :
            /\ Active(p)' => Active(p)
            /\ ~Active(p) => state'[p] = state[p]
            /\ p \in dying => ~Active(p)'
            /\ Active(p) /\ ~Active(p)' => state'[p] \in {"doomed", "dead"}
            /\ Alive(p)' => Alive(p)
      /\ host.sandboxed /\ Leader \in dying => Quiet'
      /\ Leader \notin dying => state'[Leader] = state[Leader]
  BY KillEffects
<1>2. Leader \in Procs /\ group \subseteq Procs /\ None \notin Cause
  BY NoneAssumption DEF TypeOK, Procs
<1>3. Leader \in group' /\ \A p \in group' : state'[p] # "none"
  BY <1>1, <1>2 DEF Tree, Active
<1>4. (cause = None <=> Active(Leader))'
  <2>1. CASE ~Active(Leader)
    <3>1. cause # None /\ cause' = cause /\ ~Active(Leader)'
      BY <1>1, <1>2, <2>1 DEF Tree
    <3> QED BY <3>1
  <2>2. CASE Active(Leader) /\ Active(Leader)'
    <3>1. cause = None /\ cause' = cause
      BY <2>2 DEF Tree, Active
    <3> QED BY <2>2, <3>1
  <2>3. CASE Active(Leader) /\ ~Active(Leader)'
    <3>1. cause' = why
      BY <1>1, <1>2, <2>3 DEF Tree
    <3> QED BY <1>2, <2>3, <3>1
  <2> QED BY <2>1, <2>2, <2>3
<1>5. (host.sandboxed /\ ~Active(Leader) => Quiet)'
  <2> SUFFICES ASSUME host.sandboxed, ~Active(Leader)' PROVE Quiet'
    OBVIOUS
  <2>1. CASE Active(Leader)
    <3>1. Leader \in dying
      BY <1>1, <2>1 DEF Active
    <3> QED BY <1>1, <3>1
  <2>2. CASE ~Active(Leader)
    BY <1>1, <2>2 DEF Tree, Quiet
  <2> QED BY <2>1, <2>2
<1>6. (cause = "watch" => GroupQuiet)'
  <2> SUFFICES ASSUME cause' = "watch" PROVE GroupQuiet'
    OBVIOUS
  <2>1. CASE cause = "watch"
    BY <1>1, <1>2, <2>1 DEF Tree, GroupQuiet
  <2>2. CASE cause # "watch"
    <3>1. cause = None /\ why = "watch"
      BY <2>2
    <3>2. group \subseteq dying
      BY <3>1 DEF Tree
    <3> QED BY <1>1, <1>2, <3>2 DEF GroupQuiet
  <2> QED BY <2>1, <2>2
<1>7. (scope = "gone" => Living = {})'
  BY <1>1 DEF Tree, Living
<1>8. (scope # "absent" => host.cgroup)'
  BY DEF Tree
<1>9. (cause \in {"oom", "oomd"} => host.cgroup)'
  BY DEF Tree
<1> QED BY <1>3, <1>4, <1>5, <1>6, <1>7, <1>8, <1>9 DEF Tree

LEMMA TreeInit == Init => Tree
<1> SUFFICES ASSUME Init PROVE Tree
  OBVIOUS
<1>1. None \notin Cause /\ Leader \in Procs
  BY NoneAssumption DEF Procs
<1>2. Active(Leader) /\ group = {Leader} /\ state[Leader] # "none"
  BY <1>1 DEF Init, Active
<1>3. scope = "absent" /\ cause = None
  BY DEF Init
<1> QED BY <1>1, <1>2, <1>3 DEF Tree, Cause

LEMMA TreeStep == TypeOK /\ Tree /\ Status /\ [Next]_vars => Tree'
<1> SUFFICES ASSUME TypeOK, Tree, Status, [Next]_vars PROVE Tree'
  OBVIOUS
<1> USE DEF tree
<1>1. Leader \in Procs /\ Leader \notin Kids /\ group \subseteq Procs
  BY ConstantsAssumption DEF Procs, TypeOK
<1>2. ASSUME UNCHANGED <<host, tree>> PROVE Tree'
  BY <1>2 DEF Tree, Active, Quiet, GroupQuiet, Living, Alive
<1>3. ASSUME NEW p \in Procs, Wedge(p) PROVE Tree'
  <2>1. /\ \A r \in Procs : Active(r)' <=> Active(r)
        /\ \A r \in Procs : Alive(r)' <=> Alive(r)
        /\ \A r \in group : state'[r] # "none"
        /\ UNCHANGED <<host, group, scope, cause>>
    BY <1>1, <1>3 DEF Wedge, Runs, Active, Alive, TypeOK, Tree
  <2> QED BY <1>1, <2>1 DEF Tree, Quiet, GroupQuiet, Living
<1>4. ASSUME NEW p \in Procs, Unwedge(p) PROVE Tree'
  <2>1. /\ \A r \in Procs : Active(r)' <=> Active(r)
        /\ \A r \in Procs : Alive(r)' => Alive(r)
        /\ \A r \in group : state'[r] # "none"
        /\ UNCHANGED <<host, group, scope, cause>>
    BY <1>1, <1>4 DEF Unwedge, Active, Alive, TypeOK, Tree
  <2> QED BY <1>1, <2>1 DEF Tree, Quiet, GroupQuiet, Living
<1>5. ASSUME NEW p \in Procs, Ends(p) PROVE Tree'
  <2>1. PICK why \in {"exit", "self", "cpu"} : Die({p}, why)
    BY <1>5 DEF Ends
  <2>2. UNCHANGED <<host, group, scope>>
    BY <1>5 DEF Ends
  <2> QED BY <2>1, <2>2, KillKeeps DEF Die, Cause
<1>6. ASSUME NEW p \in Procs, Grow(p) PROVE Tree'
  <2>1. CASE host.cgroup /\ Cardinality(big \union {p}) > MemCap
    <3>1. PICK v \in big \union {p} :
             /\ state[v] = "running" /\ state' = AfterKill({v})
             /\ cause' = IF v = Leader THEN "oom" ELSE cause
      BY <1>6, <2>1 DEF Grow
    <3>2. {v} \in SUBSET Procs /\ UNCHANGED <<host, group, scope>>
      BY <1>6, <3>1 DEF TypeOK, Grow
    <3>3. cause' = IF cause = None /\ state'[Leader] \in {"doomed", "dead"}
                   THEN "oom" ELSE cause
      <4>1. CASE v = Leader
        <5>1. cause = None /\ Active(Leader)
          BY <3>1, <4>1 DEF Tree, Active
        <5>2. state'[Leader] \in {"doomed", "dead"}
          BY <1>1, <3>1, <3>2, <4>1, <5>1, KillEffects
        <5> QED BY <3>1, <4>1, <5>1, <5>2
      <4>2. CASE v # Leader
        <5>1. state'[Leader] = state[Leader] /\ cause' = cause
          BY <3>1, <3>2, <4>2, KillEffects
        <5>2. cause = None => state'[Leader] \notin {"doomed", "dead"}
          BY <5>1 DEF Tree, Active
        <5> QED BY <5>1, <5>2
      <4> QED BY <4>1, <4>2
    <3> QED BY <2>1, <3>1, <3>2, <3>3, KillKeeps DEF Cause
  <2>2. CASE ~(host.cgroup /\ Cardinality(big \union {p}) > MemCap)
    <3>1. UNCHANGED <<host, state, group, scope, cause>>
      BY <1>6, <2>2 DEF Grow
    <3> QED BY <3>1 DEF Tree, Active, Quiet, GroupQuiet, Living, Alive
  <2> QED BY <2>1, <2>2
<1>7. ASSUME NEW p \in Procs, Fork(p) PROVE Tree'
  <2>1. PICK q \in Kids :
            /\ state[p] = "running" /\ state[q] = "none"
            /\ state' = [state EXCEPT ![q] = "running"]
            /\ group' = group \/ (p \in group /\ group' = group \union {q})
            /\ UNCHANGED <<host, scope, cause>>
    BY <1>7, ForkEffects
  <2>2. /\ Active(p) /\ Alive(p) /\ q # Leader
        /\ state'[Leader] = state[Leader]
        /\ \A r \in Procs \ {q} : state'[r] = state[r]
    BY <1>1, <2>1 DEF TypeOK, Active, Alive
  <2>3. host.sandboxed => Active(Leader)
    BY <2>2 DEF Tree, Quiet
  <2>4. cause = "watch" => GroupQuiet'
    <3> SUFFICES ASSUME cause = "watch" PROVE GroupQuiet'
      OBVIOUS
    <3>1. p \notin group /\ group' = group
      BY <2>1, <2>2 DEF Tree, GroupQuiet
    <3>2. q \notin group
      BY <2>1 DEF Tree
    <3> QED BY <1>1, <2>1, <2>2, <3>1, <3>2 DEF Tree, GroupQuiet, Active
  <2>5. scope # "gone"
    BY <2>2 DEF Tree, Living
  <2>6. (cause = None <=> Active(Leader))'
    BY <2>1, <2>2 DEF Tree, Active
  <2>7. (host.sandboxed /\ ~Active(Leader) => Quiet)'
    BY <2>1, <2>2, <2>3 DEF Active
  <2>8. Leader \in group' /\ \A r \in group' : state'[r] # "none"
    BY <1>1, <2>1, <2>2 DEF Tree, TypeOK, Procs
  <2> QED BY <2>1, <2>2, <2>4, <2>5, <2>6, <2>7, <2>8 DEF Tree
<1>8. CASE SystemdStarts \/ SystemdRemoves
  BY <1>8 DEF SystemdStarts, SystemdRemoves, Tree, Active, Quiet, GroupQuiet,
              Living, Alive
<1>9. CASE OomdStops
  <2>1. Die(Procs, "oomd") /\ host.cgroup /\ UNCHANGED <<host, group, scope>>
    BY <1>9 DEF OomdStops, Tree
  <2> QED BY <2>1, KillKeeps DEF Die, Cause
<1>10. CASE SumRss
  <2>1. CASE Rss > MemCap
    <3>1. Die(group, "watch") /\ UNCHANGED <<host, group, scope>>
      BY <1>10, <2>1 DEF SumRss
    <3> QED BY <1>1, <3>1, KillKeeps DEF Die, Cause
  <2>2. CASE ~(Rss > MemCap)
    <3>1. UNCHANGED <<host, state, group, scope, cause>>
      BY <1>10, <2>2 DEF SumRss
    <3> QED BY <3>1 DEF Tree, Active, Quiet, GroupQuiet, Living, Alive
  <2> QED BY <2>1, <2>2
<1>11. CASE Expire
  <2>1. PICK written \in BOOLEAN :
           Die(Reached(written), "watch") /\ UNCHANGED <<host, group, scope>>
    BY <1>11 DEF Expire, Killable
  <2>2. Reached(written) \in SUBSET Procs
    BY <1>1 DEF Reached
  <2>3. Active(Leader) => group \subseteq Reached(written)
    BY DEF Status, Active, Reached
  <2> QED BY <2>1, <2>2, <2>3, KillKeeps DEF Die, Cause
<1>12. CASE Join
  <2>1. /\ UNCHANGED <<host, group, scope>>
        /\ Die(Procs, "watch") \/ UNCHANGED <<state, cause>>
    BY <1>12 DEF Join, KillLate
  <2>2. CASE Die(Procs, "watch")
    BY <1>1, <2>1, <2>2, KillKeeps DEF Die, Cause
  <2>3. CASE UNCHANGED <<state, cause>>
    BY <2>1, <2>3 DEF Tree, Active, Quiet, GroupQuiet, Living, Alive
  <2> QED BY <2>1, <2>2, <2>3
<1> QED
  BY <1>2, <1>3, <1>4, <1>5, <1>6, <1>7, <1>8, <1>9, <1>10, <1>11, <1>12
  DEF Next, Command, Monitor, Execute, MonitorStarts, PollCgroup, ListTree,
      Vanished, Watch, Complete, Drained, DrainStalls, DrainEnds, Reap, vars

\* What no step undoes.
LEMMA Stable ==
  ASSUME TypeOK, Tree, Tree', Status, [Next]_vars
  PROVE  /\ host' = host
         /\ Quiet => Quiet'
         /\ state[Leader] = "dead" => state'[Leader] = "dead"
         /\ cause # None => cause' = cause
         /\ scope # "absent" => scope' # "absent"
<1> USE DEF tree
<1>1. Leader \in Procs /\ Leader \notin Kids
  BY ConstantsAssumption DEF Procs
<1>2. host' = host
  BY DEF Next, Command, Wedge, Unwedge, Ends, Grow, Fork, SystemdStarts,
         OomdStops, SystemdRemoves, Reap, Monitor, MonitorStarts, PollCgroup,
         ListTree, Vanished, SumRss, Execute, Watch, Complete, Drained,
         DrainStalls, DrainEnds, Join, Expire, vars
<1>3. scope # "absent" => scope' # "absent"
  BY DEF Next, Command, Wedge, Unwedge, Ends, Grow, Fork, SystemdStarts,
         OomdStops, SystemdRemoves, Reap, Monitor, MonitorStarts, PollCgroup,
         ListTree, Vanished, SumRss, Execute, Watch, Complete, Drained,
         DrainStalls, DrainEnds, Join, Expire, vars
<1> DEFINE Kept == /\ Quiet => Quiet'
                   /\ state[Leader] = "dead" => state'[Leader] = "dead"
                   /\ cause # None => cause' = cause
<1>4. ASSUME UNCHANGED <<state, cause>> PROVE Kept
  BY <1>4 DEF Quiet, Active
<1>5. ASSUME NEW STATE dying, dying \in SUBSET Procs, NEW why, Die(dying, why)
      PROVE  Kept
  <2>1. state' = AfterKill(dying) /\ (cause # None => cause' = cause)
    BY <1>5 DEF Die
  <2>2. \A p \in Procs : /\ Active(p)' => Active(p)
                         /\ ~Active(p) => state'[p] = state[p]
    BY <1>5, <2>1, KillEffects
  <2> QED BY <1>1, <2>1, <2>2 DEF Quiet, Active
<1>6. ASSUME NEW p \in Procs, Wedge(p) \/ Unwedge(p) PROVE Kept
  <2>1. /\ \A r \in Procs : Active(r)' <=> Active(r)
        /\ state[Leader] = "dead" => state'[Leader] = "dead"
        /\ cause' = cause
    BY <1>1, <1>6 DEF Wedge, Unwedge, Runs, Active, TypeOK
  <2> QED BY <2>1 DEF Quiet
<1>7. ASSUME NEW p \in Procs, Ends(p) PROVE Kept
  <2>1. \E why \in {"exit", "self", "cpu"} : Die({p}, why)
    BY <1>7 DEF Ends
  <2>2. {p} \in SUBSET Procs
    BY <1>7
  <2> QED BY <1>5, <2>1, <2>2
<1>8. ASSUME NEW p \in Procs, Grow(p) PROVE Kept
  <2>1. CASE host.cgroup /\ Cardinality(big \union {p}) > MemCap
    <3>1. PICK v \in big \union {p} :
             /\ state[v] = "running" /\ state' = AfterKill({v})
             /\ cause' = IF v = Leader THEN "oom" ELSE cause
      BY <1>8, <2>1 DEF Grow
    <3>2. {v} \in SUBSET Procs
      BY <3>1 DEF TypeOK
    <3>3. \A r \in Procs : /\ Active(r)' => Active(r)
                           /\ ~Active(r) => state'[r] = state[r]
      BY <3>1, <3>2, KillEffects
    <3>4. cause # None => cause' = cause
      BY <3>1 DEF Tree, Active
    <3> QED BY <1>1, <3>3, <3>4 DEF Quiet, Active
  <2>2. CASE ~(host.cgroup /\ Cardinality(big \union {p}) > MemCap)
    BY <1>4, <1>8, <2>2 DEF Grow
  <2> QED BY <2>1, <2>2
<1>9. ASSUME NEW p \in Procs, Fork(p) PROVE Kept
  <2>1. PICK q \in Kids :
            /\ state[p] = "running"
            /\ state' = [state EXCEPT ![q] = "running"]
            /\ cause' = cause
    BY <1>9, ForkEffects
  <2> QED BY <1>1, <2>1 DEF TypeOK, Quiet, Active
<1>10. ASSUME OomdStops \/ SumRss \/ Expire \/ Join PROVE Kept
  <2>1. \/ UNCHANGED <<state, cause>>
        \/ Die(Procs, "oomd") \/ Die(Procs, "watch")
        \/ Die(group, "watch")
        \/ \E written \in BOOLEAN : Die(Reached(written), "watch")
    BY <1>10 DEF OomdStops, SumRss, Expire, Join, KillLate, Killable
  <2>2. /\ Procs \in SUBSET Procs /\ group \in SUBSET Procs
        /\ \A written \in BOOLEAN : Reached(written) \in SUBSET Procs
    BY DEF Reached, TypeOK
  <2>3. CASE Die(Procs, "oomd") \/ Die(Procs, "watch")
    BY <1>5, <2>2, <2>3
  <2>4. CASE Die(group, "watch")
    BY <1>5, <2>2, <2>4
  <2>5. CASE \E written \in BOOLEAN : Die(Reached(written), "watch")
    BY <1>5, <2>2, <2>5
  <2> QED BY <1>4, <2>1, <2>3, <2>4, <2>5
<1> HIDE DEF Kept
<1>11. ASSUME Command PROVE Kept
  <2>1. CASE SystemdStarts \/ SystemdRemoves
    BY <1>4, <2>1 DEF SystemdStarts, SystemdRemoves
  <2> QED BY <1>6, <1>7, <1>8, <1>9, <1>10, <1>11, <2>1 DEF Command
<1>12. ASSUME Monitor \/ Execute \/ Expire \/ Reap \/ UNCHANGED vars
       PROVE  Kept
  <2>1. CASE OomdStops \/ SumRss \/ Expire \/ Join
    BY <1>10, <2>1
  <2>2. CASE ~(SumRss \/ Expire \/ Join)
    <3>1. UNCHANGED <<state, cause>>
      BY <1>12, <2>2
      DEF Monitor, Execute, MonitorStarts, PollCgroup, ListTree, Vanished,
          Watch, Complete, Drained, DrainStalls, DrainEnds, Reap, vars
    <3> QED BY <1>4, <3>1
  <2> QED BY <2>1, <2>2
<1>13. Kept
  BY <1>11, <1>12 DEF Next
<1> QED BY <1>2, <1>3, <1>13 DEF Kept

LEMMA StatusStep ==
  ASSUME TypeOK, Tree, Tree', Status, [Next]_vars
  PROVE  Status'
<1>1. /\ host' = host
      /\ state[Leader] = "dead" => state'[Leader] = "dead"
      /\ cause # None => cause' = cause
  BY Stable
<1>2. state[Leader] = "dead" => cause # None
  BY DEF Tree, Active
<1>3. CASE Reap
  <2>1. returncode' \in Statuses /\ state[Leader] = "dead" /\ cause' = cause
    BY <1>3 DEF Reap, tree
  <2>2. ~host.sandboxed => /\ cause = "oom" => returncode' = "KILL"
                           /\ cause = "oomd" => returncode' = "TERM"
    BY <2>1 DEF Statuses
  <2> QED BY <1>1, <2>1, <2>2 DEF Status
<1>4. ASSUME returncode' = returncode PROVE Status'
  BY <1>1, <1>2, <1>4 DEF Status
<1> QED
  BY <1>3, <1>4
  DEF Next, Command, Wedge, Unwedge, Ends, Grow, Fork, SystemdStarts,
      OomdStops, SystemdRemoves, Monitor, MonitorStarts, PollCgroup,
      ListTree, Vanished, SumRss, Execute, Watch, Complete, Drained,
      DrainStalls, DrainEnds, Join, Expire, vars

-----------------------------------------------------------------------------
\* The two coroutines.

LEMMA CommandLeaves ==
  ASSUME Command
  PROVE  UNCHANGED <<host, returncode, exec, monitor, flag>>
  BY DEF Command, Wedge, Unwedge, Ends, Grow, Fork, SystemdStarts, OomdStops,
         SystemdRemoves

LEMMA KnownInit == Init => Known
  BY NoneAssumption DEF Init, Known, Reason

LEMMA KnownStep ==
  ASSUME TypeOK, Tree, Tree', Status, Known, [Next]_vars
  PROVE  Known'
<1>1. host' = host /\ (scope # "absent" => scope' # "absent")
  BY Stable
<1>2. None \notin Reason /\ flag \in [reason : Reason \union {None},
          done : BOOLEAN, baseline : Count \union {None},
          seen : Count \union {None}, dir : BOOLEAN]
  BY NoneAssumption DEF TypeOK
<1> USE DEF exec, monitor
<1>3. ASSUME UNCHANGED <<exec, monitor, flag>> PROVE Known'
  BY <1>1, <1>3 DEF Known
<1>4. CASE MonitorStarts
  BY <1>1, <1>2, <1>4 DEF MonitorStarts, Known
<1>5. CASE PollCgroup
  <2>1. /\ host.cgroup /\ mon = "polling" /\ mon' \in {"ended", "polling"}
        /\ monDir' = (monDir \/ Resolvable)
        /\ flag'.reason \in {flag.reason, "oom"}
        /\ flag'.dir => flag.dir \/ monDir'
        /\ UNCHANGED exec
    BY <1>2, <1>5 DEF PollCgroup
  <2>2. Resolvable => scope # "absent"
    BY DEF Resolvable
  <2>3. flag'.reason \in {None, "oom", "rss_exceeded"}
        /\ flag'.reason # "rss_exceeded"
    BY <1>2, <2>1 DEF Known
  <2> QED BY <1>1, <2>1, <2>2, <2>3 DEF Known
<1>6. CASE ListTree \/ Vanished
  <2>1. ~host.cgroup /\ ~dir
    BY <1>6 DEF ListTree, Vanished, Known, Tree
  <2> QED BY <1>1, <1>6, <2>1 DEF ListTree, Vanished, Known
<1>7. CASE SumRss
  <2>1. /\ ~host.cgroup /\ ~dir /\ mon' \in {"ended", "polling"}
        /\ flag'.reason \in {flag.reason, "rss_exceeded"}
        /\ flag'.dir = flag.dir /\ UNCHANGED <<exec, monDir>>
        /\ mon = "reading"
    BY <1>2, <1>7 DEF SumRss, Known, Tree
  <2>2. flag'.reason \in {None, "oom", "rss_exceeded"}
        /\ (flag'.reason = "oom" => flag.reason = "oom")
    BY <2>1 DEF Known
  <2> QED BY <1>1, <2>1, <2>2 DEF Known
<1>8. CASE Watch
  <2>1. dir' => scope # "absent"
    BY <1>8 DEF Watch, Resolvable
  <2> QED BY <1>1, <1>8, <2>1 DEF Watch, Known
<1>9. CASE Complete
  <2>1. /\ flag'.reason = IF FinalOom THEN "oom" ELSE flag.reason
        /\ flag'.dir = flag.dir /\ phase' = "joining" /\ mon # "new"
        /\ UNCHANGED <<dir, monitor>> /\ phase = "communicating"
        /\ FinalOom => host.cgroup
    BY <1>2, <1>9 DEF Complete, FinalOom
  <2> QED BY <1>1, <2>1 DEF Known
<1>10. CASE Drained \/ DrainStalls
  BY <1>1, <1>2, <1>10 DEF Drained, DrainStalls, DrainEnds, Known
<1>11. CASE Expire
  BY <1>1, <1>11 DEF Expire, Known
<1>12. CASE Join
  BY <1>1, <1>12 DEF Join, Known
<1> QED
  BY <1>3, <1>4, <1>5, <1>6, <1>7, <1>8, <1>9, <1>10, <1>11, <1>12,
     CommandLeaves
  DEF Next, Reap, Monitor, Execute, vars

\* Where no kill has to reach: the scope has been removed, or the sandbox has
\* gone with its leader.
LEMMA NothingLeft ==
  ASSUME TypeOK, Tree
  PROVE  /\ scope = "gone" => Quiet
         /\ host.sandboxed /\ state[Leader] = "dead" => Quiet
  BY DEF Tree, Living, Alive, Quiet, Active

\* What SIGKILL to all of them, or to the leader of a sandbox, leaves.
LEMMA DieQuiets ==
  ASSUME TypeOK, NEW STATE dying, dying \in SUBSET Procs, NEW why,
         Die(dying, why),
         dying = Procs \/ (host.sandboxed /\ Leader \in dying)
  PROVE  Quiet'
<1>1. state' = AfterKill(dying)
  BY DEF Die
<1>2. /\ \A p \in Procs : p \in dying => ~Active(p)'
      /\ host.sandboxed /\ Leader \in dying => Quiet'
  BY <1>1, KillEffects
<1> QED BY <1>2 DEF Quiet

LEMMA ExpiredInit == Init => Expired
  BY DEF Init, Expired, Replied

LEMMA ExpiredStep ==
  ASSUME TypeOK, Tree, Tree', Status, Known, Expired, [Next]_vars
  PROVE  Expired'
<1>1. host' = host /\ (Quiet => Quiet')
  BY Stable
<1> USE DEF exec, monitor, Replied
<1>2. ASSUME UNCHANGED <<exec, monitor, flag>> PROVE Expired'
  BY <1>1, <1>2 DEF Expired
<1>3. CASE Monitor
  <2>1. phase # "replied" /\ UNCHANGED exec
    BY <1>3 DEF Monitor, MonitorStarts, PollCgroup, ListTree, Vanished, SumRss,
                Expired
  <2> QED BY <1>1, <2>1 DEF Expired
<1>4. CASE Watch
  BY <1>1, <1>4 DEF Watch, Expired
<1>5. CASE Complete
  BY <1>1, <1>5 DEF Complete, Expired
<1>6. CASE Drained \/ DrainStalls
  <2>1. /\ phase = "draining" /\ phase' = "joining" /\ UNCHANGED <<dir, refused>>
    BY <1>6 DEF Drained, DrainStalls, DrainEnds
  <2> QED BY <1>1, <2>1 DEF Expired
<1>7. CASE Expire
  <2>1. PICK written \in Killable :
           /\ Die(Reached(written), "watch") /\ phase' = "draining"
           /\ refused' = (dir /\ scope = "live" /\ ~written)
           /\ phase = "communicating" /\ UNCHANGED <<dir, timedOut>>
    BY <1>7 DEF Expire
  <2>2. Reached(written) \in SUBSET Procs /\ Leader \in group
    BY DEF Reached, TypeOK, Tree
  <2>3. dir /\ ~refused' => Quiet'
    <3> SUFFICES ASSUME dir, ~refused' PROVE Quiet'
      OBVIOUS
    <3>1. CASE scope = "live"
      <4>1. Reached(written) = Procs
        BY <2>1, <2>2, <3>1 DEF Reached, Killable
      <4> QED BY <2>1, <2>2, <4>1, DieQuiets
    <3>2. CASE scope = "gone"
      BY <1>1, <3>2, NothingLeft
    <3> QED BY <3>1, <3>2 DEF Known, TypeOK
  <2>4. host.sandboxed => Quiet'
    <3> SUFFICES ASSUME host.sandboxed PROVE Quiet'
      OBVIOUS
    <3>1. CASE returncode = None
      <4>1. Leader \in Reached(written)
        BY <2>2, <3>1 DEF Reached
      <4> QED BY <2>1, <2>2, <4>1, DieQuiets
    <3>2. CASE returncode # None
      BY <1>1, <3>2, NothingLeft DEF Status
    <3> QED BY <3>1, <3>2
  <2> QED BY <1>1, <2>1, <2>3, <2>4 DEF Expired
<1>8. CASE Join
  <2>1. /\ phase = "joining" /\ phase' = "replied" /\ mon = "ended"
        /\ UNCHANGED <<dir, timedOut, flag, mon>>
    BY <1>8 DEF Join
  <2>2. dir => refused' = refused
    BY <1>8 DEF Join
  <2>3. timedOut /\ flag.dir /\ ~refused' => Quiet'
    <3> SUFFICES ASSUME timedOut, flag.dir, ~refused' PROVE Quiet'
      OBVIOUS
    <3>1. CASE dir
      BY <1>1, <2>2, <3>1 DEF Expired
    <3>2. CASE ~dir /\ scope = "live"
      <4>1. Die(Procs, "watch")
        BY <1>8, <3>2 DEF Join, KillLate, Killable
      <4> QED BY <4>1, DieQuiets
    <3>3. CASE scope = "gone"
      BY <1>1, <3>3, NothingLeft
    <3> QED BY <3>1, <3>2, <3>3 DEF Known, TypeOK
  <2> QED BY <1>1, <2>1, <2>2, <2>3 DEF Expired
<1> QED
  BY <1>2, <1>3, <1>4, <1>5, <1>6, <1>7, <1>8, CommandLeaves
  DEF Next, Reap, Execute, vars

LEMMA ReportedInit == Init => Reported
<1> SUFFICES ASSUME Init PROVE Reported
  OBVIOUS
<1>1. cause # "watch" /\ phase = "resolving"
  BY NoneAssumption DEF Init, Cause
<1> QED BY <1>1 DEF Reported, Replied

\* No step of the processes or of the kernel is a kill of Hares' making.
LEMMA CommandCause ==
  ASSUME Command
  PROVE  cause' = "watch" => cause = "watch"
  BY DEF Command, Wedge, Unwedge, Ends, Grow, Fork, SystemdStarts, OomdStops,
         SystemdRemoves, Die

LEMMA ReportedStep ==
  ASSUME TypeOK, Tree, Tree', Status, Known, Expired, Reported, [Next]_vars
  PROVE  Reported'
<1>1. host' = host
  BY Stable
<1>2. /\ None \notin Reason
      /\ flag \in [reason : Reason \union {None}, done : BOOLEAN,
                   baseline : Count \union {None},
                   seen : Count \union {None}, dir : BOOLEAN]
      /\ dir => host.cgroup
  BY NoneAssumption DEF TypeOK, Known, Tree
<1> USE DEF exec, monitor, Replied
<1>3. ASSUME UNCHANGED <<exec, flag, returncode>>,
             cause' = "watch" => cause = "watch"
      PROVE  Reported'
  <2>1. Inferred' = Inferred
    BY <1>1, <1>3 DEF Inferred
  <2> QED BY <1>3, <2>1 DEF Reported
<1>4. CASE Command
  BY <1>3, <1>4, CommandLeaves, CommandCause
<1>5. CASE MonitorStarts
  <2>1. /\ phase \notin {"joining", "replied"} /\ flag'.reason = flag.reason
        /\ UNCHANGED <<exec, cause>>
    BY <1>2, <1>5 DEF MonitorStarts, Known, tree
  <2> QED BY <2>1 DEF Reported
<1>6. CASE PollCgroup
  <2>1. /\ host.cgroup /\ phase # "replied"
        /\ UNCHANGED <<exec, cause, returncode>>
        /\ flag'.reason \in {flag.reason, "oom"}
        /\ monDir => flag'.baseline = flag.baseline
    BY <1>2, <1>6 DEF PollCgroup, Expired, tree
  <2>2. dir => flag'.baseline = flag.baseline
    BY <1>6, <2>1 DEF PollCgroup, Known
  <2>3. flag.reason # "rss_exceeded"
    BY <2>1 DEF Known
  <2> QED BY <2>1, <2>2, <2>3 DEF Reported
<1>7. CASE ListTree \/ Vanished
  BY <1>3, <1>7 DEF ListTree, Vanished, tree
<1>8. CASE SumRss
  <2>1. /\ phase # "replied" /\ ~dir /\ UNCHANGED <<exec, returncode>>
    BY <1>8 DEF SumRss, Expired, Known, Tree
  <2>2. cause' = "watch" /\ phase # "draining" /\ ~timedOut =>
           flag'.reason = "rss_exceeded"
    <3>1. CASE Rss > MemCap
      BY <1>2, <1>8, <3>1 DEF SumRss
    <3>2. CASE ~(Rss > MemCap)
      BY <1>8, <3>2 DEF SumRss, Reported
    <3> QED BY <3>1, <3>2
  <2> QED BY <2>1, <2>2 DEF Reported
<1>9. CASE Watch
  <2>1. /\ phase = "resolving" /\ phase' = "communicating"
        /\ UNCHANGED <<timedOut, cause, flag>>
    BY <1>9 DEF Watch, tree
  <2> QED BY <2>1 DEF Reported
<1>10. CASE Complete
  <2>1. /\ phase = "communicating" /\ phase' = "joining" /\ returncode # None
        /\ flag'.reason = IF FinalOom THEN "oom" ELSE flag.reason
        /\ flag'.baseline = flag.baseline /\ counted' = OrZero(OomCount)
        /\ UNCHANGED <<dir, timedOut, cause, returncode>>
    BY <1>2, <1>10 DEF Complete, Communicated, tree
  <2>2. flag.reason = "rss_exceeded" => ~FinalOom
    BY <1>2 DEF FinalOom, Reason
  <2>3. dir /\ counted' > OrZero(flag'.baseline) => flag'.reason = "oom"
    <3> SUFFICES ASSUME dir, counted' > OrZero(flag'.baseline)
                 PROVE  flag'.reason = "oom"
      OBVIOUS
    <3>1. OrZero(OomCount) > OrZero(flag.baseline)
      BY <2>1
    <3>2. flag.reason = None => FinalOom
      BY <1>2, <3>1 DEF FinalOom
    <3> QED BY <1>2, <2>1, <3>2 DEF Known
  <2> QED BY <2>1, <2>2, <2>3 DEF Reported
<1>11. CASE Drained \/ DrainStalls
  BY <1>11 DEF Drained, DrainStalls, DrainEnds, Reported
<1>12. CASE Expire
  BY <1>12 DEF Expire, Reported
<1>13. CASE Join
  <2>1. /\ phase = "joining" /\ phase' = "replied"
        /\ reply' = IF timedOut THEN "timeout"
                    ELSE IF flag.reason # None THEN flag.reason ELSE Inferred
        /\ UNCHANGED <<dir, timedOut, flag, returncode, counted>>
        /\ ~timedOut => cause' = cause
    BY <1>13 DEF Join
  <2>2. Inferred' = Inferred
    BY <1>1, <2>1 DEF Inferred
  <2> QED BY <2>1, <2>2 DEF Reported
<1>14. CASE Reap
  <2>1. returncode = None /\ UNCHANGED <<exec, flag, cause>>
    BY <1>14 DEF Reap, tree
  <2> QED BY <2>1 DEF Reported
<1>15. CASE UNCHANGED vars
  BY <1>3, <1>15 DEF vars, tree
<1> QED
  BY <1>4, <1>5, <1>6, <1>7, <1>8, <1>9, <1>10, <1>11, <1>12, <1>13, <1>14,
     <1>15 DEF Next, Monitor, Execute

-----------------------------------------------------------------------------
\* The theorems.

LEMMA InvInit == Init => IInv
<1>1. Init => Status
  BY DEF Init, Status
<1> QED BY <1>1, TypeInit, TreeInit, KnownInit, ExpiredInit, ReportedInit
        DEF IInv

LEMMA InvStep == IInv /\ [Next]_vars => IInv'
<1> SUFFICES ASSUME IInv, [Next]_vars PROVE IInv'
  OBVIOUS
<1>1. TypeOK' /\ Tree'
  BY TypeStep, TreeStep DEF IInv
<1>2. Status' /\ Known' /\ Expired' /\ Reported'
  BY <1>1, StatusStep, KnownStep, ExpiredStep, ReportedStep DEF IInv
<1> QED BY <1>1, <1>2 DEF IInv

LEMMA Invariance == Spec => []IInv
<1> QED BY InvInit, InvStep, PTL DEF Spec

\* Every variable keeps its type: a reply has one of the reasons that execute
\* may give, and the monitor lists processes of the command only.
THEOREM TypeCorrect == Spec => []TypeOK
<1>1. IInv => TypeOK
  BY DEF IInv
<1> QED BY <1>1, Invariance, PTL

\* When execute reports a timeout, every process of the command is dead or
\* has SIGKILL pending, except those that neither the sandbox, nor a scope that
\* is known and could be killed, nor the process group gives it a hold of (the
\* handler of TimeoutError and the second cgroup_kill in execute).
THEOREM TimeoutKills == Spec => []TimeoutKillsTree
<1>1. IInv => TimeoutKillsTree
  <2> SUFFICES ASSUME IInv, Replied, timedOut, NEW p \in Procs, Active(p)
               PROVE  Beyond(p)
    BY DEF TimeoutKillsTree, Active
  <2>1. ~Quiet
    BY DEF Quiet
  <2>2. ~host.sandboxed /\ (dir \/ flag.dir => refused)
    BY <2>1 DEF IInv, Expired
  <2>3. p \notin group \/ cause # "watch"
    BY DEF IInv, Tree, GroupQuiet
  <2> QED BY <2>2, <2>3 DEF Beyond
<1> QED BY <1>1, Invariance, PTL

\* A leader that was killed for memory, by the kernel, by systemd or by the
\* monitor, is reported so, wherever its status or the counter of the scope
\* can tell (killed_reason in execute).
THEOREM MemoryKillsReported == Spec => []MemoryKillReported
<1>1. IInv => MemoryKillReported
  <2> SUFFICES ASSUME IInv, Replied, ~timedOut
               PROVE  /\ cause = "watch" => reply = "rss_exceeded"
                      /\ cause \in {"oom", "oomd"} /\ ~host.sandboxed =>
                            reply = "oom"
                      /\ counted > OrZero(flag.baseline) /\ dir =>
                            reply = "oom"
    BY DEF MemoryKillReported
  <2>1. None \notin Reason
    BY NoneAssumption
  <2>2. /\ cause = "watch" => flag.reason = "rss_exceeded"
        /\ dir /\ counted > OrZero(flag.baseline) => flag.reason = "oom"
        /\ returncode # None
        /\ reply = IF flag.reason # None THEN flag.reason ELSE Inferred
    BY DEF IInv, Reported, Replied
  <2>3. ASSUME cause \in {"oom", "oomd"}, ~host.sandboxed
        PROVE  reply = "oom"
    <3>1. host.cgroup /\ returncode \in {"KILL", "TERM"}
      BY <2>2, <2>3 DEF IInv, Tree, Status
    <3>2. flag.reason \in {None, "oom"} /\ Inferred = "oom"
      BY <3>1 DEF IInv, Known, Inferred
    <3> QED BY <2>2, <3>2
  <2> QED BY <2>1, <2>2, <2>3 DEF Reason
<1> QED BY <1>1, Invariance, PTL
=============================================================================
