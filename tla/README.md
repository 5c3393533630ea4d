# Hares: specifications, model checks and proofs

Hares gives an agent three kinds of tools over MCP: it runs shell commands in a
sandbox (`hares.shell`), reads and writes files under an active scope
(`hares.fs`), and submits jobs to a cluster (`hares.cluster`). The modules here
describe the parts of it whose correctness depends on interleavings, deaths and
failures. TLC checks them on small instances. TLAPS proves for every instance
all the invariants, action properties and refinements that TLC checks; what
must eventually happen is left to TLC (section 5).

All line numbers refer to files under `src/hares/` unless they begin otherwise;
`src/README.md` is the repository's own README.

## 1. Inventory

### 1.1 Components

| Component | Code | State it keeps | Operations |
|---|---|---|---|
| Cross-process slots | `coordination.py` | one file per slot, held by `flock`; the descriptors of each call | acquire (scan, undo, sleep), release |
| Core pool | `coordination.py` | `core_pool.json` under `core_pool.json.lock`; `_claimed_cores` | claim at start, release at exit |
| Runner | `runner.py` | semaphore, `_core_in_use`, process trees, active scope, mounts | execute, set_active_scope |
| Active scope | `fs/state.py`, `fs/tools.py`, `combined/server.py` | `_scope` with a sequence number, state file, tmp file, instance secret | restrict_paths, get_active_paths, load and recover |
| Grants | `grants.py`, `grant_tools.py` | a list of grants: root, `ro` or `rw`, `once` or `session` | add, covers_read, covers_write, consume_once, consume_all_once; request_path_access, which asks the user |
| File operations | `fs/operations.py`, `path_safety.py` | none of its own | read, write, edit, list; path resolution under ceiling, scope and grants |
| Cluster jobs | `cluster/base.py`, `slurm.py`, `lsf.py` | `_jobs`, `_evicted_ids`, one lock | submit, wait, cancel, jobs, execute_blocking, eviction; array jobs |
| Policy | `policy.py`, `exec_tools.py` | deny and suspect patterns | check: deny, then ask the user, then allow; the high-memory tool asks on every call |
| Audit log | `audit.py` | the open file, one lock | append a line for each tool call, signed one by one |
| Memory limits | `memlimit.py`, `_monitor_rss` in `runner.py` | `kill_flag`, what the monitor has read of the command's cgroup | find the scope, read its OOM counter, kill it; sum up the memory of a tree |
| Inspector | `inspector.py` | none | rewrite the worker counts of pytest, make, ninja and cargo |
| Sandbox, network | `sandbox.py`, `net_policy.py` | none | build the bwrap command line; nftables rules |
| Roots | `roots.py`, `exec_tools.py` | whether they were applied | ask the client once and set the Runner's ceiling |
| Wiring and the rest | `*/server.py`, `config.py`, `cli.py`, `doctor.py` | none that outlives a call | dispatch, configuration, diagnostics |

### 1.2 How they interact

- Every tool call is wrapped by the audit log. A call of an exec tool passes the
  policy gate, which may wait for the user, and reaches `Runner.execute`, which
  clamps weight and memory and has the inspector rewrite the command. It takes
  slots from the coordinator (`flock` slots when a coordination directory is set,
  a semaphore otherwise), picks cores from its share of the core pool, composes
  the sandbox from the active scope and the grants, consumes the *once* grants,
  spawns the child and waits for it, with a monitor task beside it. Its `finally`
  clauses return all of it.
- In the combined server, `fs_restrict_paths` saves the scope and calls
  `on_change`, which hands the Runner the same paths. From then on file writes
  and the mounts of commands are meant to be equally narrow.
- Several Hares processes share a coordination directory: slot files, the core
  pool and its lock. `doctor` probes the same slot files. They share nothing
  else, and the kernel is the only one to notice when one of them dies.
- The cluster manager shares nothing with the others. Its concurrent tool calls
  meet in `_jobs`, across every await of a scheduler command.

### 1.3 Where it is hard

- *Interleaving of processes.* Slots are taken file by file, the pool file is
  read, modified and replaced; a process may die in between.
- *Interleaving of coroutines.* Every await is a place where the call may be
  cancelled, time out, or find that others have changed what it read.
- *Crashes.* A save has five steps. A death leaves the page cache, a loss of
  power does not, and the start after it must choose between two files.
- *Processes beside the loop.* The tree of a command forks, leaves its group, ends
  and is killed by the kernel, by systemd, by the monitor or by the timeout; what
  is reported is put together from traces that each appear at their own time.
- *Late and failed answers.* A user answers late, or never. Polls of one round
  answer one by one, and records are evicted or cancelled meanwhile.
- *Capacity.* Slots, cores, retained records, weights above the cap.

`PROJECT.json` lists each hazard at its line, with the properties that catch it.

### 1.4 What makes each component correct

| Component | Properties | Where |
|---|---|---|
| Slots | Every lock is known to a call, but for those that a failed `os.open` strands; commands that run hold disjoint whole sets; the callers together get on, unless two that want several slots undo each other; the scan is an atomic lease | `FlockSlots` |
| Core pool | No core twice; no lost update; nobody hangs at start or exit | `CorePool` |
| Runner | Permits and cores conserved over every exit of `execute`; no leader of a command left alive unaccounted, but after a cancellation or a kill that failed; calls end, unless those that wait for more permits hold all of them | `Runner` |
| Active scope | A reported number is never taken back; compare-and-swap replaces what its caller saw; both layers narrow together; success means saved | `ScopeState` |
| Cluster | Results are true and running jobs keep their record, unless the text of a failing command is misread; waits answer and end | `ClusterJobs` |
| Grants | A *once* grant serves one operation, a file operation or a command, and only after its approval; a command that uses one up gets it | `PathAccess` |
| Sandbox, file operations, path safety | Commands may modify what file operations may, whatever scope, grants and deny lists | `PathAccess` |
| Memory limits, timeout | A kill for memory is reported as one; a timeout leaves nothing its kills reach; the call answers; a tree over its cap ends | `CommandWatch` |
| Policy | Nothing denied runs; nothing runs before the user's yes to this very call, nor with more memory than was shown; open dialogs hold nobody up | `ToolCalls` |
| Audit log | A call leaves one entry, whether it returns, raises or is cancelled | `ToolCalls` |
| Inspector | A tool starts no more workers than its call has weight | `Inspector`, `ToolCalls` |

## 2. Modules

`MC<module>` extends a module with the instances that TLC uses;
`<module>Proofs` extends it with theorems and their proofs.

### 2.1 `SlotLease`, `FlockSlots`, `FlockSlotsProofs`

`FlockSlots` is `_acquire_flock_slots` and its release, `flock` call by `flock`
call. `holder` is the kernel's view (which call has the lock of each slot file),
`acquired` is the code's view (the list of descriptors), `cursor` the index of
the loop.

| Code | Actions |
|---|---|
| `while True`, `for sf in self._slot_files` | `Call`, `Wake`, `TryLock`, `Granted`, `NotEnough` |
| `flock` fails with another errno: release all, raise | `LockError`, then `Unlock`, `Released` |
| `os.open` fails, before the `try`: raise, release nothing | `OpenError` |
| release the partial set, `asyncio.sleep(0.5)` | `Unlock`, `Released`, `Wake`; `Cancel` in the sleep |
| `execute`'s `finally` | `Finish`, `Unlock`, `Released` |
| death of a process, a new one in its place | `Crash`, `Restart` |
| `count_free_slots`, which `doctor` runs in a process of its own | `Probe`, `ProbeEnds` |

Two processes may act between any two locks. Within a process, `OnLoop` keeps
other calls out between two awaits; `SectionStep` names the steps in there. The
locks that `OpenError` leaves behind pass from the call to its process
(`holder[s] = Owner[t]`), which drops them when it dies; `failed` counts these
errors. `SlotLease` is what callers may rely on: a
call gets a whole set of free slots in one step and gives it back in one step.
`FlockSlots` implements it, with the set of a running call as its lease; a set
half taken or half returned is invisible. `doctor` takes a free slot's lock only to
drop it; a caller that meets it there takes the slot for one in use.

### 2.2 `CorePool`, `CorePoolProofs`

`claim_cores` and `release_cores`: lock, read and evict dead pids, choose,
write and replace, unlock. A process may die between any two of these. Pids are
reused, by another Hares process (`Start`) or by any program (`ForeignStart`);
`HostCrash` ends everything and may lose the pool file's content.

### 2.3 `Runner`, `RunnerProofs`

One Hares process on its own semaphore. An action is what a call does between
two awaits that really suspend. `asyncio.Semaphore` is modelled as Python 3.11
and later have it: a released permit is handed to the first waiter (`Settle`)
and is in flight (`woken`) until that waiter runs, which may be after it has
been cancelled. Each `release` wakes one waiter at most, so the `finally` of
`execute` hands on as many permits as the call had; the `finally` of `acquire`
hands on all that are free. `Permits` turns the counts of the calls into a set,
whose cardinality is what they hold together.

| Code (`execute`) | Actions |
|---|---|
| semaphore loop, cores, mounts, once grants, up to the await of the spawn | `Call`, `Resume` (`AcquireLoop`) |
| spawn, with `_spawn_sandboxed` | `SpawnOk` (`AfterSpawn`), `SpawnFails`, `CancelSpawn` |
| cgroup scope, network handshake | `ScopeResolved`, `HandshakeFails`, `CancelReady` |
| `communicate` and its timeout | `Complete`, `Timeout`, `CancelRun` |
| kill and drain | `Drained`, `DrainStalls` |
| monitor joined, `finally` | `Join`, `CancelJoin` (`Finally`) |
| the command's own end, or that of its leader alone | `ChildEnds`, `LeaderEnds` |

`child` follows the tree of a command. `left` is a leader that ended and was
reaped with processes of the tree still alive: `communicate` returns all the
same once nobody holds the pipes, the tree's last processes outlive the result,
and the timeout may not find the group any more (`AfterKill`; which processes it
reaches in which mode is the matter of `CommandWatch`). `ChildrenAccounted` is
therefore about leaders.

`CountPartial` chooses between the two semaphore loops of the code: the
Runner's counts each permit, the coordinator's only the whole weight.

### 2.4 `ScopeRegister`, `ScopeState`, `ScopeStateProofs`

The tools, the store and the file system below it. A tool call has no await
between its checks and its reply, so calls are atomic with respect to each
other; the steps of a save (`OpenTmp`, `WriteTmp`, `FsyncTmp`, `Rename`,
`SyncDir`, `Notify`) are where `Die`, `PowerLoss`, `SaveFails` and `SyncFails`
come in. `Start` and `StartFails` are `load` with the recovery of a tmp file;
`StartUnread` is `load` when reading one of the files, or both, fails, which the
code takes for a file that is not there.
`RotateSecret` is a restart with another secret, pinned or random: both files
fail their check and are as good as torn.

The file system is external. `cache` is what programs read, `disk` what has
reached stable storage; `durable` is the set of directory versions that a loss
of power may leave. An inode that was not synced may come back old, new or torn.

`ScopeRegister` is a register that never forgets: an agent reads scope and
number together, a replacement increments the number. `ScopeState` implements
it under deaths of the process; a replacement takes effect when the tmp file is
whole.

### 2.5 `ClusterJobs`, `ClusterJobsProofs`

`submit`, `wait`, `execute_blocking`, `cancel` and the eviction, for single jobs
and arrays, with the cluster as the external part. `arrays` says which jobs are
arrays, `fate` how their tasks ended; `CollectedSingle` and `CollectedArray` are
the two ways a result is put together from the files the tasks leave. `jobs` is the
set of jobs with a record; their numbers are the order of the dict `_jobs`.
What happens between two runs of a scheduler command is one action: no section
under `_lock` contains an await, so the lock is never contended. `Answer`,
`PollFails` and `PollMisread` are the commands of one polling round, each at its
own time; the last is a failure whose text has a "not found" in it that is not
about the job, and `misled` is the history of such jobs, which no action looks
at. `Ends` is the end of a job: `bjobs` lists it for a while after, `squeue` may
do so (`Left`). `Apply` is the rest of the round; `Expire` is the deadline. `CancelSent` and
`CancelRecorded` have the await between them. `ExecuteBlocking` is the wait of a
call for a job it has submitted itself. SLURM and LSF differ in what they
make of a job that is no longer listed (`squeue` and the exit code file;
`bjobs` "not found").

### 2.6 `PathPermission`, `PathAccess`, `PathAccessProofs`

What a tool may reach in the file system: the grant store and its three users.
Paths are the nodes of a fixed tree (`At[p]` is `p` and all below it); the checks
of `path_safety.py` on a resolved path (`NoSystemDir`, `NotExcluded`,
`NotProtected`, `NoForbiddenSegment`, `CeilingOk`, `TargetOk`, `UnderCeiling`) are
operators the actions share, as they share them in the code.

| Code | Actions |
|---|---|
| `request_path_access` up to the elicitation; its answer | `Requested`, `Answered` |
| read, write and move operations: `_resolve`, then `_ensure_under_active_scope` | `Read`, `Write`, `Move` |
| `restrict_paths` with `on_change` | `RestrictPaths` |
| first `list_tools` with `--use-roots`; the client's answer | `AskRoots`, `RootsAnswered` |
| `execute`: slots, mounts, once grants, end | `Call`, `Begin`, `End` |

A file operation has no await and is one action, though it looks into the store
two or three times. `Begin` is the stretch between the slot and the await of
the spawn; what the call saw before it waited for its slot plays no part.
`Mounted` is the order of binds in `build_bwrap_argv` as the set of paths that
end up read-write, `UnderScope` the check of a file operation; `LayersAgree` compares the
two in every state.

`PathPermission` is the promise of the dialog: *once* is one operation, *session*
any number, and nothing is served before the answer. How many operations a
grant has served (`uses`) is history; no action looks at it.

### 2.7 `CommandWatch`, `CommandWatchProofs`

One command from its spawn to the reply. The kernel's part is a tree of processes
(`state`, `parent`, `group`, `held` for the pipes), the scope with its OOM
counter, and systemd; it acts between any two actions of the code.

| Code | Actions |
|---|---|
| `_resolve_scope_dir`, the start of the monitor | `Watch`, `MonitorStarts` |
| `_monitor_rss` with a cgroup: resolve, read the counter, compare | `PollCgroup` |
| `_monitor_rss` without: list the tree, read each process, sum up | `ListTree`, `Vanished`, `SumRss` |
| `communicate` returns, the final look at the counter | `Complete` |
| timeout: `cgroup_kill`, which may fail, `killpg`, drain | `Expire` (`Killable`, `Reached`), `Drained`, `DrainStalls` |
| join the monitor, infer the reason, reply | `Join` |
| the child watcher of asyncio | `Reap` |
| the command, the kernel, systemd | `Fork`, `Wedge`, `Unwedge`, `Ends`, `Grow`, `SystemdStarts`, `OomdStops`, `SystemdRemoves` |

The sum of the monitor takes several reads, and processes may end between them;
the listing is a step of its own (`listed`), while the loop, which runs no other
coroutine meanwhile, is kept out by `OnLoop`. `cgroup_kill` returns False on any
error of the write and neither of its callers looks; `KillLate` is the second of
them, for a scope that only the monitor has found. `cause`, `counted` and `refused` are history: why the leader
really ended, what the counter showed after `communicate`, and whether the write
to `cgroup.kill` failed on a scope that was there.

### 2.8 `Inspector`, `ToolCalls`, `ToolCallsProofs`

`Inspector` is `inspect_command` as a function on sequences of shell words, with
what the four tools make of their options as its reference (`Workers`).

`ToolCalls` is the life of the calls of one server from dispatch to audit log.

| Code | Actions |
|---|---|
| dispatch; the gates of both exec tools; the other tools | `CallTool` (`ExecuteCommand`, `ExecuteHighMemory`, `CallOther`) |
| the user's answer, or an error in its place | `Answer` |
| the head of `execute`: clamps, inspection, up to the slot | `Execute`, within the two above |
| the slot, the end of the command | `Start`, `Finish` |
| `CancelledError` at an await | `Cancel`, `CancelledInLog` |
| the shielded write of the exception path | `LogShielded` |

Slots and commands are cut down to what their own modules say of them: at most
`max` calls hold one, and commands end. A call holds one slot whatever its weight,
since the servers leave `weight_cap` at one (`coordination.py:128`). `consent` is
what the user meant, beside what the code makes of the answer. `lost` is where a
log entry is whose write failed: in the buffer of the file, from where the write
of a later entry may take it along, or gone.

## 3. Runs

Every bound is a constant of the module it bounds. "States" are distinct states.

| Run | Instance | States | Shows |
|---|---|---|---|
| `flock_slots` | 2 processes with cap 2 and 3 calls of weights 1, 2 and 2, a process with cap 3 that only adds a slot file, 1 death, 1 failing open for each process, 1 probe | 129 k | locks, cap, refinement of `SlotLease`, progress of the callers |
| `core_pool` | 3 processes wanting 2, 1 and 1 of 3 cores, 3 pids | 81 k | no overlap, no lost update, start and exit end |
| `runner` | 2 calls of weight 2 and 2 of weight 1 on 2 slots and 2 cores, cgroup and allowlist | 728 k | permits, cores, process trees, calls end |
| `scope_state` | 2 agents, 2 subtrees, 3 replacements, 2 deaths | 315 k | the register, compare-and-swap, both layers |
| `scope_faults` | 1 agent, 3 replacements, 1 death, 2 losses of power, 1 error, 1 other secret | 1202 k | one kind of crash loses nothing; success means saved |
| `cluster_jobs` | 2 jobs, one an array, a wait for both, an `execute_blocking`, 1 cancel, room for 1 record, SLURM and LSF | 855 k | results, eviction, waits |
| `path_access` | 8 paths, 3 requests, 2 commands on 1 slot, 5 scopes of which 2 are refused, 1 other ceiling and 1 refused | 287 k | both layers, once grants, refinement of `PathPermission` |
| `command_watch` | a leader and 2 children, every mode of sandbox and cgroup, 1 OOM kill | 705 k | reported reasons, the reach of the timeout, answers, memory overruns |
| `tool_calls` | 2 calls of any tool, 6 commands, 4 servers | 558 k | policy, audit log, worker counts, open dialogs |

Why these are enough:

- `flock_slots`: weights 1 and 2 under equal caps of 2 contain the partial set
  that must be undone, two heavy callers that undo each other, a call too wide for
  what is left, and a second call that meets what the first one left. The calls
  are made again and again: nothing bounds their number, so that progress is
  about an endless stream of them. The death reaches every phase, before and
  after a restart, a failing open every length of a partial set, and the probe
  every slot at every step.
- `core_pool`: the cores suffice for two processes and not for three, so the
  fallback to used cores occurs; three pids let an entry of a dead process meet
  its pid's next owner.
- `runner`: with four calls on two permits a waiter can be woken, cancelled with
  the permit in flight, and hand it on past a heavy call that waits for two; with
  two heavy calls, each can come to hold what the other waits for.
- `scope_*`: with three replacements a file can be two versions behind; two
  deaths put one in the recovery from another. Two subtrees make `[]`, one and
  all different scopes. Six inodes are enough that no write reuses one that is
  still in the directory or its durable versions.
- `cluster_jobs`: `Cap = 1` under two jobs makes eviction happen at every wait
  and cancel, while another wait has the evicted job pending. Tasks that all
  succeed, fail or are killed, and mixed arrays, are the cases that
  `_collect_array_result` tells apart.
- `path_access`: two grants for one path, one of each mode, and one for a directory
  above the ceiling, so that a lookup finds the wrong one if order or mode is
  mistaken, and a grant has the ceiling's deny lists below it. Both commands wait
  for one slot, so the grants change between call and start. The commands differ in
  nothing and are symmetric.
- `command_watch`: a child and a grandchild suffice for a group that is left, an
  orphan, a pipe held by another process than the leader, and a cap (`MemCap = 1`)
  that only two processes together exceed. All four combinations of sandbox and
  cgroup are initial states, and one of them also with a scope at the constructed path.
- `tool_calls`: two calls on one or two slots make one wait for the other, with its
  dialog open or its log entry under way. The commands are an empty one, a
  denied, a suspect one and each spelling of a count the inspector treats differently; the
  memory asked for is none, zero and more than the normal cap; one server has its
  high-memory maximum below the normal cap.

Three more runs are disagreements between the code and what it says of
itself. Each run below has one property that quotes the text, and TLC shows the
behaviour that breaks it.

| Run | Text | Behaviour |
|---|---|---|
| `runner_cancel` | `runner.py:4`, a cap on concurrent commands | A call cancelled in `communicate` runs its `finally` clauses only. Its slot is free, its process tree goes on, and the next command runs beside it. |
| `scope_death_power` | `fs/state.py:36`, no rollback after a crash | A death before `fsync` leaves a whole, unsynced tmp file; the next start renames it without a sync and reports its number; a loss of power takes it back. |
| `command_rewrite` | `inspector.py:290`, shell-equivalent | Words are split and joined with quotes, so that `cd x && make -j` becomes `cd x '&&' make -j1`: one command with the rest as arguments. |

### Further divergences, found by reading

They show in a single call, or a property excepts them by name, so that TLC
exhibits each as soon as the exception is taken out of the property.

*Commands and their kills*

- With an allowlist, the wait for bwrap reads the write end of the sync pipe
  (`runner.py:639`, its comment at 635), which fails with EBADF; only a timeout is
  caught. Each such call raises and leaves its sandbox behind, against
  `src/README.md:455`; `HandshakeFails` is the one way on from there.
- When the leader has been reaped and children hold the pipes, the timeout cannot
  look up the group: `os.getpgid` raises ProcessLookupError, which is swallowed
  (`runner.py:1152`), and without a scope or a sandbox nothing is killed, against
  `runner.py:15`, "killpg of the whole process group on overrun". The note then
  says that the tree ignored SIGKILL (`runner.py:1277`). `cgroup_kill` returns
  False on any error of its write (`memlimit.py:274`; the file is not there before
  Linux 5.14), and its callers do not look (`runner.py:1150`): again only the group
  is left to kill. `Beyond` is both of these exceptions in `TimeoutKillsTree`, with
  processes that left the group by `setsid`.
- A command whose leader ends while redirected background processes go on is
  over for the Runner: result and slot are returned, the rest of the tree lives.
  `ChildrenAccounted` is about leaders for this reason.
- RLIMIT_CPU has equal soft and hard limits (`runner.py:737`), so the kernel sends
  SIGKILL: `cpu_exceeded` is never reported, the reason is `rss_exceeded` or
  `oom`, against `exec_tools.py:107`, "dies via SIGXCPU". `src/README.md:393` has
  SIGKILL.
- The monitor without a cgroup ends when any process of the tree vanishes between
  listing and reading (`runner.py:851`), and nobody watches the memory from then on:
  the exception in `RssOverrunEnds`.
- The baseline of the OOM counter is read after the start. A kill before that is
  in the baseline; in a sandbox, where bwrap turns the signal into an exit code,
  it is not reported (`MemoryKillReported` asks for a rise). The monitor publishes
  `_resolved_scope_dir` only once `execute` is done, so the fallback at
  `runner.py:1131` never finds it.
- `exec_tools.py:81` and `inspector.py:47` count workers and cores by the weight, but
  the servers leave `weight_cap` at one (`coordination.py:128`): a call of weight
  2 holds one slot, with two cores and two workers.

*Slots, scope, paths*

- `os.open` of a slot file stands before the `try` whose handler gives back what
  was taken (`coordination.py:196`, `:200`). When it fails (no descriptor left, file
  removed) in the middle of a partial set, nobody closes the descriptors in
  `acquired`, which are plain numbers: these slots are gone for every process until
  this one dies, against `coordination.py:203`, "Unexpected error; release partial
  and propagate". It takes a `weight_cap` above one. `LocksAreAccounted` bounds what
  each such error strands and allows nothing else to.
- Two callers of weight 2 in processes with two slots each lock one slot, find
  the other taken, give theirs back and sleep the same half second
  (`coordination.py:225`); nothing but chance in their timing ends this, against
  `coordination.py:175`, "callers eventually make progress". `Colliding` is this
  exception in `CallersProgress`. The servers leave `weight_cap` at one.
- On a semaphore, a call takes its permits one at a time and keeps those it has:
  two calls of weight 2 on two permits can hold one each and wait for ever. This
  concerns the Runner's own semaphore (`runner.py:989`), for which no `weight_cap`
  applies, as well as the coordinator's fallback (`coordination.py:185`), against
  the same sentence at `coordination.py:175`. `Standstill` is this exception in
  `EveryCallEnds`. Two calls woken together suffice: when two light commands end at
  once, each of two waiting heavy calls gets one permit.
- A caller that sleeps keeps no place in a queue, so one that needs several
  slots can be overtaken by light ones for ever. `CallersProgress` is about the
  callers together.
- A save that raises (`fs/state.py:278`) has already narrowed the scope in memory
  and skips `on_change`: file writes are narrow, commands keep the wide mounts,
  against `combined/server.py:16`. `ScopeState` with `MaxErrors = 1` violates
  `LayersNarrowTogether`, which is checked without errors.
- `HARES_SANDBOX_RW` defaults to the server's directory (`sandbox.py:146`), which is
  bound read-write whatever the scope and `--read-only`. The ceiling defaults to the
  same directory (`cli.py:247`): with both defaults, neither a narrowed scope nor
  `--read-only` (`src/README.md:239`) narrows what commands may write. `LayersAgree`
  excepts `ExtraRw`, which is empty in the run.
- The working directory of a command is bound read-write when no other bind has it
  (`sandbox.py:276`), outside scope and ceiling too. `LayersAgree` is said of
  commands without one.
- A grant inside the ceiling widens commands past the scope and file
  operations not at all; a `.git` below a granted directory, and a system directory
  below a granted one or the ceiling (with `HARES_DISALLOW_SYSTEM_DIRS`), are
  read-write for commands only. `GrantedInside`, `Git` and `SystemDirs` are these
  exceptions.
- A *once* grant for writing serves no file operation (`fs/operations.py:122`, `:189`):
  `_resolve` consumes it, the scope check after it asks for it again and refuses,
  against `src/README.md:375`. `Write` has both steps.
- Relative entries of the deny lists are resolved against the ceiling, which is
  the Runner's own after the client's roots were applied (`runner.py:462`), and for file
  operations the first one. The model takes absolute entries.
- The Runner clamps a weight to `max_concurrent` and the coordinator again to
  `weight_cap` (`coordination.py:179`); cores are claimed for the first. Cores
  stay exclusive only while the two agree. `CapIsGlobal` compares with the second
  and `CoresExclusive` is checked where they are the same, so no property catches
  the difference.
- An empty list of paths is described as allowing nothing (`fs/tools.py:85`,
  `src/README.md:541`) and
  treated as no restriction (`fs/operations.py:198`).
- `restrict_paths` creates directories (`fs/tools.py:177`) before it compares
  `expected_seq` (`fs/tools.py:200`): a refused swap has left them behind.
- After a failed save (`fs/state.py:278`) the number in memory is ahead of the
  file. It can be reported by `get_active_paths`, and a restart takes it back.
  `OneKindOfCrash` excludes errors for this reason.
- The pool entry of a dead process whose pid comes back as a program that is not
  Hares stays until that program ends.

*Cluster*

- A SLURM job that is killed leaves no exit code file and is UNKWN at every poll
  until the timeout, a day by default (`cluster/slurm.py:280`), against
  `cluster/server.py:223`; `Unanswerable` is this exception in `WaitsEnd`.
- LSF treats a job that `bjobs` no longer knows as DONE. A killed job then has
  exit code 0. A task of an array that was killed leaves no file and is missing from
  `tasks`; the array may be DONE, against `cluster/base.py:353`. `Untold` is
  these exceptions in `ResultIsTrue`.
- A status command that fails is taken for "job gone" whenever its output has the
  words "not found" in it (`cluster/lsf.py:175`, `cluster/slurm.py:225`), as in a
  host or a command not found: LSF then reports a running job DONE with code 0,
  SLURM a running array, against `cluster/base.py:613`, "Wait for all listed jobs to
  reach a terminal state". `PollMisread` is that answer; `ResultIsTrue` and
  `EvictedWereOver` except the jobs in `misled`, and no others.
- A status that was polled before a cancel is written after it
  (`cluster/base.py:696`): the record of a cancelled job is live again until the
  next poll. No property is about it: results and evictions are not wrong for it.
- A SLURM job evicted while a wait has it pending is polled until the timeout,
  and a wait on LSF returns without an entry for it, which
  `execute_blocking` (`cluster/base.py:796`) reads with `[]`.

*Policy, audit log, inspector*

- With `HARES_MEM_LIMIT_MAX_MB` below the normal cap, the dialog shows the former and
  the run gets the latter (`runner.py:271`), against `policy.py:315`;
  `OnlyApprovedRuns` allows the normal cap.
- A result with a file name that is not UTF-8 raises UnicodeEncodeError in the
  log, which is no OSError: the call fails, against `audit.py:240`. This is
  `ReturnedUnencodable`.
- The inspector leaves `make --jobs`, `cargo -j 8` and `pytest -n logical` alone,
  clamps `tail -n 20` when pytest is on the line, and leaves a line it cannot split
  as it is. In `pytest -n -nauto` it passes over the second option as the value of
  the first, and a count that is no number, as in `make -jfoo`, is left to the
  tool. `Spelled` names the forms that `WorkersFitWeight` is said of. The policy
  sees the command before it is rewritten.

## 4. Fairness

| Module | Assumed | Why |
|---|---|---|
| `FlockSlots` | `WF(SectionStep(t))`, `SF(Wake(t))` and `SF(Finish(t))` for each call, `WF(ProbeEnds(s))`; none for calling, cancelling, errors, dying or restarting | A section runs on once begun. A call whose sleep is over, or whose command has ended, gets its turn in FIFO order, but is not enabled while a sibling is on the loop (`OnLoop`): hence strong fairness, for being served and not for finding a slot. Commands have a timeout; a probe unlocks in its next line. |
| `CorePool` | `SF(Step(p))` | A blocking `flock` wakes waiters; sections are short, lives finitely many. |
| `Runner` | `WF(Progress(t))`, not for `ChildEnds`, `LeaderEnds`, cancelling or calling | Timeouts of `communicate` and drain are timers; the command itself may never end. |
| `ClusterJobs` | `WF(Apply(w))`, `SF(Answer(w, j))`; none for the deadline, the calls or the cluster | A status command that can answer again and again does so in the end, whatever polls fail in between. |
| `CommandWatch` | `SF(Reap)`, `WF(Monitor)`, `SF(Execute)`; none for the command, the kernel's kills or the timeout | The loop serves ready coroutines, but each sum of the monitor keeps the others out for a while. A drain has a timer. |
| `ToolCalls` | `SF(Start(c))`, `WF(Finish(c))`, `WF(LogShielded(c))`; none for users and clients | The semaphore is FIFO; with `flock` slots, of which each call wants one, a call polls for them, and that one who polls is not passed over for ever is assumed. A command ends at the latest with its timeout (`CallAnswers`). |
| `ScopeState`, `PathAccess` | none | Their properties are safety. |

No fairness of `FlockSlots` says that a call finds free slots when it wakes.
`CallersProgress` is therefore not about each caller: with an endless stream of
calls any of them can be overtaken for ever, since it keeps nothing while it
sleeps. It says that some caller gets on again and again, unless two heavy ones
collide again and again or slots are stranded.

## 5. Proofs

Every invariant, action property and refinement of the passing runs is a theorem.
Each holds for all values of the constants that satisfy the module's assumptions:
any number of processes, calls, jobs, paths and faults, where the runs have two or
three.

| Theorem | States | Assumed besides |
|---|---|---|
| `FlockSlotsProofs!TypeCorrect` | `[]TypeOK` | |
| `FlockSlotsProofs!LocksAccounted` | `[]LocksAreAccounted` | |
| `FlockSlotsProofs!CapHolds` | `[]CapIsGlobal` | |
| `FlockSlotsProofs!FlockRefinesLease` | `ImplementsLease` | |
| `CorePoolProofs!TypeCorrect` | `[]TypeOK` | |
| `CorePoolProofs!ClaimsNeverOverlap` | `[]ClaimsDisjoint` | |
| `CorePoolProofs!ClaimsNeverLost` | `[]ClaimRegistered` | |
| `RunnerProofs!TypeCorrect` | `[]TypeOK` | |
| `RunnerProofs!PermitsKept` | `[]PermitsConserved` | `CountPartial` |
| `RunnerProofs!NoChildUnaccounted` | `[]ChildrenAccounted` | |
| `RunnerProofs!CoresNeverShared` | `[]CoresExclusive` | `WeightCap >= MaxConcurrent`, `NumCores >= MaxConcurrent` |
| `RunnerProofs!CallsWithinCap` | `[]CapOfCalls` | |
| `ScopeStateProofs!TypeCorrect` | `[]TypeOK` | |
| `ScopeStateProofs!ReplySaved` | `[]ReplyIsSaved` | |
| `ScopeStateProofs!CrashesSurvived` | `[]ScopeSurvivesCrashes` | |
| `ScopeStateProofs!NeverRolledBack` | `[]ObservedNeverRolledBack` | no errors or rotations, one kind of crash |
| `ScopeStateProofs!SwapsAreSafe` | `[]SwapSeesWhatItReplaces` | the same |
| `ScopeStateProofs!LayersTogether` | `[]LayersNarrowTogether` | no errors |
| `ScopeStateProofs!StoreIsRegister` | `ImplementsRegister` | no errors, rotations or losses of power |
| `ClusterJobsProofs!TypeCorrect` | `[]TypeOK` | |
| `ClusterJobsProofs!ResultsAlwaysTrue` | `[]ResultIsTrue` | |
| `ClusterJobsProofs!WaitsAnswer` | `[]AnsweredOrEvicted` | |
| `ClusterJobsProofs!EvictsOnlyOver` | `EvictedWereOver` | |
| `PathAccessProofs!TypeCorrect` | `[]TypeOK` | |
| `PathAccessProofs!LayersAlwaysAgree` | `[]LayersAgree` | |
| `PathAccessProofs!SpentAlwaysMounted` | `SpentGrantsAreMounted` | |
| `PathAccessProofs!GrantsArePermissions` | `ImplementsPermission` | |
| `CommandWatchProofs!TypeCorrect` | `[]TypeOK` | |
| `CommandWatchProofs!TimeoutKills` | `[]TimeoutKillsTree` | |
| `CommandWatchProofs!MemoryKillsReported` | `[]MemoryKillReported` | |
| `ToolCallsProofs!TypeCorrect` | `[]TypeOK` | |
| `ToolCallsProofs!GatesHold` | `[]OnlyApprovedRuns` | |
| `ToolCallsProofs!EveryCallAudited` | `[]AuditedOnce` | |
| `ToolCallsProofs!WorkersBounded` | `[]WorkersFitWeight` | |

### 5.1 Assumptions

The named assumptions of a module (`ConstantsAssumption`; in `ToolCalls`
`CommandsAssumption`, `HostsAssumption`, `SizesAssumption` and
`WeightsAssumption`) give the constants their types and keep markers apart from
values: `None` in `CommandWatch` is no count, reason or signal
(`NoneAssumption`), and the word `auto` is no number (`WordsAssumption` of
`Inspector`). TLC evaluates them in every run.

The last column of the table:

- `CountPartial`. The Runner's own semaphore loop counts each permit as it takes
  it. The coordinator's loop counts the whole weight at the end, and one that is
  cancelled half way loses what it took (section 3 on `weight_cap`).
- `WeightCap >= MaxConcurrent` is the Runner with its own semaphore, where nothing
  clamps the slots below the cores. `NumCores >= MaxConcurrent` is what makes
  exclusive cores possible at all: with fewer, `_claim_cores` falls back to cores
  in use, by design.
- The bounds of `ScopeState` name the faults that can happen. With the excluded
  ones the statement is false of the code: a failed write leaves memory ahead of the
  file and `on_change` uncalled (section 3), another secret makes both files
  unreadable, and a death followed by a loss of power takes a reply back
  (`scope_death_power`).
  `ScopeSurvivesCrashes` and `ReplyIsSaved` have the condition inside and need no
  assumption. All the assumptions hold in a run of the module.

### 5.2 Arguments

An invariant is seldom inductive as it stands. Each module strengthens it by what
follows, and has a lemma or a step for every action. TLC checked each
strengthening on the runs' instances first.

*Slots.* `CapIsGlobal` is not inductive. Disjointness comes from `LocksKnown`, the
first half of `LocksAreAccounted`: the descriptors a call knows of are the locks
the kernel holds for it, and a lock has one holder. The size comes from `Collected`, which says
what a call may have: slots its process looks at, never more of them than it
wants while it scans, and exactly as many when it runs. The invariant is
`TypeOK /\ LocksAreAccounted /\ Collected`; a failing open strands less than a
weight, since a call that opens the next file has less than it wants. The refinement maps `Granted` to the
grant, the first `Finish` or `Crash` to a return, and all else, `doctor`'s probes
included, to stuttering; `Crash` returns the sets of several calls in one step,
which `SlotLease` allows.

*Core pool.* `ClaimsDisjoint` and `ClaimRegistered` rest on each other: a choice
is disjoint from the claims in the dict read, and the dict is complete because
nobody writes between read and replace. The invariant `IInv` adds to them:
`LockExclusive` (one process in the section), `PidsDiffer` (living processes
have different pids), `ClaimPhases` (where a claim exists), `DictComplete` (a
dict in use has every live claim) and `ChoiceFree` (what is about to be written
is free).

*Runner.* `Supply` counts permits: free, in flight, and the cardinality of
`Permits(held)`. It is kept because every action moves permits between the three
(`HandedMoves` for wake-ups, `PermitsExcept` for a change of one call's count),
which needs that only waiting calls are woken and that the queue has each of them
once (`Waiters`). `Weights` says what a call holds in each phase: a
waiting call always less than its weight, so that one more permit never exceeds
it. `Trees` follows the child, with what a dead leader leaves behind. Where permits are not counted one by one, `Supply`
still says that none is made up, which is all that `CallsWithinCap` needs: the
commands that hold slots weigh no more than the cap together, which is the part
of `runner.py:4` that the code keeps. For cores, `CoresInv` counts the cores in
use as those pinned; with the permits bounded by the cap, enough of them are free
and `FirstOf` finds as many as are asked for (`FirstOfSize`).

*Scope.* `Files` holds whatever fails: a save works on an inode that is not the
state file, and what it renames is the scope in memory. That alone gives
`ReplyIsSaved`. `Saves` holds as long as no call fails and the secret stays: a
restart would load the scope in memory, or its predecessor until the tmp file is
whole. `Seen` says that no reply is ahead of what a restart would load, and that a
scope being saved has a number nobody has seen. For losses of power the same must
hold of every directory that may survive one: `Spread` and `Settled` say so until
the tmp file is written, and `Synced` afterwards, since the tmp file is synced
before it is renamed. Deaths break these (a recovered tmp file is renamed
without a sync), so the three are said only where nobody died. In the
refinement the register is `Recovered`; a replacement happens at the step that
makes the tmp file whole, and everything else stutters.

*Cluster jobs.* What a wait knows is old: other waits and cancels may have polled,
recorded or evicted since. `Awaited` says what its data may still be about (jobs
with a record, or that lost it), `AnswersTrue` that a terminal answer stays true
once it was true, `Statuses` that a record is terminal only for a job that is
over, and `ResultsTrue` is the property for entries as well as records. All three
except the jobs in `misled`, a set that only grows.

*Path access.* `GrantsApproved` is the heart of the refinement: a grant in the
store was approved, for a target that is allowed, and if `once` has served
nobody. (`Ages` is only there for the type of a grant's age, the number of those
approved before it.) `LayersAgree` needs no history: `Agreement` proves it from the types, the tree's transitivity and
`GrantsApproved`, for every path and each of the two layers.

*Command.* `Tree` has what kills leave behind: a sandbox is quiet once its leader
is gone, a killed group does not grow again, a removed scope is empty. `Known`
relates what the coroutines have read to what exists, `Status` and `Reported`
follow the cause of an end to the reply, `Expired` follows a timeout to the last
kill, with the writes to `cgroup.kill` that failed.

*Tool calls.* Gates and audit log are nearly inductive: `Dialogs` adds that an open
dialog belongs to a command that no rule denies, and shows what it will have;
`Logging`, inside `AuditInv`, what has been written before the call is over. For
`WorkersFitWeight`, `Inspected` says that what a shell gets is
`InspectCommand` of what the client sent, and the rest is about that function, for
lines of any length. Which words the pytest loop skips is a recursive function of
the line. That it exists, for one, is proved by way of a least length for which it does not
(`LeastNat`, from `FS_StrictSubsetOrderingWellFounded` and `WFMin`).

### 5.3 What the proofs found in the models

- In `Runner`, one release used to wake every waiter that free permits allowed.
  `Supply` held; the step for `Finally` did not go through as the code has
  it, since `release` wakes one waiter for each permit. `Settle` now takes the number.
- `WorkersFitWeight` spoke of lines such as `pytest -n -nauto`, which the
  inspector does not limit and the run did not contain. `Spelled` excludes them, and
  section 3 lists them.
- `Tree` in `CommandWatch` was not inductive: nothing said that the members of a
  group exist. The states it allowed besides cannot be reached.
- `OpenTmp` in `ScopeState` chose a free inode without asking whether there is one.
- The records of `ClusterJobs` were a sequence whose order was always that of the
  jobs' numbers; they are a set now.

### 5.4 Only model-checked

Liveness, because fairness and `ENABLED` are beyond the prover:
`CallersProgress`, `Starts`, `EveryCallEnds`, `WaitsEnd`, `RssOverrunEnds`,
`CallAnswers` and `OthersProceed`. The properties of the runs that expect a
violation are false, and TLC shows that.


## 6. Abstractions

- `FlockSlots`, `CorePool`: all processes have the same affinity mask; `flock` and
  `os.kill(pid, 0)` are taken to do what the kernel documents; `doctor` is one
  process that looks at `MaxProbes` free slots.
- `Runner`: output, limits and kill reasons are left out (they are in
  `CommandWatch`); a child killed for memory ends like any other. The mounts are in
  `PathAccess`, and those of the scope in `ScopeState`.
- `FlockSlots`: `flock` on an open file takes effect at once; of the errors of
  `os.open`, `MaxOpenErrors` bounds those of each life of a process.
- `ScopeState`: paths are disjoint subtrees of the ceiling; a signature fails only
  because the secret is another one, never because a file was tampered with. A file
is whole, torn or cannot be read; bytes that are no JSON object are torn.
  `MaxSeq` bounds replacements. `OpenTmp` waits for an inode that is in no
  directory; the runs have enough of them that it never waits, and for the
  proofs `Inode` may be infinite.
- `ClusterJobs`: PEND and RUN are one status (no code tells them apart);
  acceptance and record of a job are one step; of the tasks of an array the set of
  their fates is kept, and an exit code file is there as soon as its task is over
and not before, so that the roll-up of an array that was misread to be over finds none.
- `PathAccess`: paths exist and have no links; the deny lists are absolute paths; a
  request that is cancelled is one that is declined. `Scopes`, `ClientRoots` and the
  requests bound what callers ask for. `uses` stops at 2, which stands for more.
- `CommandWatch`: memory is "large" or not, and `MemCap` large processes fit; at most
  one process is wedged at a time, and `MaxOom` bounds OOM kills. A pid is not
  reused for another group between the end of a leader and `killpg`. Nothing is followed
  after the reply.
- `ToolCalls`, `Inspector`: a command is a sequence of words, a pattern matches a
  word, and a word is either quoted or interpreted by the shell as a whole.
  Wording, redaction and the signature of log lines are left out.

## 7. Not modelled, and the plan

What is left to model, in this order:

1. Path resolution over a small tree with links: traversal and containment of
   arguments that are not resolved yet (`path_safety.py:149`, `:439`), for
   `PathAccess` to use.
2. Files tampered with, and a verifier outside the process, in `ScopeState`.
3. The probe for a usable cgroup (`memlimit.py`) with its cache.

Composition: the scope of `ScopeState`, with its failing saves, under the mounts of
`PathAccess`.

Proofs: each of these comes with its theorems. Of what is modelled now, two
statements are worth having that no module makes yet: a `SlotLease` that
`Runner` implements on its semaphore as `FlockSlots` does on its files, so that
both backends are shown to promise the same; and `CallsWithinCap` carried from
slots to process trees under `ChildrenAccounted`.

Left out for good: the parsing of rules, options and environment variables (text),
`config.py`, `cli.py` and `doctor.py` but for its probe (no state that outlives a
call), `net_policy.py` (validation and text of rules; its one effect on a
command's life, the handshake, is in `Runner`), content and listing of files
(plain I/O).
