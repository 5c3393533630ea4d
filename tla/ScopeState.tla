----------------------------- MODULE ScopeState -----------------------------
(***************************************************************************)
(* The active scope of an instance with a state file: the tools            *)
(* restrict_paths and get_active_paths (fs/tools.py), ScopeStateStore with *)
(* its write-ahead tmp file (fs/state.py), and the Runner that the         *)
(* combined server keeps in step with it (combined/server.py).             *)
(*                                                                         *)
(* A tool call has no await between its checks and its reply, so calls do  *)
(* not interleave; what comes between two steps of a save is the death of  *)
(* the process, the loss of power, or an I/O error.                        *)
(*                                                                         *)
(* The file system is the external part.  The page cache is what programs  *)
(* read; a death of the process leaves it alone.  Power loss leaves, of an *)
(* inode not synced since its last write, the old content, the new one or  *)
(* a torn one; and of the directory, any version since its last sync.      *)
(***************************************************************************)
EXTENDS Integers, FiniteSets

CONSTANTS
    Agent,         \* callers of the two tools
    Path,          \* disjoint subtrees of the ceiling
    Inode,         \* inodes for the state file, its tmp file and old versions
    MaxSeq,        \* bound: successful calls of set()
    MaxDeaths,     \* bound: deaths of the process
    MaxPowerLoss,  \* bound: losses of power
    MaxErrors,     \* bound: I/O errors
    MaxRotations,  \* bound: starts with another secret
    None,          \* no inode; no expected_seq
    Torn           \* content that nothing can be loaded from: empty, cut
                   \* off, unsynced, or signed with another secret

ASSUME ConstantsAssumption ==
    /\ {MaxSeq, MaxDeaths, MaxPowerLoss, MaxErrors, MaxRotations}
           \subseteq Nat
    /\ None \notin Inode \cup Nat
    /\ Torn \notin [seq : Nat, paths : SUBSET Path]

VARIABLES
    mem,       \* ScopeStateStore._scope
    runner,    \* Runner._active_scope_paths, {} for None
    pc,        \* where the save of a restrict call is
    caller,    \* the agent whose call is being served
    view,      \* view[a]: the scope in the last reply to agent a
    observed,  \* the highest sequence number in any reply
    cache,     \* content of each inode as programs read it
    disk,      \* content of each inode on stable storage
    dir,       \* the directory: inodes of the state file and the tmp file
    durable,   \* the versions of dir that a power loss may leave
    faults     \* deaths, power losses, errors and rotations so far

vars == <<mem, runner, pc, caller, view, observed,
          cache, disk, dir, durable, faults>>

files == <<cache, disk, dir, durable>>
replies == <<view, observed>>

-----------------------------------------------------------------------------

Scope == [seq : 0 .. MaxSeq, paths : SUBSET Path]
EmptyScope == [seq |-> 0, paths |-> {}]

Dir == [main : Inode \cup {None}, wal : Inode \cup {None}]

Phase == {"idle", "open", "write", "fsync", "rename", "dirsync", "notify",
          "down"}

Goto(phase) == pc' = phase

Later(m, n) == IF m > n THEN m ELSE n

Init ==
    /\ mem = EmptyScope
    /\ runner = {}
    /\ pc = "idle"
    /\ caller \in Agent
    /\ view = [a \in Agent |-> EmptyScope]
    /\ observed = 0
    /\ cache = [i \in Inode |-> Torn]
    /\ disk = [i \in Inode |-> Torn]
    /\ dir = [main |-> None, wal |-> None]
    /\ durable = {dir}
    /\ faults = [death |-> 0, power |-> 0, error |-> 0, rotation |-> 0]

\* What fs writes reach (_ensure_under_active_scope), and what the sandbox
\* of a command takes from the scope as read-write binds (set_active_scope,
\* _effective_sandbox): an empty list narrows nothing.
FsWritable(paths) == IF paths = {} THEN Path ELSE paths
Mounted(paths) == IF paths = {} THEN Path ELSE paths

-----------------------------------------------------------------------------
\* The tools.

\* _get_active.
GetActivePaths(a) ==
    /\ pc = "idle"
    /\ view' = [view EXCEPT ![a] = mem]
    /\ observed' = Later(mem.seq, observed)
    /\ UNCHANGED <<mem, runner, pc, caller, files, faults>>

\* Mutant of RestrictPaths: a call that only narrows keeps the number.
RestrictSameSeq(a, P, expected) ==
    /\ pc = "idle"
    /\ expected \in {None, view[a].seq}
    /\ expected # None => expected = mem.seq
    /\ mem.seq < MaxSeq
    /\ mem' = [seq |-> IF P \subseteq mem.paths THEN mem.seq ELSE mem.seq + 1,
               paths |-> P]
    /\ caller' = a
    /\ Goto("open")
    /\ UNCHANGED <<runner, replies, files, faults>>

\* _restrict up to the save: compare and assign.  (The
\* directories made on the way are not part of the state here.)
RestrictPaths(a, P, expected) ==
    /\ pc = "idle"
    /\ expected \in {None, view[a].seq}
    /\ expected # None => expected = mem.seq
    /\ mem.seq < MaxSeq
    /\ mem' = [seq |-> mem.seq + 1, paths |-> P]
    /\ caller' = a
    /\ Goto("open")
    /\ UNCHANGED <<runner, replies, files, faults>>

\* ScopeSeqMismatch: the scope stays, and the reply has its number.
RestrictMismatch(a) ==
    /\ pc = "idle"
    /\ view[a].seq # mem.seq
    /\ observed' = Later(mem.seq, observed)
    /\ UNCHANGED <<mem, runner, pc, caller, view, files, faults>>

\* on_change pushes the scope into the Runner, and the call replies.
Notify ==
    /\ pc = "notify"
    /\ runner' = mem.paths
    /\ view' = [view EXCEPT ![caller] = mem]
    /\ observed' = Later(mem.seq, observed)
    /\ Goto("idle")
    /\ UNCHANGED <<mem, caller, files, faults>>

-----------------------------------------------------------------------------
\* _save: tmp.write_text, fsync, os.replace, fsync of the directory.

InUse == UNION {{d.main, d.wal} : d \in durable \cup {dir}}
Fresh == CHOOSE i \in Inode : i \notin InUse

SetDir(d) ==
    /\ dir' = d
    /\ durable' = durable \cup {d}

\* Mutant of OpenTmp: the state file is written in place.
OpenInPlace ==
    /\ pc = "open"
    /\ LET i == IF dir.main = None THEN Fresh ELSE dir.main
       IN  /\ cache' = [cache EXCEPT ![i] = Torn]
           /\ SetDir([main |-> i, wal |-> i])
    /\ Goto("write")
    /\ UNCHANGED <<mem, runner, caller, replies, disk, faults>>

\* open(tmp, "w"): truncate the tmp file or create it, while there are inodes.
OpenTmp ==
    /\ pc = "open"
    /\ dir.wal = None => \E i \in Inode : i \notin InUse
    /\ LET i == IF dir.wal = None THEN Fresh ELSE dir.wal
       IN  /\ cache' = [cache EXCEPT ![i] = Torn]
           /\ disk' = IF dir.wal = None THEN [disk EXCEPT ![i] = Torn] ELSE disk
           /\ SetDir([dir EXCEPT !.wal = i])
    /\ Goto("write")
    /\ UNCHANGED <<mem, runner, caller, replies, faults>>

WriteTmp ==
    /\ pc = "write"
    /\ cache' = [cache EXCEPT ![dir.wal] = mem]
    /\ Goto("fsync")
    /\ UNCHANGED <<mem, runner, caller, replies, disk, dir, durable,
                   faults>>

FsyncTmp ==
    /\ pc = "fsync"
    /\ disk' = [disk EXCEPT ![dir.wal] = cache[dir.wal]]
    /\ Goto("rename")
    /\ UNCHANGED <<mem, runner, caller, replies, cache, dir, durable,
                   faults>>

Rename ==
    /\ pc = "rename"
    /\ SetDir([main |-> dir.wal, wal |-> None])
    /\ Goto("dirsync")
    /\ UNCHANGED <<mem, runner, caller, replies, cache, disk, faults>>

\* Mutant of SyncDir: no fsync of the directory.
SyncDirSkipped ==
    /\ pc = "dirsync"
    /\ Goto("notify")
    /\ UNCHANGED <<mem, runner, caller, replies, files, faults>>

SyncDir ==
    /\ pc = "dirsync"
    /\ durable' = {dir}
    /\ Goto("notify")
    /\ UNCHANGED <<mem, runner, caller, replies, cache, disk, dir,
                   faults>>

IOError ==
    /\ faults.error < MaxErrors
    /\ faults' = [faults EXCEPT !.error = @ + 1]

\* Mutant of SaveFails: the error is swallowed and the call replies.
SaveFailsQuietly ==
    /\ pc \in {"open", "write", "rename"}
    /\ IOError
    /\ Goto("notify")
    /\ UNCHANGED <<mem, runner, caller, replies, files>>

\* ENOSPC, EACCES, EIO in write_text or os.replace: _save raises, set() and
\* the call with it; mem is assigned already and on_change is not reached.
SaveFails ==
    /\ pc \in {"open", "write", "rename"}
    /\ IOError
    /\ Goto("idle")
    /\ UNCHANGED <<mem, runner, caller, replies, files>>

\* A failed fsync, of the tmp file or of the directory, is ignored.
SyncFails ==
    /\ IOError
    /\ \/ pc = "fsync" /\ Goto("rename")
       \/ pc = "dirsync" /\ Goto("notify")
    /\ UNCHANGED <<mem, runner, caller, replies, files>>

-----------------------------------------------------------------------------
\* Faults, and the restart.

\* Nothing of the process is left; the page cache is.
Die ==
    /\ pc # "down"
    /\ faults.death < MaxDeaths
    /\ faults' = [faults EXCEPT !.death = @ + 1]
    /\ Goto("down")
    /\ UNCHANGED <<mem, runner, caller, replies, files>>

Unsynced == {i \in Inode : cache[i] # disk[i]}

\* Of the unsynced inodes some come back as written, some torn.
PowerLoss ==
    /\ faults.power < MaxPowerLoss
    /\ faults' = [faults EXCEPT !.power = @ + 1]
    /\ Goto("down")
    /\ \E new, torn \in SUBSET Unsynced :
        /\ cache' = [i \in Inode |-> IF i \in torn THEN Torn
                                   ELSE IF i \in new THEN cache[i] ELSE disk[i]]
        /\ disk' = cache'
    /\ dir' \in durable
    /\ durable' = {dir'}
    /\ UNCHANGED <<mem, runner, caller, replies>>

\* The next process has another secret: HARES_STATE_HMAC_SECRET is changed, or
\* is not set, so that each process makes its own.  What was signed before is
\* of no use to it, on disk or in the page cache.
RotateSecret ==
    /\ pc = "down"
    /\ faults.rotation < MaxRotations
    /\ faults' = [faults EXCEPT !.rotation = @ + 1]
    /\ cache' = [i \in Inode |-> Torn]
    /\ disk' = [i \in Inode |-> Torn]
    /\ UNCHANGED <<mem, runner, pc, caller, replies, dir, durable>>

\* _try_load_one: the scope in a file, or Torn for nothing that can be used.
\* (The files are ASCII, and no beginning of a JSON object is a JSON value, so
\* what a crash leaves of one is always met by the handler of JSONDecodeError.)
Load(i) == IF i = None THEN Torn ELSE cache[i]

\* What was loaded from the tmp file is whole, and newer than what was loaded
\* from the state file.
Newer(wal, main) == wal # Torn /\ (main = Torn \/ wal.seq > main.seq)

WalWins == Newer(Load(dir.wal), Load(dir.main))

\* Mutant of Recovered: an empty store starts before the first number.
RecoveredBeforeFirst ==
    IF WalWins THEN Load(dir.wal)
    ELSE IF Load(dir.main) # Torn THEN Load(dir.main)
    ELSE [seq |-> -1, paths |-> {}]

\* What _load_or_default returns.
Recovered ==
    IF WalWins THEN Load(dir.wal)
    ELSE IF Load(dir.main) # Torn THEN Load(dir.main)
    ELSE EmptyScope

\* Mutant of Start: the Runner does not get the loaded scope.
StartRunnerUnset ==
    /\ pc = "down"
    /\ mem' = Recovered
    /\ runner' = {}
    /\ SetDir([main |-> IF WalWins THEN dir.wal ELSE dir.main, wal |-> None])
    /\ Goto("idle")
    /\ UNCHANGED <<caller, replies, cache, disk, faults>>

\* Mutant of Start: the tmp file is loaded and removed, not committed.
StartForgetsCommit ==
    /\ pc = "down"
    /\ mem' = Recovered
    /\ runner' = Recovered.paths
    /\ SetDir([main |-> dir.main, wal |-> None])
    /\ Goto("idle")
    /\ UNCHANGED <<caller, replies, cache, disk, faults>>

\* A start loads the scope, commits or removes the tmp file, and gives the
\* Runner its first scope.
Start ==
    /\ pc = "down"
    /\ mem' = Recovered
    /\ runner' = Recovered.paths
    /\ SetDir([main |-> IF WalWins THEN dir.wal ELSE dir.main, wal |-> None])
    /\ Goto("idle")
    /\ UNCHANGED <<caller, replies, cache, disk, faults>>

\* The rename or the unlink fails: logged, and the tmp file stays.
StartFails ==
    /\ pc = "down"
    /\ dir.wal # None
    /\ IOError
    /\ mem' = Recovered
    /\ runner' = Recovered.paths
    /\ Goto("idle")
    /\ UNCHANGED <<caller, replies, files>>

\* EIO, EACCES, EMFILE on reading a file: it counts as one that cannot be
\* used, though it may be whole.
StartUnread ==
    /\ pc = "down"
    /\ IOError
    /\ \E unread \in SUBSET ({dir.main, dir.wal} \ {None}) \ {{}} :
        LET Read(i) == IF i \in unread THEN Torn ELSE Load(i)
            main == Read(dir.main)
            wal == Read(dir.wal)
        IN  /\ mem' = IF Newer(wal, main) THEN wal
                      ELSE IF main # Torn THEN main ELSE EmptyScope
            /\ SetDir([main |-> IF Newer(wal, main) THEN dir.wal ELSE dir.main,
                       wal |-> None])
    /\ runner' = mem'.paths
    /\ Goto("idle")
    /\ UNCHANGED <<caller, replies, cache, disk>>

-----------------------------------------------------------------------------

Next ==
    \/ \E a \in Agent : GetActivePaths(a)
    \/ \E a \in Agent : RestrictMismatch(a)
    \/ \E a \in Agent, P \in SUBSET Path, expected \in 0 .. MaxSeq \cup {None} :
        RestrictPaths(a, P, expected)
    \/ OpenTmp \/ WriteTmp \/ FsyncTmp \/ Rename \/ SyncDir \/ Notify
    \/ SaveFails \/ SyncFails \/ Die \/ PowerLoss \/ RotateSecret
    \/ Start \/ StartFails \/ StartUnread

Spec == Init /\ [][Next]_vars

-----------------------------------------------------------------------------

TypeOK ==
    /\ mem \in Scope
    /\ runner \in SUBSET Path
    /\ pc \in Phase
    /\ caller \in Agent
    /\ view \in [Agent -> Scope]
    /\ observed \in 0 .. MaxSeq
    /\ cache \in [Inode -> Scope \cup {Torn}]
    /\ disk \in [Inode -> Scope \cup {Torn}]
    /\ dir \in Dir
    /\ durable \in SUBSET Dir
    /\ faults \in [death : 0 .. MaxDeaths, power : 0 .. MaxPowerLoss,
                   error : 0 .. MaxErrors, rotation : 0 .. MaxRotations]

\* fs/state.py:36, "Closes the round-3 false-positive-replay window where a
\* crash mid-write rolled the seq back below what the external auditor last
\* observed": a running instance never reports a lower number than one that
\* was in a reply before, whatever restarts lie in between.
ObservedNeverRolledBack == pc = "idle" => mem.seq >= observed

\* fs/tools.py:95, "Lets a caller race-safely tighten only if no other agent
\* has changed the scope since the caller's last get_active_paths read": a
\* sequence number stands for one scope, so a compare-and-swap that succeeds
\* replaces exactly the scope its caller has seen, also across restarts.
SwapSeesWhatItReplaces ==
    pc = "idle" => \A a \in Agent : view[a].seq = mem.seq => view[a] = mem

\* Neither deaths of the process alone nor losses of power alone, at any step
\* of a save or of a start, take a reported number back or reuse it.
OneKindOfCrash ==
    /\ faults.error = 0 /\ faults.rotation = 0
    /\ faults.death = 0 \/ faults.power = 0

ScopeSurvivesCrashes ==
    OneKindOfCrash => ObservedNeverRolledBack /\ SwapSeesWhatItReplaces

\* combined/server.py:16, "BOTH layers narrow together": between two calls,
\* fs writes reach the paths that the sandbox of a command takes from the
\* scope as its read-write binds.
LayersNarrowTogether == pc = "idle" => FsWritable(mem.paths) = Mounted(runner)

\* A success is saved: when restrict_paths is about to reply, a restart would
\* load the scope of the reply, whatever saves, syncs and starts failed
\* before, with this secret or another, and left a whole, stale, torn or
\* foreign tmp file behind.
ReplyIsSaved == pc = "notify" => Recovered = mem

\* The store with its files implements the register that never forgets.  A
\* replacement takes effect when the tmp file is whole, and is kept from
\* then on by any number of deaths.
Register == INSTANCE ScopeRegister WITH
    scope <- IF pc \in {"idle", "notify"} THEN mem ELSE Recovered

ImplementsRegister == Register!Spec
=============================================================================
