----------------------------- MODULE PathAccess -----------------------------
(***************************************************************************)
(* What tools may reach in the file system of the combined server: the     *)
(* grants of request_path_access (grants.py, grant_tools.py, policy.py),   *)
(* file operations (fs/operations.py) and the read-write mounts of         *)
(* commands (runner.py, sandbox.py), under one active scope.               *)
(*                                                                         *)
(* A file operation has no await.  A request waits for the user's answer,  *)
(* a command for its slot, the refinement of the ceiling for the client's  *)
(* roots; anything may happen meanwhile.                                   *)
(*                                                                         *)
(* Paths are resolved paths of a fixed tree, all of which exist.  How the  *)
(* scope is saved is in ScopeState, how slots are taken in Runner and      *)
(* FlockSlots.                                                             *)
(***************************************************************************)
EXTENDS Integers, FiniteSets

CONSTANTS
    Path,
    At,             \* At[p]: the paths at or under p
    Ceiling,
    Git,            \* paths at or under a .git directory
    Protected,      \* ... at or under an entry of HARES_SANDBOX_PROTECT
    Excluded,       \* ... and of HARES_SANDBOX_EXCLUDE; both absolute
    SystemDirs,     \* ... of the blocklist of HARES_DISALLOW_SYSTEM_DIRS,
                    \* {} when that is not set
    ExtraRw,        \* HARES_SANDBOX_RW
    Scopes,         \* what restrict_paths is asked for
    ClientRoots,    \* ceilings that the client's roots may come to
    Request,        \* calls of request_path_access; each calls once
    Root,           \* Root[r]: the path it asks for
    Mode,           \* Mode[r]: "ro" or "rw"
    Command,        \* calls of execute_command; each calls once
    Cwd,            \* Cwd[c]: {} or the set of its working directory
    MaxConcurrent   \* HARES_MAX_CONCURRENT

ASSUME ConstantsAssumption ==
    /\ At \in [Path -> SUBSET Path]
    /\ \A p \in Path : p \in At[p]
    /\ \A p, q \in Path : q \in At[p] => At[q] \subseteq At[p]
    /\ Git \cup SystemDirs \subseteq Path
    /\ Ceiling \in Path \ (Git \cup SystemDirs)
    /\ Protected \cup Excluded \subseteq At[Ceiling]
    /\ ExtraRw \subseteq Path \ SystemDirs
    /\ ClientRoots \subseteq Path
    /\ Scopes \subseteq SUBSET Path
    /\ Root \in [Request -> Path]
    /\ Mode \in [Request -> {"ro", "rw"}]
    /\ Cwd \in [Command -> SUBSET Path]
    /\ MaxConcurrent \in Nat

VARIABLES
    readOnly,       \* --read-only
    scope,          \* the active scope, {} for none
    refined,        \* make_roots_refiner's one call
    runnerCeiling,  \* Runner._ceiling; file operations keep Ceiling
    asked,          \* where each request is
    grants,         \* the requests that have a grant in the store
    age,            \* the order in which grants were added
    lifetime,       \* the lifetime approved for each request
    uses,           \* operations a grant has served: 0, 1, or 2 for more
    pc,             \* where each command is
    mounts          \* what each command's sandbox has mounted read-write

vars == <<readOnly, scope, refined, runnerCeiling, asked, grants, age,
          lifetime, uses, pc, mounts>>

store == <<grants, age, lifetime>>
commands == <<pc, mounts>>
ceilings == <<refined, runnerCeiling>>

-----------------------------------------------------------------------------

Init ==
    /\ readOnly \in BOOLEAN
    /\ scope = {}
    /\ refined = "no"
    /\ runnerCeiling = Ceiling
    /\ asked = [r \in Request |-> "idle"]
    /\ grants = {}
    /\ age = [r \in Request |-> 0]
    /\ lifetime = [r \in Request |-> "none"]
    /\ uses = [r \in Request |-> 0]
    /\ pc = [c \in Command |-> "idle"]
    /\ mounts = [c \in Command |-> {}]

AtAny(S) == UNION {At[s] : s \in S}

InCeiling(p) == p \in At[Ceiling]

-----------------------------------------------------------------------------
\* The checks of path_safety.py.

NoSystemDir(p) == p \notin SystemDirs
NotExcluded(p) == p \notin Excluded
NotProtected(p) == p \notin Protected
NoForbiddenSegment(p) == p \notin Git

\* validate_ceiling.
CeilingOk(p) == NoForbiddenSegment(p) /\ NoSystemDir(p)

\* validate_grant_target; the deny lists are all in the ceiling.
TargetOk(p, write) ==
    /\ CeilingOk(p)
    /\ NotExcluded(p)
    /\ write => NotProtected(p)

\* _finish_under_ceiling.
UnderCeiling(p) == InCeiling(p) /\ NoSystemDir(p) /\ NotExcluded(p)

-----------------------------------------------------------------------------
\* The store: _find_covering, consume_once, consume_all_once.

Covering(G, p, write) ==
    {r \in G : p \in At[Root[r]] /\ (write => Mode[r] = "rw")}

\* The first one in the list, if any.
First(G, p, write) ==
    {r \in Covering(G, p, write) :
        \A s \in Covering(G, p, write) : age[r] <= age[s]}

Once(G) == {r \in G : lifetime[r] = "once"}

Count(R) ==
    uses' = [r \in Request |->
               IF r \in R /\ uses[r] < 2 THEN uses[r] + 1 ELSE uses[r]]

-----------------------------------------------------------------------------
\* request_path_access.

Refused(r) ==
    \/ readOnly /\ Mode[r] = "rw"
    \/ ~TargetOk(Root[r], Mode[r] = "rw")

Requested(r) ==
    /\ asked[r] = "idle"
    /\ asked' = [asked EXCEPT ![r] = IF Refused(r) THEN "done" ELSE "asked"]
    /\ UNCHANGED <<readOnly, scope, ceilings, store, uses, commands>>

\* What the client answers: a decline, a cancellation or an error; or it
\* accepts, with a choice in the form or with something else.
Reply == {"declined", "deny", "once", "session", "unreadable"}

\* Mutant of LifetimeOf: an unreadable form is taken as it is.
LifetimeAsSent(reply) == IF reply \in {"declined", "deny"} THEN "none" ELSE reply

LifetimeOf(reply) ==
    CASE reply \in {"once", "session"} -> reply
      [] reply = "unreadable" -> "once"
      [] OTHER -> "none"

\* Also when the call is cancelled meanwhile: nothing is added ("declined").
Answered(r, reply) ==
    /\ asked[r] = "asked"
    /\ asked' = [asked EXCEPT ![r] = "done"]
    /\ IF LifetimeOf(reply) = "none"
       THEN UNCHANGED store
       ELSE /\ grants' = grants \cup {r}
            /\ age' = [age EXCEPT ![r] = 1 + Cardinality({s \in Request : age[s] > 0})]
            /\ lifetime' = [lifetime EXCEPT ![r] = LifetimeOf(reply)]
    /\ UNCHANGED <<readOnly, scope, ceilings, uses, commands>>

-----------------------------------------------------------------------------
\* File operations.

\* _resolve returns a path, and has consumed what authorised it.
Resolves(G, p, write) ==
    IF InCeiling(p)
    THEN UnderCeiling(p)
    ELSE Covering(G, p, write) # {} /\ TargetOk(p, write)

AuthorisedBy(G, p, write) == IF InCeiling(p) THEN {} ELSE First(G, p, write)

\* Mutant of LeftAfter: consume_once looks for any covering grant.
LeftAnyMode(G, p, write) == G \ Once(AuthorisedBy(G, p, FALSE))

LeftAfter(G, p, write) == G \ Once(AuthorisedBy(G, p, write))

\* _ensure_under_active_scope, with the grants that are left.
UnderScope(G, p) ==
    /\ NotProtected(p)
    /\ IF InCeiling(p)
       THEN scope = {} \/ p \in AtAny(scope)
       ELSE Covering(G, p, TRUE) # {}

\* read_file and the other readers; read_multiple_files does one by one.
Read(p) ==
    /\ Resolves(grants, p, FALSE)
    /\ grants' = LeftAfter(grants, p, FALSE)
    /\ Count(AuthorisedBy(grants, p, FALSE))
    /\ UNCHANGED <<readOnly, scope, ceilings, asked, age, lifetime, commands>>

\* write_file, edit_file, create_directory.  What _resolve has consumed is
\* gone, also when the check that follows refuses the write.
Write(p) ==
    LET left == LeftAfter(grants, p, TRUE) IN
    /\ ~readOnly
    /\ Resolves(grants, p, TRUE)
    /\ grants' = left
    /\ Count(IF UnderScope(left, p) THEN AuthorisedBy(grants, p, TRUE) ELSE {})
    /\ UNCHANGED <<readOnly, scope, ceilings, asked, age, lifetime, commands>>

\* move_file: both paths are resolved, then both are checked.
Move(p, q) ==
    LET left == LeftAfter(grants, p, TRUE)
        leftBoth == LeftAfter(left, q, TRUE)
        done == UnderScope(leftBoth, p) /\ UnderScope(leftBoth, q)
    IN  /\ ~readOnly
        /\ Resolves(grants, p, TRUE)
        /\ IF Resolves(left, q, TRUE)
           THEN /\ grants' = leftBoth
                /\ Count(IF done THEN AuthorisedBy(grants, p, TRUE)
                                        \cup AuthorisedBy(left, q, TRUE)
                                 ELSE {})
           ELSE grants' = left /\ UNCHANGED uses
        /\ UNCHANGED <<readOnly, scope, ceilings, asked, age, lifetime,
                       commands>>

\* restrict_paths, whose on_change tells the Runner in the same step.
RestrictPaths(S) ==
    /\ \A p \in S : UnderCeiling(p)
    /\ scope' = S
    /\ UNCHANGED <<readOnly, ceilings, asked, store, uses, commands>>

-----------------------------------------------------------------------------
\* The Runner's ceiling: the first list_tools asks the client for its roots.

AskRoots ==
    /\ refined = "no"
    /\ refined' = "asked"
    /\ UNCHANGED <<readOnly, scope, runnerCeiling, asked, store, uses, commands>>

\* Unusable roots leave the ceiling as it is.
RootsAnswered ==
    /\ refined = "asked"
    /\ refined' = "done"
    /\ runnerCeiling' \in {Ceiling} \cup {p \in ClientRoots : CeilingOk(p)}
    /\ UNCHANGED <<readOnly, scope, asked, store, uses, commands>>

-----------------------------------------------------------------------------
\* Commands.

\* _effective_sandbox: what is read-write by ceiling and scope.
Allowed ==
    CASE readOnly -> {}
      [] ~readOnly /\ scope = {} -> {runnerCeiling}
      [] OTHER -> scope

\* _apply_grant_mounts.
GrantedRw(G) == {Root[r] : r \in {s \in G : Mode[s] = "rw"}}

\* Mutant of Mounted: grants are bound after the deny lists.
MountedOverDenied(G, cwd) ==
    LET bound == AtAny(ExtraRw \cup Allowed)
        own == IF cwd \subseteq bound THEN {} ELSE AtAny(cwd)
    IN  ((bound \cup own) \ (Protected \cup Excluded)) \cup AtAny(GrantedRw(G))

\* build_bwrap_argv: the whole host read-only; on top of it the read-write
\* binds; the working directory, unless one of them has it; last the two
\* deny lists.
Mounted(G, cwd) ==
    LET bound == AtAny(ExtraRw \cup Allowed \cup GrantedRw(G))
        own == IF cwd \subseteq bound THEN {} ELSE AtAny(cwd)
    IN  (bound \cup own) \ (Protected \cup Excluded)

Call(c) ==
    /\ pc[c] = "idle"
    /\ pc' = [pc EXCEPT ![c] = "waiting"]
    /\ UNCHANGED <<readOnly, scope, ceilings, asked, store, uses, mounts>>

Started == {c \in Command : pc[c] = "started"}

\* Mutant of Begin: the once grants are consumed before the mounts are made.
BeginConsumesFirst(c) ==
    /\ pc[c] = "waiting"
    /\ Cardinality(Started) < MaxConcurrent
    /\ pc' = [pc EXCEPT ![c] = "started"]
    /\ mounts' = [mounts EXCEPT ![c] = Mounted(grants \ Once(grants), Cwd[c])]
    /\ grants' = grants \ Once(grants)
    /\ Count(grants)
    /\ UNCHANGED <<readOnly, scope, ceilings, asked, age, lifetime>>

\* The call has its slots.  It composes its mounts, consumes every once grant
\* and goes on to the await of the spawn.
Begin(c) ==
    /\ pc[c] = "waiting"
    /\ Cardinality(Started) < MaxConcurrent
    /\ pc' = [pc EXCEPT ![c] = "started"]
    /\ mounts' = [mounts EXCEPT ![c] = Mounted(grants, Cwd[c])]
    /\ grants' = grants \ Once(grants)
    /\ Count(grants)
    /\ UNCHANGED <<readOnly, scope, ceilings, asked, age, lifetime>>

\* The call ends: cancelled in the queue, its spawn failed, or it ran.
End(c) ==
    /\ pc[c] \in {"waiting", "started"}
    /\ pc' = [pc EXCEPT ![c] = "ended"]
    /\ mounts' = [mounts EXCEPT ![c] = {}]
    /\ UNCHANGED <<readOnly, scope, ceilings, asked, store, uses>>

-----------------------------------------------------------------------------

Next ==
    \/ \E r \in Request : Requested(r)
    \/ \E r \in Request, reply \in Reply : Answered(r, reply)
    \/ \E p \in Path : Read(p) \/ Write(p)
    \/ \E p, q \in Path : Move(p, q)
    \/ \E S \in Scopes : RestrictPaths(S)
    \/ AskRoots \/ RootsAnswered
    \/ \E c \in Command : Call(c) \/ Begin(c) \/ End(c)

Spec == Init /\ [][Next]_vars

-----------------------------------------------------------------------------

TypeOK ==
    /\ readOnly \in BOOLEAN
    /\ scope \in SUBSET (At[Ceiling] \ (Excluded \cup SystemDirs))
    /\ refined \in {"no", "asked", "done"}
    /\ runnerCeiling \in Path
    /\ asked \in [Request -> {"idle", "asked", "done"}]
    /\ grants \in SUBSET Request
    /\ age \in [Request -> Nat]
    /\ lifetime \in [Request -> {"none", "once", "session"}]
    /\ uses \in [Request -> 0 .. 2]
    /\ pc \in [Command -> {"idle", "waiting", "started", "ended"}]
    /\ mounts \in [Command -> SUBSET Path]

MayWrite(p) ==
    ~readOnly /\ Resolves(grants, p, TRUE) /\ UnderScope(grants, p)

GrantedInside(p) ==
    InCeiling(p) /\ Covering(grants, p, TRUE) # {} /\ TargetOk(p, TRUE)

\* fs/tools.py and runner.py:378, "ceiling defines what's observable; active
\* scope defines what's modifiable; grants widen past the ceiling": the two
\* layers decide alike.  Whatever the scope, the grants and --read-only, a
\* command that starts now, outside the operator's own mounts, can modify
\* just the paths that a file operation may; save that a grant inside the
\* ceiling, and a .git or a system directory inside a granted tree or the
\* ceiling, is open to commands only.
LayersAgree ==
    runnerCeiling = Ceiling \/ scope # {} =>
        \A p \in Path \ (AtAny(ExtraRw) \cup Git \cup SystemDirs) :
            p \in Mounted(grants, {}) <=> MayWrite(p) \/ GrantedInside(p)

\* src/README.md:375, "in shell mode, the very next execute_command call": a once
\* grant is used up by a command that gets it, for all that the command has
\* waited for its slot and others have come and gone meanwhile.
SpentGrantsAreMounted ==
    [][\A c \in Command, r \in grants \ grants' :
        pc[c] = "waiting" /\ pc'[c] = "started" /\ Mode[r] = "rw" =>
            At[Root[r]] \ (Protected \cup Excluded) \subseteq mounts'[c]]_vars

\* Grants implement permissions: however requests, file operations and waiting
\* commands interleave, a grant serves nobody before it is approved, and one
\* approved `once' serves one operation, a command or a file operation.
Permission == INSTANCE PathPermission

ImplementsPermission == Permission!Spec
=============================================================================
