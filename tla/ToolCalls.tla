------------------------------ MODULE ToolCalls ------------------------------
(***************************************************************************)
(* The calls of the tools of one shell or combined server, from dispatch   *)
(* to the audit log (shell/server.py, combined/server.py, exec_tools.py,   *)
(* policy.py, audit.py, and the head of Runner.execute).                   *)
(*                                                                         *)
(* Calls run as tasks of one event loop; an action is what a call does up  *)
(* to its next real suspension: the dialog of the user, the slot, the      *)
(* command, and the shielded write of the log.  Slots and commands are     *)
(* those of the modules Runner and CommandWatch, cut down to "one at a     *)
(* time takes a slot" and "the command ends".                              *)
(***************************************************************************)
EXTENDS Inspector, FiniteSets

CONSTANTS
    Call,           \* the calls the client makes, each once
    Commands,       \* the commands it may ask for
    Deny, Suspect,  \* words the patterns of each tier match
    Sizes,          \* mem_limit_mb: None, or a number, which may be 0
    Weights,        \* weight
    Hosts           \* the servers considered: see Host

\* HARES_MAX_CONCURRENT, HARES_MEM_LIMIT_MB, HARES_MEM_LIMIT_MAX_MB, whether
\* the client shows dialogs (without them elicit raises, or there is no
\* session), and whether the audit log is on.
Host == [max : Nat \ {0}, mem : Nat \ {0}, memMax : Nat \ {0},
         dialogs : BOOLEAN, audit : BOOLEAN]

ASSUME CommandsAssumption == \A s \in Commands : IsCommand(s)
ASSUME HostsAssumption == Hosts \subseteq Host
ASSUME SizesAssumption == Sizes \ {None} \subseteq Nat
ASSUME WeightsAssumption == Weights \subseteq Int

VARIABLES
    host,      \* how the server is configured
    request,   \* tool and arguments of the call
    phase,     \* where the call is
    shown,     \* the budget in the dialog of the call
    consent,   \* the user has said yes to the dialog of the call
    line,      \* what the shell is given
    budget,    \* effective_aggregate_bytes, in MB
    reply,     \* how the call ended, for the client
    log,       \* the entries of the call in the audit log
    lost       \* whether the write of its entry has failed: see Lost

vars == <<host, request, phase, shown, consent, line, budget, reply, log,
          lost>>

-----------------------------------------------------------------------------

\* "asked": the dialog is open; "logging": the exception path of `audited'
\* awaits its shielded log; "detached": it was cancelled there, and the log
\* goes on without it.
Phase == {"idle", "asked", "queued", "running", "logging", "detached",
          "over"}
Reply == {"none", "result", "rejected", "error", "cancelled"}

\* An entry that could not be flushed stays in the buffer of the file; one
\* that could not be encoded, or for which no file could be opened, is gone.
Lost == {"no", "buffered", "gone"}

\* "other" is a file operation, restrict_paths, get_active_paths or
\* request_path_access; "unknown" is no tool of this server.
Request ==
    [tool : {"execute_command", "execute_command_high_memory"},
     command : Commands, mem : Sizes, weight : Weights]
    \union [tool : {"other", "unknown"}]

Init ==
    /\ host \in Hosts
    /\ request = [c \in Call |-> None]
    /\ phase = [c \in Call |-> "idle"]
    /\ shown = [c \in Call |-> None]
    /\ consent = [c \in Call |-> FALSE]
    /\ line = [c \in Call |-> None]
    /\ budget = [c \in Call |-> None]
    /\ reply = [c \in Call |-> "none"]
    /\ log = [c \in Call |-> <<>>]
    /\ lost = [c \in Call |-> "no"]

-----------------------------------------------------------------------------
\* The audit log around every call.

\* The kind of the entry of a call that has ended so.
Entry(how) == IF how \in {"result", "rejected"} THEN "result" ELSE "error"

\* A flush writes the entry, and those of earlier calls that are still in the
\* buffer.  One that fails is reported, and the call goes on.
Write(c, how) ==
    \/ /\ log' = [d \in Call |->
                    IF d = c THEN Append(log[d], Entry(how))
                    ELSE IF lost[d] = "buffered"
                    THEN Append(log[d], Entry(reply[d])) ELSE log[d]]
       /\ lost' = [d \in Call |->
                    IF lost[d] = "buffered" THEN "no" ELSE lost[d]]
    \/ /\ lost' \in {[lost EXCEPT ![c] = l] : l \in Lost \ {"no"}}
       /\ log' = log

\* The handler returns: `audited' logs without suspending, since nobody holds
\* the lock across an await.
Returned(c, how) ==
    /\ phase' = [phase EXCEPT ![c] = "over"]
    /\ reply' = [reply EXCEPT ![c] = how]
    /\ IF host.audit THEN Write(c, how) ELSE UNCHANGED <<log, lost>>

\* The same, with a result the log cannot encode: a file name that is not
\* UTF-8.  The error is no OSError, so it takes the place of the result.
ReturnedUnencodable(c) ==
    /\ phase' = [phase EXCEPT ![c] = "over"]
    /\ reply' = [reply EXCEPT ![c] = IF host.audit THEN "error" ELSE "result"]
    /\ lost' = [lost EXCEPT ![c] = IF host.audit THEN "gone" ELSE "no"]
    /\ UNCHANGED log

\* Mutant of Raised: `except Exception', which lets a cancellation pass.
RaisedNoBase(c, how) ==
    /\ reply' = [reply EXCEPT ![c] = how]
    /\ phase' = [phase EXCEPT ![c] = IF host.audit /\ how = "error"
                                     THEN "logging" ELSE "over"]
    /\ UNCHANGED <<log, lost>>

\* The handler raises, or is cancelled: the log is a task of its own, which
\* the call awaits behind a shield.
Raised(c, how) ==
    /\ reply' = [reply EXCEPT ![c] = how]
    /\ phase' = [phase EXCEPT ![c] = IF host.audit THEN "logging" ELSE "over"]
    /\ UNCHANGED <<log, lost>>

LogShielded(c) ==
    /\ phase[c] \in {"logging", "detached"}
    /\ Write(c, reply[c])
    /\ phase' = [phase EXCEPT ![c] = "over"]
    /\ UNCHANGED <<host, request, shown, consent, line, budget, reply>>

\* The client cancels a call that logs its error, or anyio cancels one again,
\* as it does at every suspension: `except BaseException: pass'.
CancelledInLog(c) ==
    /\ phase[c] = "logging"
    /\ phase' = [phase EXCEPT ![c] = "detached"]
    /\ UNCHANGED <<host, request, shown, consent, line, budget, reply, log,
                   lost>>

-----------------------------------------------------------------------------
\* Runner.execute up to its slot.

\* Mutant of MemBudget: a requested 0 is not raised to 1.
MemBudgetZero(r, high) ==
    LET top == IF high /\ host.memMax >= host.mem
               THEN host.memMax ELSE host.mem
    IN  IF r.mem # None THEN Smaller(r.mem, top) ELSE top

\* ceiling_bytes, effective_mem_bytes and effective_aggregate_bytes.  The
\* high-memory ceiling is never below the normal one.
MemBudget(r, high) ==
    LET top == IF high /\ host.memMax >= host.mem
               THEN host.memMax ELSE host.mem
    IN  IF r.mem # None
        THEN Smaller(IF r.mem < 1 THEN 1 ELSE r.mem, top)
        ELSE top

\* max(1, min(int(weight), max_concurrent))
WeightOf(r) ==
    LET least == Smaller(r.weight, host.max)
    IN  IF least < 1 THEN 1 ELSE least

\* The budget is set and the command inspected before a slot is asked for.
Execute(c, r, high) ==
    IF r.command = <<>>
    THEN Raised(c, "error") /\ UNCHANGED <<line, budget>>
    ELSE /\ line' = [line EXCEPT ![c] =
                        InspectCommand(r.command, WeightOf(r), host.max)]
         /\ budget' = [budget EXCEPT ![c] = MemBudget(r, high)]
         /\ phase' = [phase EXCEPT ![c] = "queued"]
         /\ UNCHANGED <<reply, log, lost>>

\* Mutant of HoldsSlot: the slot is taken before the user is asked.
HoldsSlotAsked(c) == phase[c] \in {"asked", "running"}

HoldsSlot(c) == phase[c] = "running"

\* One slot, whatever the weight: the servers give every Runner a coordinator
\* and leave its weight_cap at 1.
Start(c) ==
    /\ phase[c] = "queued"
    /\ Cardinality({d \in Call : HoldsSlot(d)}) < host.max
    /\ phase' = [phase EXCEPT ![c] = "running"]
    /\ UNCHANGED <<host, request, shown, consent, line, budget, reply, log,
                   lost>>

\* The command ends, by itself or killed; a killed_reason of "oom" gets a hint
\* at the other tool.  Or execute raises: the shell could not be spawned.
Finish(c) ==
    /\ phase[c] = "running"
    /\ \/ Returned(c, "result")
       \/ Raised(c, "error")
    /\ UNCHANGED <<host, request, shown, consent, line, budget>>

-----------------------------------------------------------------------------
\* The gates of the two exec tools.

\* fnmatch with the pattern between stars.
Matches(s, words) == \E i \in DOMAIN s : s[i].flag = "" /\ s[i].arg \in words

Reject(c) == Returned(c, "rejected") /\ UNCHANGED <<line, budget>>

\* _resolve_session and elicit: the dialog opens, with the budget mb.  Where
\* nobody can be asked the answer is no.
Elicit(c, mb) ==
    /\ shown' = [shown EXCEPT ![c] = mb]
    /\ IF host.dialogs
       THEN /\ phase' = [phase EXCEPT ![c] = "asked"]
            /\ UNCHANGED <<line, budget, reply, log, lost>>
       ELSE Reject(c)

\* PolicyEngine.check: deny, then suspect, then allow.
Checked(s) ==
    IF Matches(s, Deny) THEN "deny"
    ELSE IF Matches(s, Suspect) THEN "elicit" ELSE "allow"

\* _execute
ExecuteCommand(c, r) ==
    /\ r.tool = "execute_command"
    /\ \/ /\ Checked(r.command) = "deny"
          /\ Reject(c) /\ UNCHANGED shown
       \/ /\ Checked(r.command) = "elicit"
          /\ Elicit(c, None)
       \/ /\ Checked(r.command) = "allow"
          /\ Execute(c, r, FALSE) /\ UNCHANGED shown

\* _execute_high_memory: deny counts, the suspect tier does not, and the user
\* is asked about every run.
ExecuteHighMemory(c, r) ==
    /\ r.tool = "execute_command_high_memory"
    /\ LET tooSmall == IF r.mem = None THEN FALSE ELSE r.mem < 1
       IN  IF Checked(r.command) = "deny" \/ tooSmall
           THEN Reject(c) /\ UNCHANGED shown
           ELSE Elicit(c, IF r.mem = None THEN host.memMax ELSE r.mem)

\* The other tools, which wait for nothing another call holds; "unknown" is
\* the ValueError of the dispatch.
CallOther(c, r) ==
    /\ \/ r.tool = "other" /\ Returned(c, "result")
       \/ r.tool = "other" /\ ReturnedUnencodable(c)
       \/ r.tool \in {"other", "unknown"} /\ Raised(c, "error")
    /\ UNCHANGED <<shown, line, budget>>

\* _call_tool
CallTool(c, r) ==
    /\ phase[c] = "idle"
    /\ request' = [request EXCEPT ![c] = r]
    /\ ExecuteCommand(c, r) \/ ExecuteHighMemory(c, r) \/ CallOther(c, r)
    /\ UNCHANGED <<host, consent>>

\* What a client may answer: an action and the decision in the form; a lax
\* client accepts with no form, or with a decision that the form does not
\* offer.  "fails" is an error in place of an answer.
Answers == {<<"accept", "allow">>, <<"accept", "deny">>, <<"accept", None>>,
            <<"accept", "other">>,
            <<"decline", None>>, <<"cancel", None>>, <<"fails", None>>}

\* Mutant of Accepted: the form is not looked at.
AcceptedAction(a) == a[1] = "accept"

\* _send_elicitation
Accepted(a) == a[1] = "accept" /\ a[2] # "deny"

\* What the user meant: whoever accepts and does not say "deny".
Yes(a) ==
    a \in {<<"accept", "allow">>, <<"accept", None>>, <<"accept", "other">>}

Answer(c) ==
    /\ phase[c] = "asked"
    /\ \E a \in Answers :
        /\ consent' = [consent EXCEPT ![c] = Yes(a)]
        /\ IF Accepted(a)
           THEN Execute(c, request[c],
                        request[c].tool = "execute_command_high_memory")
           ELSE Reject(c)
    /\ UNCHANGED <<host, request, shown>>

\* The client cancels the request (notifications/cancelled): CancelledError
\* passes the handlers, none of which catches it.
Cancel(c) ==
    /\ phase[c] \in {"asked", "queued", "running"}
    /\ Raised(c, "cancelled")
    /\ UNCHANGED <<host, request, shown, consent, line, budget>>

-----------------------------------------------------------------------------

Next ==
    \E c \in Call :
        \/ \E r \in Request : CallTool(c, r)
        \/ Answer(c) \/ Start(c) \/ Finish(c) \/ Cancel(c)
        \/ LogShielded(c) \/ CancelledInLog(c)

\* Callers poll for the slot files every half second, and are taken not to be
\* passed over for ever; commands end, at the latest with their timeout
\* (CommandWatch.CallAnswers).  Of users and clients nothing is assumed.
Spec ==
    /\ Init /\ [][Next]_vars
    /\ \A c \in Call :
        SF_vars(Start(c)) /\ WF_vars(Finish(c)) /\ WF_vars(LogShielded(c))
-----------------------------------------------------------------------------
Waiting(c) == phase[c] \in {"queued", "running"}

\* What a shell may be given.
Lines == {InspectCommand(s, w, host.max) : s \in Commands, w \in 1 .. host.max}

TypeOK ==
    /\ host \in Hosts
    /\ request \in [Call -> Request \union {None}]
    /\ phase \in [Call -> Phase]
    /\ shown \in [Call -> Sizes \union {host.memMax, None}]
    /\ consent \in [Call -> BOOLEAN]
    /\ line \in [Call -> Lines \union {None}]
    /\ budget \in [Call -> Nat \union {None}]
    /\ \A c \in Call : Waiting(c) => line[c] \in Lines /\ budget[c] \in Nat \ {0}
    /\ reply \in [Call -> Reply]
    /\ log \in [Call -> {<<>>, <<"result">>, <<"error">>}]
    /\ lost \in [Call -> Lost]

\* A command that waits for its slot or runs is not denied; one that needs the
\* user's yes has it, from the dialog of this very call; and its memory is at
\* most what the user saw or the normal cap, whichever is more.
\* (the gates of exec_tools.py, and the clamps of Runner.execute behind them)
OnlyApprovedRuns ==
    \A c \in Call : Waiting(c) =>
        LET r == request[c]
            high == r.tool = "execute_command_high_memory"
        IN  /\ ~Matches(r.command, Deny)
            /\ Matches(r.command, Suspect) \/ high => consent[c]
            /\ \/ budget[c] <= host.mem
               \/ high /\ budget[c] <= shown[c]

\* With the log on, a call that is over has one entry, of the kind of its
\* reply, or its write has failed and it has none, or not yet: a later write
\* may bring it to the file, once.  Until it is over it has none.  A
\* cancellation in the middle of anything, the log included, loses nothing.
\* (audited, and its comment "so cancellation mid-log doesn't lose the entry")
AuditedOnce ==
    \A c \in Call :
        IF ~host.audit \/ phase[c] # "over" \/ lost[c] # "no"
        THEN log[c] = <<>>
        ELSE log[c] = IF reply[c] \in {"result", "rejected"}
                      THEN <<"result">> ELSE <<"error">>

\* Whatever dialogs users leave open, a command that needs no answer gets its
\* slot and ends.  (the order of the gate and the slot in _execute)
OthersProceed ==
    \A c \in Call : phase[c] = "queued" ~> phase[c] = "over"

\* Options spelled in the ways the inspector knows: not "--jobs" of make
\* without a number, nor "-j" of cargo.
Spelled(s) ==
    \A i \in DOMAIN s :
        LET Then(w) == i < Len(s) /\ s[i + 1].flag = "" /\ s[i + 1].arg \in w
        IN  /\ ~s[i].syntax
            /\ s[i].arg # Unbalanced
            /\ s[i].flag = "-j" => s[i].arg \in Int \union {None}
            /\ s[i].flag = "--jobs" =>
                s[i].arg \in Int \/ (s[i].arg = None /\ Then(Int))
            /\ s[i].flag \in XdistFlags =>
                \/ s[i].arg \in Int \union {AutoWord}
                \/ s[i].arg = None /\ Then(Int \union {AutoWord})

\* One command of one program.
Known(s, program) == Names(s, program) /\ Spelled(s)

\* On a host with a thousand cores, a running tool starts no more workers than
\* the weight of its call.
\* ("let it spawn up to W internal workers", inspector.py:45)
WorkersFitWeight ==
    \A c \in Call : Waiting(c) =>
        LET s == request[c].command
            Fits(flags) ==
                Workers(line[c], flags, 1000, 1000) <= WeightOf(request[c])
        IN  /\ Known(s, Pytest) => Fits({"-n", "--numprocesses"})
            /\ Known(s, Make) \/ Known(s, Ninja)
                => Fits({"-j", "--jobs"})
            /\ Known(s, Cargo) => Fits({"--jobs"})

\* "This may slightly differ from the user's original quoting but is
\* shell-equivalent" (inspector.py:290): what the shell interprets in the
\* command it interprets in the line.
ShellEquivalent ==
    \A c \in Call : Waiting(c) =>
        \A i \in DOMAIN request[c].command :
            request[c].command[i].syntax = line[c][i].syntax
=============================================================================
