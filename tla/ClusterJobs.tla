---------------------------- MODULE ClusterJobs ----------------------------
(***************************************************************************)
(* The session's job manager for a cluster (cluster/base.py) on SLURM      *)
(* (cluster/slurm.py) or LSF (cluster/lsf.py): submit, wait, cancel,       *)
(* execute_blocking and the eviction of old records, called concurrently.  *)
(*                                                                         *)
(* All calls run on one event loop and every section under self._lock is   *)
(* free of awaits, so what happens between two runs of a scheduler command *)
(* is one action.  The answers of the polls of one round come one by one;  *)
(* calls, evictions and the cluster move on in between.                    *)
(*                                                                         *)
(* PEND and RUN are treated alike by all of this code and are both LIVE.   *)
(* Of the tasks of an array job the set of their fates is kept.  The       *)
(* cluster is the external part.                                           *)
(***************************************************************************)
EXTENDS Integers, FiniteSets

CONSTANTS
    NumJobs,   \* bound: jobs the cluster takes, numbered as it takes them
    Waiter,    \* calls of wait or of execute_blocking; each calls once
    Blocking,  \* those of execute_blocking
    Canceller, \* calls of cancel; each calls once
    Ids,       \* Ids[x]: the job ids that the wait or cancel x is given;
               \* those that an execute_blocking may get
    ArraySets, \* which jobs may be array jobs
    ArrayFates,  \* the sets of fates that the tasks of one may have
    Backends,  \* the schedulers to consider, out of "slurm" and "lsf"
    Cap        \* MAX_RETAINED_JOBS

Job == 1 .. NumJobs
NoJob == 0

ASSUME ConstantsAssumption ==
    /\ NumJobs \in Nat
    /\ Backends \subseteq {"slurm", "lsf"}
    /\ Blocking \subseteq Waiter
    /\ ArraySets \subseteq SUBSET Job
    /\ ArrayFates \subseteq (SUBSET {"ok", "fail", "killed"}) \ {{}}
    /\ Ids \in [Waiter \cup Canceller -> SUBSET Job]
    /\ Cap \in Nat

VARIABLES
    backend,   \* the executor's class
    arrays,    \* the array jobs
    cluster,   \* where the cluster has each job
    fate,      \* how the tasks of a job that is over have ended
    jobs,      \* the keys of _jobs, whose order is that of the numbers
    status,    \* the status of each record
    result,    \* the result of each record
    evicted,   \* _evicted_ids
    phase,     \* where each wait is
    pending,   \* the set `pending' of each wait
    answer,    \* the answers to the polls of this round
    entry,     \* what the wait has put into `results'
    todo,      \* jobs each cancel has not come to yet
    target,    \* the job whose cancel command has been run
    misled     \* history: jobs that the text of an error was misread about

vars == <<backend, arrays, cluster, fate, jobs, status, result, evicted,
          phase, pending, answer, entry, todo, target, misled>>

remote == <<backend, arrays, cluster, fate, misled>>
records == <<jobs, status, result, evicted>>
waits == <<phase, pending, answer, entry>>
cancels == <<todo, target>>

-----------------------------------------------------------------------------

TERMINAL == {"DONE", "EXIT"}
Status == {"LIVE", "UNKWN", "CANCELED"} \cup TERMINAL

\* "ended": over, and still listed.  "purged": over, and unknown to the
\* status command.  "lost": on the cluster, and nobody here knows its id.
Place == {"none", "active", "ended", "purged", "lost"}
\* How a task ends: exit code 0, another one, or killed before its wrapper
\* script has written the exit code file.  A single job is one task.
TaskFate == {"ok", "fail", "killed"}
Fates(j) == IF j \in arrays THEN ArrayFates ELSE {{f} : f \in TaskFate}

NoResult == [status |-> "none", code |-> 0]
Result == [status : TERMINAL, code : {-1, 0, 1}]

\* What a wait returns for a job: nothing that was not asked for; nothing yet;
\* a result; or a status of its own.
NotAsked == [status |-> "notAsked", code |-> 0]
NoEntry == [status |-> "none", code |-> 0]
Special(st) == [status |-> st, code |-> 0]
Entry == Result \cup {NotAsked, NoEntry}
                \cup {Special(st) : st \in {"ERROR", "EVICTED", "TIMEOUT"}}

NoAnswers == [j \in Job |-> "none"]

Over(j) == cluster[j] \in {"ended", "purged"}

Init ==
    /\ backend \in Backends
    /\ arrays \in ArraySets
    /\ cluster = [j \in Job |-> "none"]
    /\ fate = [j \in Job |-> {}]
    /\ jobs = {}
    /\ status = [j \in Job |-> "LIVE"]
    /\ result = [j \in Job |-> NoResult]
    /\ evicted = {}
    /\ phase = [w \in Waiter |-> "idle"]
    /\ pending = [w \in Waiter |-> {}]
    /\ answer = [w \in Waiter |-> NoAnswers]
    /\ entry = [w \in Waiter |-> [j \in Job |-> NotAsked]]
    /\ todo = [c \in Canceller |-> Ids[c]]
    /\ target = [c \in Canceller |-> NoJob]
    /\ misled = {}

-----------------------------------------------------------------------------
\* The cluster.

\* Where a job goes when it is over: bjobs lists it for a while after, and
\* squeue, which lists jobs that are active, may do so too.
Left == IF backend = "slurm" THEN {"ended", "purged"} ELSE {"ended"}

\* An active job j ends, with a fate among fates.
Ends(j, fates) ==
    /\ cluster[j] = "active"
    /\ \E place \in Left : cluster' = [cluster EXCEPT ![j] = place]
    /\ \E f \in fates : fate' = [fate EXCEPT ![j] = f]

JobEnds(j) ==
    /\ Ends(j, Fates(j))
    /\ UNCHANGED <<backend, arrays, misled, records, waits, cancels>>

Forget(j) ==
    /\ cluster[j] = "ended"
    /\ cluster' = [cluster EXCEPT ![j] = "purged"]
    /\ UNCHANGED <<backend, arrays, misled, fate, records, waits, cancels>>

-----------------------------------------------------------------------------
\* submit.

NextId(j) == cluster[j] = "none" /\ \A i \in 1 .. j - 1 : cluster[i] # "none"

\* The cluster takes the job and the job gets its record.  (Nobody can name
\* the job in between, while the command's output is awaited.)  A command or
\* directory that is refused changes nothing.
Submitted(j) ==
    /\ NextId(j)
    /\ cluster' = [cluster EXCEPT ![j] = "active"]
    /\ jobs' = jobs \cup {j}
    /\ UNCHANGED <<backend, arrays, misled, fate, status, result, evicted,
                   cancels>>

Submit(j) == Submitted(j) /\ UNCHANGED waits

\* execute_blocking: submit, then wait for the one job, whose record has no
\* result yet.
ExecuteBlocking(w) ==
    /\ w \in Blocking
    /\ phase[w] = "idle"
    /\ \E j \in Ids[w] :
        /\ Submitted(j)
        /\ pending' = [pending EXCEPT ![w] = {j}]
        /\ entry' = [entry EXCEPT ![w][j] = NoEntry]
    /\ phase' = [phase EXCEPT ![w] = "poll"]
    /\ UNCHANGED answer

\* The output of the command has no job id, or the call is cancelled while
\* the command runs: the job has no record, and nobody its id.
SubmitLost(j) ==
    /\ NextId(j)
    /\ cluster' = [cluster EXCEPT ![j] = "lost"]
    /\ UNCHANGED <<backend, arrays, misled, fate, records, waits, cancels>>

-----------------------------------------------------------------------------
\* _maybe_evict_terminal, on the statuses st.

\* Mutant of Evictable: every record whose job is not queued or running.
EvictableUnknown(j, st) == st[j] # "LIVE"

Evictable(j, st) == st[j] \in TERMINAL \cup {"CANCELED"}

\* The oldest evictable records, as many as there are too many.
Victims(st) ==
    LET eligible == {j \in jobs : Evictable(j, st)}
        excess == IF Cap = 0 THEN 0 ELSE Cardinality(jobs) - Cap
    IN  {j \in eligible : Cardinality({i \in eligible : i <= j}) <= excess}

\* Mutant of Evict: the record is remembered as evicted and not deleted.
EvictKeeps(st, res) ==
    /\ evicted' = evicted \cup Victims(st)
    /\ status' = st
    /\ result' = res
    /\ UNCHANGED jobs

Evict(st, res) ==
    /\ evicted' = evicted \cup Victims(st)
    /\ jobs' = jobs \ Victims(st)
    /\ status' = [j \in Job |-> IF j \in Victims(st) THEN "LIVE" ELSE st[j]]
    /\ result' = [j \in Job |-> IF j \in Victims(st) THEN NoResult ELSE res[j]]

Keep(st, res) ==
    /\ status' = st
    /\ result' = res
    /\ UNCHANGED <<jobs, evicted>>

-----------------------------------------------------------------------------
\* wait.

\* Mutant of FirstEntry: ids without a record are passed over.
FirstEntrySkips(j) == IF j \in jobs THEN result[j] ELSE NoEntry

\* The lookup at the beginning: known, evicted and unknown ids.
FirstEntry(j) ==
    IF j \in jobs THEN result[j]
    ELSE Special(IF j \in evicted THEN "EVICTED" ELSE "ERROR")

Wait(w) ==
    LET unfinished == {j \in Ids[w] \cap jobs : result[j] = NoResult}
    IN  /\ w \notin Blocking
        /\ phase[w] = "idle"
        /\ entry' = [entry EXCEPT ![w] =
                       [j \in Job |-> CASE j \in unfinished -> NoEntry
                                       [] j \in Ids[w] \ unfinished -> FirstEntry(j)
                                       [] OTHER -> NotAsked]]
        /\ pending' = [pending EXCEPT ![w] = unfinished]
        /\ IF unfinished = {}
           THEN phase' = [phase EXCEPT ![w] = "done"] /\ Evict(status, result)
           ELSE phase' = [phase EXCEPT ![w] = "poll"] /\ Keep(status, result)
        /\ UNCHANGED <<remote, answer, cancels>>

\* Mutant of FromExitFile: a missing exit code file is a success.
FromExitFileMissing(j) == IF fate[j] = {"fail"} THEN "EXIT" ELSE "DONE"

\* _exitcode_file_terminal_status: a job that was killed left no file.
FromExitFile(j) ==
    CASE fate[j] = {"ok"} -> "DONE"
      [] fate[j] = {"fail"} -> "EXIT"
      [] OTHER -> "UNKWN"

\* _parse_status.  For an array that is known the lines of its tasks, of which
\* some may be over, are taken together; else the first line decides.  The
\* wrapper script ends with an echo, so the scheduler sees a task that was
\* not killed succeed, whatever its command did.
Listed(j) ==
    IF j \in arrays \cap jobs THEN {"DONE"}
    ELSE {IF f = "killed" THEN "EXIT" ELSE "DONE" : f \in fate[j]}

ListedActive(j) ==
    IF j \in arrays \ jobs THEN {"LIVE"} \cup TERMINAL ELSE {"LIVE"}

\* _terminal_from_exitcode on SLURM; LSF takes the job for done.
Unlisted(j) ==
    CASE backend = "lsf" -> "DONE"
      [] backend = "slurm" /\ j \in jobs \ arrays -> FromExitFile(j)
      [] backend = "slurm" /\ j \in jobs \cap arrays -> "DONE"
      [] OTHER -> "UNKWN"

ParsedStatuses(j) ==
    CASE cluster[j] = "active" -> ListedActive(j)
      [] cluster[j] = "ended" -> Listed(j)
      [] OTHER -> {Unlisted(j)}

Answered(w, j, st) ==
    /\ phase[w] = "poll"
    /\ j \in pending[w]
    /\ answer[w][j] = "none"
    /\ answer' = [answer EXCEPT ![w][j] = st]
    /\ UNCHANGED <<backend, arrays, cluster, fate, records, phase, pending,
                   entry, cancels>>

Answer(w, j) ==
    /\ \E st \in ParsedStatuses(j) : Answered(w, j, st)
    /\ UNCHANGED misled

\* The status command fails.
PollFails(w, j) == Answered(w, j, "UNKWN") /\ UNCHANGED misled

\* It fails, and the text of the error has a "not found" in it that is not
\* about the job: taken for the answer that the job is no longer listed, which
\* may be one that the job would not get.
PollMisread(w, j) ==
    /\ Unlisted(j) \in TERMINAL \ ParsedStatuses(j)
    /\ Answered(w, j, Unlisted(j))
    /\ misled' = misled \cup {j}

\* _collect_result: no exit code counts as a failure only after EXIT.
CollectedSingle(j, st) ==
    [status |-> st,
     code |-> CASE fate[j] = {"ok"} -> 0
                [] fate[j] = {"fail"} -> 1
                [] OTHER -> IF st = "EXIT" THEN -1 ELSE 0]

\* _collect_array_result: the rollup of the exit code files that are there, if
\* any are.
CollectedArray(j, st) ==
    IF fate[j] \subseteq {"killed"} THEN [status |-> st, code |-> -1]
    ELSE IF "fail" \in fate[j] THEN [status |-> "EXIT", code |-> 1]
    ELSE [status |-> "DONE", code |-> 0]

Collected(j, st) ==
    IF j \in arrays THEN CollectedArray(j, st) ELSE CollectedSingle(j, st)

\* Mutant of Finished: a job that lost its record is not discarded.
FinishedKnown(w) == {j \in pending[w] \cap jobs : answer[w][j] \in TERMINAL}

\* The pending jobs that leave the loop.
Finished(w) == {j \in pending[w] : answer[w][j] \in TERMINAL}

\* The loop over the answers, and the eviction when nothing is pending.
\* Answers for jobs evicted meanwhile end the wait for them without an entry.
Apply(w) ==
    LET finished == Finished(w)
        st == [j \in Job |-> IF j \in pending[w] \cap jobs
                             THEN answer[w][j] ELSE status[j]]
        Outcome(j, other) == IF j \in finished \cap jobs
                             THEN Collected(j, answer[w][j]) ELSE other
        res == [j \in Job |-> Outcome(j, result[j])]
    IN  /\ phase[w] = "poll"
        /\ \A j \in pending[w] : answer[w][j] # "none"
        /\ entry' = [entry EXCEPT ![w] =
                       [j \in Job |-> Outcome(j, entry[w][j])]]
        /\ pending' = [pending EXCEPT ![w] = @ \ finished]
        /\ answer' = [answer EXCEPT ![w] = NoAnswers]
        /\ IF pending[w] = finished
           THEN phase' = [phase EXCEPT ![w] = "done"] /\ Evict(st, res)
           ELSE UNCHANGED phase /\ Keep(st, res)
        /\ UNCHANGED <<remote, cancels>>

\* The deadline has passed at the top of the loop: before the first round of
\* polls or after the sleep that follows each.
Expire(w) ==
    /\ phase[w] = "poll"
    /\ answer[w] = NoAnswers
    /\ phase' = [phase EXCEPT ![w] = "done"]
    /\ entry' = [entry EXCEPT ![w] =
                   [j \in Job |-> IF j \in pending[w]
                                  THEN Special("TIMEOUT")
                                  ELSE entry[w][j]]]
    /\ pending' = [pending EXCEPT ![w] = {}]
    /\ Evict(status, result)
    /\ UNCHANGED <<remote, answer, cancels>>

\* The call is cancelled while it polls or sleeps.
WaitCancelled(w) ==
    /\ phase[w] = "poll"
    /\ phase' = [phase EXCEPT ![w] = "cancelled"]
    /\ pending' = [pending EXCEPT ![w] = {}]
    /\ answer' = [answer EXCEPT ![w] = NoAnswers]
    /\ entry' = [entry EXCEPT ![w] = [j \in Job |-> NotAsked]]
    /\ UNCHANGED <<remote, records, cancels>>

-----------------------------------------------------------------------------
\* cancel: one command after the other.

\* The command may kill the job, or fail, or come too late.
CancelSent(c, j) ==
    /\ j \in todo[c]
    /\ target[c] = NoJob
    /\ target' = [target EXCEPT ![c] = j]
    /\ \/ UNCHANGED <<cluster, fate>>
       \/ Ends(j, {f \in Fates(j) : "killed" \in f})
    /\ UNCHANGED <<backend, arrays, misled, records, waits, todo>>

\* The record is CANCELED whatever the command returned; the last job of the
\* list is followed by the eviction.
CancelRecorded(c) ==
    LET j == target[c]
        st == IF j \in jobs THEN [status EXCEPT ![j] = "CANCELED"] ELSE status
    IN  /\ j # NoJob
        /\ todo' = [todo EXCEPT ![c] = @ \ {j}]
        /\ target' = [target EXCEPT ![c] = NoJob]
        /\ IF todo[c] = {j} THEN Evict(st, result) ELSE Keep(st, result)
        /\ UNCHANGED <<remote, waits>>

\* The call is cancelled while its command runs.
CancelCancelled(c) ==
    /\ target[c] # NoJob
    /\ todo' = [todo EXCEPT ![c] = {}]
    /\ target' = [target EXCEPT ![c] = NoJob]
    /\ UNCHANGED <<remote, records, waits>>

-----------------------------------------------------------------------------

Next ==
    \/ \E j \in Job :
        \/ Submit(j) \/ SubmitLost(j)
        \/ JobEnds(j) \/ Forget(j)
    \/ \E w \in Waiter :
        \/ Wait(w) \/ ExecuteBlocking(w) \/ Apply(w) \/ Expire(w) \/ WaitCancelled(w)
        \/ \E j \in Job : Answer(w, j) \/ PollFails(w, j) \/ PollMisread(w, j)
    \/ \E c \in Canceller :
        \/ \E j \in Job : CancelSent(c, j)
        \/ CancelRecorded(c) \/ CancelCancelled(c)

Spec == Init /\ [][Next]_vars

(***************************************************************************)
(* The event loop keeps polling, and a status command that can answer does *)
(* so again and again.  No fairness for the deadline, which is a day away, *)
(* for the calls or for the cluster.                                       *)
(***************************************************************************)
FairSpec ==
    /\ Spec
    /\ \A w \in Waiter :
        /\ WF_vars(Apply(w))
        /\ \A j \in Ids[w] : SF_vars(Answer(w, j))

-----------------------------------------------------------------------------

TypeOK ==
    /\ backend \in Backends
    /\ cluster \in [Job -> Place]
    /\ arrays \in ArraySets
    /\ fate \in [Job -> SUBSET TaskFate]
    /\ \A j \in Job : IF Over(j) THEN fate[j] \in Fates(j) ELSE fate[j] = {}
    /\ jobs \in SUBSET Job
    /\ status \in [Job -> Status]
    /\ result \in [Job -> Result \cup {NoResult}]
    /\ evicted \in SUBSET Job /\ evicted \cap jobs = {}
    /\ phase \in [Waiter -> {"idle", "poll", "done", "cancelled"}]
    /\ pending \in [Waiter -> SUBSET Job]
    /\ answer \in [Waiter -> [Job -> Status \cup {"none"}]]
    /\ entry \in [Waiter -> [Job -> Entry]]
    /\ todo \in [Canceller -> SUBSET Job]
    /\ target \in [Canceller -> Job \cup {NoJob}]
    /\ misled \in SUBSET Job

\* base.py:461, "Only TERMINAL records (DONE, EXIT, CANCELED) are eligible":
\* whatever statuses the polls of concurrent waits have written last, no job
\* that goes on is dropped, save one whose cancel was tried or about which an
\* error was misread.
EvictedWereOver ==
    [][\A j \in evicted' \ evicted :
        \/ Over(j)
        \/ status[j] = "CANCELED"
        \/ \E c \in Canceller : target[c] = j
        \/ j \in misled]_vars

\* What became of a job: 0 only if all went well.
Code(j) == IF "fail" \in fate[j] THEN 1
           ELSE IF "killed" \in fate[j] THEN -1 ELSE 0

\* A killed task no exit code file tells of: those of an LSF job that bjobs no
\* longer lists, which counts as DONE, and those of an array whose other tasks
\* succeeded.
Untold(j) ==
    \/ backend = "lsf" /\ fate[j] = {"killed"} /\ cluster[j] = "purged"
    \/ fate[j] = {"ok", "killed"}

\* base.py:613, "Wait for all listed jobs to reach a terminal state (DONE or
\* EXIT)": whoever gets a result from a wait is over, and every result, kept or
\* handed out, tells what became of the job, for all that polls are answered
\* late, fail, or come after a cancel.  Not if an error was misread about it.
ResultIsTrue ==
    \A j \in Job \ misled :
        /\ result[j] # NoResult => result[j].code = Code(j) \/ Untold(j)
        /\ \A w \in Waiter : entry[w][j] \in Result =>
              Over(j) /\ (entry[w][j].code = Code(j) \/ Untold(j))

\* base.py:620, "mapping job_id -> result dict": a wait that returns answers
\* for each job it was asked for, but for those evicted while it waited.
AnsweredOrEvicted ==
    \A w \in Waiter, j \in Job :
        phase[w] = "done" /\ entry[w][j] = NoEntry => j \in evicted

Waiting(w) == phase[w] = "poll"

\* SLURM alone: neither a job that left no exit code file nor one whose
\* record was evicted meanwhile ever gets a terminal status, once squeue does
\* not list it.
Unanswerable(j) ==
    /\ backend = "slurm" /\ cluster[j] = "purged"
    /\ \/ j \notin arrays /\ fate[j] = {"killed"}
       \/ j \in evicted

Overdue(w) ==
    /\ Waiting(w)
    /\ \A j \in pending[w] : Over(j) /\ ~Unanswerable(j)

\* A wait whose jobs are all over returns, however many polls fail, unless
\* one of them can only time out.
WaitsEnd == []<>(\A w \in Waiter : ~Overdue(w))
=============================================================================
