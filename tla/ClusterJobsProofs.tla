-------------------------- MODULE ClusterJobsProofs -------------------------
(***************************************************************************)
(* Proofs about ClusterJobs, for any number of jobs, calls and records, on *)
(* either scheduler, and with any arrays.                                  *)
(***************************************************************************)
EXTENDS ClusterJobs, TLAPS

-----------------------------------------------------------------------------
Taken(j) == cluster[j] \in {"active", "ended", "purged"}

\* Whoever has or had a record was taken by the cluster.
Recorded == \A j \in jobs \cup evicted : Taken(j)

\* A record is terminal only for a job that is over, or misread about.
Statuses == \A j \in Job : status[j] \in TERMINAL => Over(j) \/ j \in misled

\* What a wait has before it: jobs that have a record or lost it, answers
\* about those alone, and no entry yet for nobody else, unless he lost his
\* record meanwhile.
Awaited ==
    \A w \in Waiter :
        /\ phase[w] # "poll" => pending[w] = {}
        /\ pending[w] \subseteq jobs \cup evicted
        /\ \A j \in Job :
            /\ answer[w][j] # "none" => j \in pending[w]
            /\ entry[w][j] = NoEntry => j \in pending[w] \cup evicted

\* A terminal answer about a job that has its record was true when it came,
\* and stays true, unless an error was misread; only LSF calls a single job
\* done that was killed, and only when it no longer lists it.  No poll is
\* answered "CANCELED".
AnswerTrue(j, st) ==
    /\ st # "CANCELED"
    /\ st \in TERMINAL =>
        /\ Over(j)
        /\ j \notin arrays /\ fate[j] = {"killed"} /\ st = "DONE"
            => backend = "lsf" /\ cluster[j] = "purged"

AnswersTrue ==
    \A w \in Waiter, j \in jobs \ misled : AnswerTrue(j, answer[w][j])

\* A result with this code is one to be had.
Tells(j, code) ==
    j \in misled \/ (Over(j) /\ (code = Code(j) \/ Untold(j)))

ResultsTrue ==
    \A j \in Job :
        /\ result[j] # NoResult => Tells(j, result[j].code)
        /\ \A w \in Waiter : entry[w][j] \in Result => Tells(j, entry[w][j].code)

IInv == /\ TypeOK /\ Recorded /\ Statuses /\ Awaited
        /\ AnswersTrue /\ ResultsTrue

-----------------------------------------------------------------------------
\* The data.

LEMMA Entries ==
  /\ NoResult \notin Result /\ NoEntry \notin Result
  /\ NotAsked \notin Result /\ NotAsked # NoEntry
  /\ \A st \in {"ERROR", "EVICTED", "TIMEOUT"} :
        Special(st) \notin Result /\ Special(st) # NoEntry
        /\ Special(st) \in Entry
  /\ Result \cup {NotAsked, NoEntry} \subseteq Entry
  BY DEF NoResult, NoEntry, NotAsked, Special, Result, Entry, TERMINAL

\* What the wrapper script and the scheduler leave of a job is collected to a
\* result that tells what became of it.
LEMMA CollectedTells ==
  ASSUME TypeOK, NEW j \in Job, NEW st \in TERMINAL,
         j \notin misled => AnswerTrue(j, st)
  PROVE  Collected(j, st) \in Result /\ Tells(j, Collected(j, st).code)
<1>0. CASE j \in misled
  BY <1>0 DEF Collected, CollectedArray, CollectedSingle, Result, Tells, TERMINAL
<1> SUFFICES ASSUME j \notin misled, AnswerTrue(j, st)
             PROVE  /\ Collected(j, st) \in Result
                    /\ Tells(j, Collected(j, st).code)
  BY <1>0
<1> Over(j) /\ fate[j] \in Fates(j)
  BY DEF AnswerTrue, TypeOK
<1> USE DEF AnswerTrue
<1>1. CASE j \in arrays
  <2>1. fate[j] \in (SUBSET {"ok", "fail", "killed"}) \ {{}}
    BY <1>1, ConstantsAssumption DEF Fates
  <2>2. CASE fate[j] = {"killed"}
    <3>1. Collected(j, st) = [status |-> st, code |-> -1]
      BY <1>1, <2>2 DEF Collected, CollectedArray
    <3>2. Code(j) = -1
      BY <2>2 DEF Code
    <3> QED BY <3>1, <3>2 DEF Tells, Result
  <2>3. CASE "fail" \in fate[j]
    <3>1. ~(fate[j] \subseteq {"killed"})
      BY <2>3
    <3>2. Collected(j, st) = [status |-> "EXIT", code |-> 1] /\ Code(j) = 1
      BY <1>1, <2>3, <3>1 DEF Collected, CollectedArray, Code
    <3> QED BY <3>2 DEF Tells, Result, TERMINAL
  <2>4. CASE "fail" \notin fate[j] /\ fate[j] # {"killed"}
    <3>1. fate[j] = {"ok"} \/ fate[j] = {"ok", "killed"}
      BY <2>1, <2>4
    <3>2. Collected(j, st) = [status |-> "DONE", code |-> 0]
      <4>1. ~(fate[j] \subseteq {"killed"})
        BY <3>1
      <4> QED BY <1>1, <2>4, <4>1 DEF Collected, CollectedArray
    <3>3. Code(j) = 0 \/ Untold(j)
      BY <3>1 DEF Code, Untold
    <3> QED BY <3>2, <3>3 DEF Tells, Result, TERMINAL
  <2> QED BY <2>2, <2>3, <2>4
<1>2. CASE j \notin arrays
  <2>1. PICK f \in {"ok", "fail", "killed"} : fate[j] = {f}
    BY <1>2 DEF Fates, TaskFate
  <2>2. CASE f = "ok"
    BY <1>2, <2>1, <2>2
    DEF Collected, CollectedSingle, Tells, Code, Result, TERMINAL
  <2>3. CASE f = "fail"
    BY <1>2, <2>1, <2>3
    DEF Collected, CollectedSingle, Tells, Code, Result, TERMINAL
  <2>4. CASE f = "killed"
    BY <1>2, <2>1, <2>4
    DEF Collected, CollectedSingle, Tells, Code, Untold, Result, TERMINAL
  <2> QED BY <2>1, <2>2, <2>3, <2>4
<1> QED BY <1>1, <1>2

LEMMA ParsedType ==
  ASSUME NEW j \in Job
  PROVE  ParsedStatuses(j) \subseteq Status \ {"CANCELED"}
<1> DEFINE Polled == Status \ {"CANCELED"}
<1>1. /\ Listed(j) \subseteq Polled /\ ListedActive(j) \subseteq Polled
      /\ FromExitFile(j) \in Polled
  BY DEF Listed, ListedActive, FromExitFile, Status, TERMINAL
<1>2. Unlisted(j) \in Polled
  BY <1>1 DEF Unlisted, Status, TERMINAL
<1> QED BY <1>1, <1>2 DEF ParsedStatuses

\* A terminal answer about a job with a record.
LEMMA ParsedTrue ==
  ASSUME TypeOK, Recorded, NEW j \in jobs, NEW st \in ParsedStatuses(j)
  PROVE  AnswerTrue(j, st)
<1> SUFFICES ASSUME st \in TERMINAL
             PROVE  /\ Over(j)
                    /\ j \notin arrays /\ fate[j] = {"killed"} /\ st = "DONE"
                        => backend = "lsf" /\ cluster[j] = "purged"
  BY ParsedType DEF AnswerTrue, TypeOK
<1>1. backend \in {"slurm", "lsf"} /\ j \in Job /\ Taken(j)
  BY ConstantsAssumption DEF TypeOK, Recorded
<1>2. CASE cluster[j] = "active"
  <2>1. ParsedStatuses(j) = {"LIVE"}
    BY <1>2 DEF ParsedStatuses, ListedActive
  <2> QED BY <2>1 DEF TERMINAL
<1>3. CASE cluster[j] = "ended"
  <2>1. st \in Listed(j)
    BY <1>3 DEF ParsedStatuses
  <2>2. j \notin arrays /\ fate[j] = {"killed"} => st = "EXIT"
    BY <2>1 DEF Listed
  <2> QED BY <1>3, <2>2 DEF Over
<1>4. CASE cluster[j] = "purged"
  <2>1. st = Unlisted(j)
    BY <1>4 DEF ParsedStatuses
  <2>2. CASE backend = "slurm"
    BY <1>4, <2>1, <2>2 DEF Unlisted, FromExitFile, Over, TERMINAL
  <2> QED BY <1>1, <1>4, <2>2 DEF Over
<1> QED BY <1>1, <1>2, <1>3, <1>4 DEF Taken

-----------------------------------------------------------------------------
\* The cluster moves on.

\* Its jobs stay where they were, or go on: none comes back, and none that is
\* over gets another fate.
GoesOn ==
    /\ UNCHANGED <<backend, arrays>>
    /\ misled \subseteq misled'
    /\ \A j \in Job :
        /\ Taken(j) => Taken(j)'
        /\ Over(j) => Over(j)' /\ fate'[j] = fate[j]
        /\ cluster[j] = "purged" => cluster'[j] = "purged"

LEMMA TellsOn ==
  ASSUME GoesOn, NEW j \in Job, Over(j)
  PROVE  Over(j)' /\ Code(j)' = Code(j) /\ (Untold(j) => Untold(j)')
  BY DEF GoesOn, Code, Untold

\* The cluster stands still.
Stands ==
    /\ UNCHANGED <<backend, arrays, cluster, fate>>
    /\ misled \subseteq misled' /\ misled' \in SUBSET Job

LEMMA StandsOn ==
  ASSUME Stands PROVE GoesOn
  BY DEF Stands, GoesOn, Taken, Over

LEMMA RemoteStands ==
  ASSUME TypeOK, UNCHANGED remote PROVE Stands
  BY DEF remote, Stands, TypeOK

\* A step of the cluster alone.
LEMMA InvGoesOn ==
  ASSUME IInv, GoesOn, TypeOK', UNCHANGED <<records, waits>>
  PROVE  IInv'
<1> USE DEF IInv, records, waits
<1>1. Recorded' /\ Statuses'
  BY DEF GoesOn, TypeOK, Recorded, Statuses
<1>2. Awaited'
  BY DEF Awaited
<1>3. AnswersTrue'
  <2>1. ASSUME NEW j \in jobs, NEW st, AnswerTrue(j, st)
        PROVE  AnswerTrue(j, st)'
    BY <2>1 DEF GoesOn, TypeOK, AnswerTrue
  <2> QED BY <2>1 DEF AnswersTrue, GoesOn
<1>4. ResultsTrue'
  <2>1. ASSUME NEW j \in Job, result[j] # NoResult
        PROVE  Tells(j, result[j].code)'
    BY <2>1, TellsOn DEF ResultsTrue, Tells, GoesOn
  <2>2. ASSUME NEW j \in Job, NEW w \in Waiter, entry[w][j] \in Result
        PROVE  Tells(j, entry[w][j].code)'
    BY <2>2, TellsOn DEF ResultsTrue, Tells, GoesOn
  <2> QED BY <2>1, <2>2 DEF ResultsTrue
<1> QED BY <1>1, <1>2, <1>3, <1>4

-----------------------------------------------------------------------------
\* Eviction.

LEMMA VictimsOver ==
  ASSUME NEW st, NEW j \in Victims(st)
  PROVE  j \in jobs /\ st[j] \in TERMINAL \cup {"CANCELED"}
  BY DEF Victims, Evictable

\* What the records may become at the end of a wait or a cancel, st and res
\* being what they are before old ones are dropped.
Updated(st, res) == Evict(st, res) \/ Keep(st, res)

LEMMA UpdatedRecords ==
  ASSUME TypeOK, NEW st \in [Job -> Status],
         NEW res \in [Job -> Result \cup {NoResult}], Updated(st, res)
  PROVE  /\ jobs' \in SUBSET jobs
         /\ evicted \subseteq evicted'
         /\ jobs' \cup evicted' = jobs \cup evicted
         /\ evicted' \cap jobs' = {}
         /\ status' \in [Job -> Status]
         /\ result' \in [Job -> Result \cup {NoResult}]
         /\ \A j \in Job : status'[j] \in {st[j], "LIVE"}
         /\ \A j \in Job : result'[j] \in {res[j], NoResult}
<1>1. CASE Keep(st, res)
  BY <1>1 DEF Keep, TypeOK
<1>2. CASE Evict(st, res)
  <2>1. Victims(st) \subseteq jobs
    BY VictimsOver
  <2> QED BY <1>2, <2>1 DEF Evict, TypeOK, Status
<1> QED BY <1>1, <1>2 DEF Updated

-----------------------------------------------------------------------------
\* The invariant.

LEMMA InvInit == Init => IInv
<1> SUFFICES ASSUME Init PROVE IInv
  OBVIOUS
<1>1. TypeOK
  BY ConstantsAssumption
  DEF Init, TypeOK, Place, Over, Status, NoAnswers, Entry
<1>2. Recorded /\ Statuses /\ AnswersTrue
  BY DEF Init, Recorded, Statuses, AnswersTrue, TERMINAL
<1>3. Awaited /\ ResultsTrue
  BY Entries DEF Init, Awaited, ResultsTrue, NoAnswers
<1> QED BY <1>1, <1>2, <1>3 DEF IInv

\* A job that ends, by itself or killed.
LEMMA InvEnds ==
  ASSUME IInv, NEW j \in Job, NEW fates \in SUBSET Fates(j), Ends(j, fates),
         UNCHANGED <<backend, arrays, misled, records, waits>>,
         todo' \in [Canceller -> SUBSET Job],
         target' \in [Canceller -> Job \cup {NoJob}]
  PROVE  IInv'
<1>0. PICK place \in {"ended", "purged"} :
        cluster' = [cluster EXCEPT ![j] = place]
  BY DEF Ends, Left
<1>1. GoesOn
  BY <1>0 DEF Ends, GoesOn, IInv, TypeOK, Taken, Over
<1>2. cluster' \in [Job -> Place] /\ fate' \in [Job -> SUBSET TaskFate]
  <2>1. ArrayFates \subseteq SUBSET TaskFate
    BY ConstantsAssumption DEF TaskFate
  <2>2. Fates(j) \subseteq SUBSET TaskFate
    BY <2>1 DEF Fates
  <2> QED BY <1>0, <2>2 DEF Ends, IInv, TypeOK, Place
<1>3. \A i \in Job :
        IF Over(i)' THEN fate'[i] \in Fates(i)' ELSE fate'[i] = {}
  BY <1>0 DEF Ends, IInv, TypeOK, Over, Fates
<1>4. TypeOK'
  BY <1>2, <1>3 DEF IInv, TypeOK, records, waits
<1> QED BY <1>1, <1>4, InvGoesOn

\* A job that the cluster takes.
LEMMA InvSubmitted ==
  ASSUME IInv, NEW j \in Job, Submitted(j),
         \/ UNCHANGED waits
         \/ \E w \in Waiter :
              /\ phase[w] = "idle"
              /\ phase' = [phase EXCEPT ![w] = "poll"]
              /\ pending' = [pending EXCEPT ![w] = {j}]
              /\ entry' = [entry EXCEPT ![w][j] = NoEntry]
              /\ UNCHANGED answer
  PROVE  IInv'
<1> USE DEF IInv
<1>1. /\ cluster[j] = "none" /\ cluster' = [cluster EXCEPT ![j] = "active"]
      /\ jobs' = jobs \cup {j}
      /\ UNCHANGED <<backend, arrays, misled, fate, status, result, evicted, todo,
                     target>>
  BY DEF Submitted, NextId, cancels
<1>2. j \notin jobs \cup evicted /\ ~Over(j)
  BY <1>1 DEF Recorded, Taken, Over
<1>3. /\ GoesOn
      /\ \A i \in Job : Over(i)' <=> Over(i)
      /\ \A i \in Job : Taken(i) \/ i = j => Taken(i)'
  BY <1>1 DEF GoesOn, TypeOK, Taken, Over
<1> DEFINE WaitsAfter ==
           /\ phase' \in [Waiter -> {"idle", "poll", "done", "cancelled"}]
           /\ pending' \in [Waiter -> SUBSET Job]
           /\ entry' \in [Waiter -> [Job -> Entry]]
           /\ answer' = answer
           /\ \A w \in Waiter :
                 /\ phase'[w] # "poll" => pending'[w] = pending[w]
                                          /\ phase[w] # "poll"
                 /\ \/ pending'[w] = pending[w]
                    \/ pending[w] = {} /\ pending'[w] = {j}
                 /\ \A i \in Job :
                     \/ entry'[w][i] = entry[w][i]
                     \/ i \in pending'[w] /\ entry'[w][i] = NoEntry
<1>4. WaitsAfter
  <2>1. CASE UNCHANGED waits
    <3>1. UNCHANGED <<phase, pending, answer, entry>>
      BY <2>1 DEF waits
    <3>2. ASSUME NEW w \in Waiter
          PROVE  /\ phase'[w] # "poll" =>
                      pending'[w] = pending[w] /\ phase[w] # "poll"
                 /\ pending'[w] = pending[w]
                 /\ \A i \in Job : entry'[w][i] = entry[w][i]
      BY <3>1
    <3> QED BY <3>1, <3>2 DEF TypeOK
  <2>2. ASSUME NEW w \in Waiter,
               phase[w] = "idle",
               phase' = [phase EXCEPT ![w] = "poll"],
               pending' = [pending EXCEPT ![w] = {j}],
               entry' = [entry EXCEPT ![w][j] = NoEntry],
               UNCHANGED answer
        PROVE  WaitsAfter
    <3>1. pending[w] = {}
      BY <2>2 DEF Awaited
    <3>2. NoEntry \in Entry
      BY Entries
    <3>3. \A i \in Job : entry'[w][i] = IF i = j THEN NoEntry ELSE entry[w][i]
      BY <2>2 DEF TypeOK
    <3>4. /\ phase' \in [Waiter -> {"idle", "poll", "done", "cancelled"}]
          /\ pending' \in [Waiter -> SUBSET Job]
          /\ entry' \in [Waiter -> [Job -> Entry]]
      BY <2>2, <3>2 DEF TypeOK
    <3>5. ASSUME NEW u \in Waiter
          PROVE  /\ phase'[u] # "poll" =>
                        pending'[u] = pending[u] /\ phase[u] # "poll"
                 /\ \/ pending'[u] = pending[u]
                    \/ pending[u] = {} /\ pending'[u] = {j}
                 /\ \A i \in Job :
                     \/ entry'[u][i] = entry[u][i]
                     \/ i \in pending'[u] /\ entry'[u][i] = NoEntry
      <4>1. CASE u = w
        BY <2>2, <3>1, <3>3, <4>1 DEF TypeOK
      <4>2. CASE u # w
        BY <2>2, <4>2 DEF TypeOK
      <4> QED BY <4>1, <4>2
    <3> QED BY <2>2, <3>4, <3>5
  <2> QED BY <2>1, <2>2
<1> HIDE DEF WaitsAfter
<1>5. TypeOK'
  <2>1. \A i \in Job : Fates(i)' = Fates(i)
    BY <1>1 DEF Fates
  <2> QED BY <1>1, <1>2, <1>3, <1>4, <2>1 DEF TypeOK, Place, WaitsAfter
<1>6. Recorded' /\ Statuses'
  BY <1>1, <1>3 DEF TypeOK, Recorded, Statuses
<1>7. Awaited'
  BY <1>1, <1>4 DEF WaitsAfter, TypeOK, Awaited
<1>8. AnswersTrue'
  <2>1. ASSUME NEW w \in Waiter, NEW i \in jobs \ misled
        PROVE  AnswerTrue(i, answer[w][i])'
    BY <1>1, <1>3, <1>4, <2>1
    DEF WaitsAfter, TypeOK, AnswersTrue, AnswerTrue, GoesOn
  <2>2. ASSUME NEW w \in Waiter
        PROVE  answer'[w][j] = "none"
    BY <1>2, <1>4, <2>2 DEF WaitsAfter, Awaited
  <2>3. "none" \notin TERMINAL
    BY DEF TERMINAL
  <2> QED BY <1>1, <2>1, <2>2, <2>3 DEF AnswersTrue, AnswerTrue
<1>9. ResultsTrue'
  <2>1. ASSUME NEW i \in Job, NEW code, Tells(i, code)
        PROVE  \/ i \in misled'
               \/ Over(i)' /\ (code = Code(i)' \/ Untold(i)')
    BY <1>3, <2>1, TellsOn DEF Tells, GoesOn
  <2>2. ASSUME NEW i \in Job, NEW w \in Waiter, entry'[w][i] \in Result
        PROVE  entry'[w][i] = entry[w][i]
    BY <1>4, <2>2, Entries DEF WaitsAfter
  <2> QED BY <1>1, <2>1, <2>2 DEF ResultsTrue, Tells
<1> QED BY <1>5, <1>6, <1>7, <1>8, <1>9

-----------------------------------------------------------------------------
\* The steps of the waits and of the cancels.

\* Statuses and results that the records may have.
RecordsTrue(st, res) ==
    /\ st \in [Job -> Status]
    /\ res \in [Job -> Result \cup {NoResult}]
    /\ \A j \in Job :
        /\ st[j] \in TERMINAL => Over(j) \/ j \in misled
        /\ res[j] # NoResult => Tells(j, res[j].code)

\* What a wait may have before it, M being the jobs misread about.
WaitTrue(M, ph, P, A, N) ==
    /\ ph # "poll" => P = {}
    /\ P \subseteq jobs \cup evicted
    /\ \A j \in Job :
        /\ A[j] # "none" => j \in P
        /\ j \in jobs \ M => AnswerTrue(j, A[j])
        /\ N[j] = NoEntry => j \in P \cup evicted
        /\ N[j] \in Result => Tells(j, N[j].code)

LEMMA InvRecords ==
  ASSUME IInv, Stands,
         NEW STATE st, NEW STATE res, RecordsTrue(st, res), Updated(st, res),
         phase' \in [Waiter -> {"idle", "poll", "done", "cancelled"}],
         pending' \in [Waiter -> SUBSET Job],
         answer' \in [Waiter -> [Job -> Status \cup {"none"}]],
         entry' \in [Waiter -> [Job -> Entry]],
         todo' \in [Canceller -> SUBSET Job],
         target' \in [Canceller -> Job \cup {NoJob}],
         \A w \in Waiter :
            WaitTrue(misled', phase'[w], pending'[w], answer'[w], entry'[w])
  PROVE  IInv'
<1> USE DEF RecordsTrue, WaitTrue
<1> USE DEF IInv
<1>1. /\ UNCHANGED <<backend, arrays, cluster, fate>>
      /\ misled \subseteq misled' /\ misled' \in SUBSET Job
  BY DEF Stands
<1>2. /\ jobs' \in SUBSET jobs
      /\ evicted \subseteq evicted'
      /\ jobs' \cup evicted' = jobs \cup evicted
      /\ evicted' \cap jobs' = {}
      /\ status' \in [Job -> Status]
      /\ result' \in [Job -> Result \cup {NoResult}]
      /\ \A j \in Job : status'[j] \in {st[j], "LIVE"}
      /\ \A j \in Job : result'[j] \in {res[j], NoResult}
  BY UpdatedRecords
<1>3. TypeOK'
  BY <1>1, <1>2 DEF TypeOK, Over, Fates
<1>4. Recorded' /\ Statuses'
  BY <1>1, <1>2 DEF Recorded, Taken, Statuses, Over, TERMINAL
<1>5. Awaited'
  BY <1>2 DEF Awaited
<1>6. AnswersTrue'
  BY <1>1, <1>2 DEF TypeOK, AnswersTrue, AnswerTrue, Over
<1>7. ResultsTrue'
  <2>1. ASSUME NEW j \in Job, NEW code, Tells(j, code)
        PROVE  \/ j \in misled'
               \/ Over(j)' /\ (code = Code(j)' \/ Untold(j)')
    BY <2>1, StandsOn, TellsOn DEF Tells, GoesOn
  <2>2. ASSUME NEW j \in Job, result'[j] # NoResult
        PROVE  Tells(j, result'[j].code)
    BY <1>2, <2>2
  <2>3. ASSUME NEW j \in Job, NEW w \in Waiter, entry'[w][j] \in Result
        PROVE  Tells(j, entry'[w][j].code)
    BY <2>3
  <2> QED BY <2>1, <2>2, <2>3 DEF ResultsTrue, Tells
<1> QED BY <1>3, <1>4, <1>5, <1>6, <1>7

\* One wait has ph, P, A and N before it.
Sets(w, ph, P, A, N) ==
    /\ phase' = [phase EXCEPT ![w] = ph]
    /\ pending' = [pending EXCEPT ![w] = P]
    /\ answer' = [answer EXCEPT ![w] = A]
    /\ entry' = [entry EXCEPT ![w] = N]

WaitType(ph, A, N) ==
    /\ ph \in {"poll", "done", "cancelled"}
    /\ A \in [Job -> Status \cup {"none"}]
    /\ N \in [Job -> Entry]

LEMMA WaitsNow ==
  ASSUME IInv, NEW w \in Waiter, NEW M, misled \subseteq M
  PROVE  WaitTrue(M, phase[w], pending[w], answer[w], entry[w])
  BY DEF IInv, TypeOK, WaitTrue, Awaited, AnswersTrue, ResultsTrue

\* The others' waits are as they were.
LEMMA InvOneWait ==
  ASSUME IInv, Stands, UNCHANGED cancels,
         NEW STATE st, NEW STATE res, RecordsTrue(st, res), Updated(st, res),
         NEW w \in Waiter,
         NEW STATE ph, NEW STATE P, NEW STATE A, NEW STATE N,
         Sets(w, ph, P, A, N), WaitType(ph, A, N), WaitTrue(misled', ph, P, A, N)
  PROVE  IInv'
<1>1. P \in SUBSET Job
  BY DEF IInv, TypeOK, WaitTrue
<1>2. /\ phase' \in [Waiter -> {"idle", "poll", "done", "cancelled"}]
      /\ pending' \in [Waiter -> SUBSET Job]
      /\ answer' \in [Waiter -> [Job -> Status \cup {"none"}]]
      /\ entry' \in [Waiter -> [Job -> Entry]]
      /\ todo' \in [Canceller -> SUBSET Job]
      /\ target' \in [Canceller -> Job \cup {NoJob}]
  BY <1>1 DEF IInv, TypeOK, cancels, Sets, WaitType
<1>3. ASSUME NEW u \in Waiter
      PROVE  WaitTrue(misled', phase'[u], pending'[u], answer'[u], entry'[u])
  <2>1. CASE u = w
    <3>1. /\ phase'[u] = ph /\ pending'[u] = P
          /\ answer'[u] = A /\ entry'[u] = N
      BY <2>1 DEF IInv, TypeOK, Sets
    <3> QED BY <3>1
  <2>2. CASE u # w
    <3>1. /\ phase'[u] = phase[u] /\ pending'[u] = pending[u]
          /\ answer'[u] = answer[u] /\ entry'[u] = entry[u]
      BY <2>2 DEF IInv, TypeOK, Sets
    <3> QED BY <3>1, WaitsNow DEF Stands
  <2> QED BY <2>1, <2>2
<1> QED BY <1>2, <1>3, InvRecords

\* The records as they are.
LEMMA Current ==
  ASSUME IInv
  PROVE  /\ RecordsTrue(status, result)
         /\ UNCHANGED records => Updated(status, result)
  BY DEF IInv, TypeOK, Statuses, ResultsTrue, RecordsTrue, Updated, Keep,
         records

LEMMA InvWait ==
  ASSUME IInv, NEW w \in Waiter, Wait(w) PROVE IInv'
<1> DEFINE U == {j \in Ids[w] \cap jobs : result[j] = NoResult}
           N == [j \in Job |-> CASE j \in U -> NoEntry
                                [] j \in Ids[w] \ U -> FirstEntry(j)
                                [] OTHER -> NotAsked]
           ph == IF U = {} THEN "done" ELSE "poll"
<1>1. /\ Stands /\ UNCHANGED cancels
      /\ Updated(status, result)
      /\ phase[w] = "idle"
  BY RemoteStands DEF IInv, Wait, Updated
<1>2. Sets(w, ph, U, answer[w], N)
  BY DEF Wait, IInv, TypeOK, Sets
<1>3. \A j \in Job : answer[w][j] = "none"
  BY <1>1 DEF IInv, Awaited
<1>4. answer[w] \in [Job -> Status \cup {"none"}]
  BY DEF IInv, TypeOK
<1>5. /\ U \in SUBSET (jobs \cup evicted)
      /\ ph \in {"poll", "done", "cancelled"}
      /\ ph # "poll" => U = {}
  OBVIOUS
<1>6. ASSUME NEW j \in Job
      PROVE  /\ N[j] \in Entry
             /\ N[j] = NoEntry => j \in U
             /\ N[j] \in Result => Tells(j, N[j].code)
  <2>1. CASE j \in U
    <3>1. N[j] = NoEntry
      BY <2>1
    <3> HIDE DEF N
    <3> QED BY <2>1, <3>1, Entries
  <2>2. CASE j \in Ids[w] \ U
    <3>1. N[j] = FirstEntry(j)
      BY <2>2
    <3> HIDE DEF N
    <3>2. CASE j \in jobs
      <4>1. N[j] = result[j] /\ result[j] # NoResult
        BY <2>2, <3>1, <3>2 DEF FirstEntry
      <4>2. /\ result[j] \in Result /\ NoEntry \notin Result
            /\ Result \subseteq Entry
        BY <4>1, Entries DEF IInv, TypeOK
      <4>3. Tells(j, result[j].code)
        BY <4>1, Current DEF RecordsTrue
      <4> QED BY <4>1, <4>2, <4>3
    <3>3. CASE j \notin jobs
      BY <3>1, <3>3, Entries DEF FirstEntry
    <3> QED BY <3>2, <3>3
  <2>3. CASE j \notin Ids[w]
    <3>1. N[j] = NotAsked
      BY <2>3
    <3> HIDE DEF N
    <3> QED BY <3>1, Entries
  <2> QED BY <2>1, <2>2, <2>3
<1>7. N \in [Job -> Entry]
  BY <1>6
<1>8. \A j \in Job : AnswerTrue(j, answer[w][j])
  BY <1>3 DEF AnswerTrue, TERMINAL
<1> HIDE DEF U, N, ph
<1>9. WaitType(ph, answer[w], N) /\ WaitTrue(misled', ph, U, answer[w], N)
  BY <1>3, <1>4, <1>5, <1>6, <1>7, <1>8 DEF WaitType, WaitTrue
<1> QED BY <1>1, <1>2, <1>9, InvOneWait, Current

LEMMA InvApply ==
  ASSUME IInv, NEW w \in Waiter, Apply(w) PROVE IInv'
<1> DEFINE F == Finished(w)
           st == [j \in Job |-> IF j \in pending[w] \cap jobs
                                THEN answer[w][j] ELSE status[j]]
           Outcome(j, other) == IF j \in F \cap jobs
                                THEN Collected(j, answer[w][j]) ELSE other
           res == [j \in Job |-> Outcome(j, result[j])]
           N == [j \in Job |-> Outcome(j, entry[w][j])]
           P == pending[w] \ F
           ph == IF pending[w] = F THEN "done" ELSE "poll"
<1>1. /\ Stands /\ UNCHANGED cancels
      /\ phase[w] = "poll"
      /\ \A j \in pending[w] : answer[w][j] # "none"
      /\ Updated(st, res)
  BY RemoteStands DEF IInv, Apply, Updated
<1>2. Sets(w, ph, P, NoAnswers, N)
  <2>1. phase' = [phase EXCEPT ![w] = ph]
    BY <1>1 DEF Apply, IInv, TypeOK
  <2> QED BY <2>1 DEF Apply, Sets
<1>3. WaitTrue(misled, phase[w], pending[w], answer[w], entry[w])
  BY WaitsNow
<1>4. RecordsTrue(status, result)
  BY Current
<1>5. ASSUME NEW j \in F \cap jobs
      PROVE  /\ Collected(j, answer[w][j]) \in Result
             /\ Tells(j, Collected(j, answer[w][j]).code)
  <2>1. j \in Job /\ answer[w][j] \in TERMINAL
    BY DEF Finished, IInv, TypeOK
  <2>2. j \notin misled => AnswerTrue(j, answer[w][j])
    BY <1>3, <2>1 DEF WaitTrue
  <2> QED BY <2>1, <2>2, CollectedTells DEF IInv
<1>6. RecordsTrue(st, res)
  <2>1. ASSUME NEW j \in Job
        PROVE  st[j] \in Status /\ (st[j] \in TERMINAL => Over(j) \/ j \in misled)
    <3>1. CASE j \in pending[w] \cap jobs
      <4>1. st[j] = answer[w][j] /\ answer[w][j] \in Status
        BY <1>1, <3>1 DEF IInv, TypeOK
      <4>2. j \notin misled => AnswerTrue(j, answer[w][j])
        BY <1>3, <3>1 DEF WaitTrue
      <4> QED BY <4>1, <4>2 DEF AnswerTrue
    <3>2. CASE j \notin pending[w] \cap jobs
      BY <1>4, <3>2 DEF RecordsTrue
    <3> QED BY <3>1, <3>2
  <2>2. ASSUME NEW j \in Job
        PROVE  /\ res[j] \in Result \cup {NoResult}
               /\ res[j] # NoResult => Tells(j, res[j].code)
    BY <1>4, <1>5, <2>2 DEF RecordsTrue
  <2> QED BY <2>1, <2>2 DEF RecordsTrue
<1>7. WaitType(ph, NoAnswers, N)
  <2>1. \A j \in Job : N[j] \in Entry
    BY <1>5, Entries DEF IInv, TypeOK
  <2> QED BY <2>1 DEF WaitType, NoAnswers
<1>8. WaitTrue(misled', ph, P, NoAnswers, N)
  <2>1. P \subseteq jobs \cup evicted /\ (ph # "poll" => P = {})
    BY <1>3 DEF WaitTrue
  <2>2. \A j \in Job : NoAnswers[j] = "none" /\ AnswerTrue(j, NoAnswers[j])
    BY DEF NoAnswers, AnswerTrue, TERMINAL
  <2>3. ASSUME NEW j \in Job
        PROVE  /\ N[j] = NoEntry => j \in P \cup evicted
               /\ N[j] \in Result => Tells(j, N[j].code)
    <3>1. CASE j \in F \cap jobs
      BY <1>5, <3>1, Entries
    <3>2. CASE j \notin F \cap jobs
      <4>1. N[j] = entry[w][j]
        BY <3>2
      <4>2. /\ entry[w][j] = NoEntry => j \in pending[w] \cup evicted
            /\ entry[w][j] \in Result => Tells(j, entry[w][j].code)
            /\ pending[w] \subseteq jobs \cup evicted
        BY <1>3 DEF WaitTrue
      <4> HIDE DEF N
      <4> QED BY <3>2, <4>1, <4>2
    <3> QED BY <3>1, <3>2
  <2> HIDE DEF P, N, ph
  <2> QED BY <2>1, <2>2, <2>3 DEF WaitTrue
<1> HIDE DEF st, res, N, P, ph
<1> QED BY <1>1, <1>2, <1>6, <1>7, <1>8, InvOneWait

LEMMA InvExpire ==
  ASSUME IInv, NEW w \in Waiter, Expire(w) PROVE IInv'
<1> DEFINE N == [j \in Job |-> IF j \in pending[w]
                                THEN Special("TIMEOUT") ELSE entry[w][j]]
<1>1. /\ Stands /\ UNCHANGED cancels
      /\ Updated(status, result)
      /\ answer[w] = NoAnswers
  BY RemoteStands DEF IInv, Expire, Updated
<1>2. Sets(w, "done", {}, answer[w], N)
  BY DEF Expire, IInv, TypeOK, Sets
<1>3. WaitTrue(misled, phase[w], pending[w], answer[w], entry[w])
  BY WaitsNow
<1>4. \A j \in Job :
        /\ N[j] \in Entry
        /\ N[j] = NoEntry => j \in evicted
        /\ N[j] \in Result => Tells(j, N[j].code)
  BY <1>3, Entries DEF WaitTrue, IInv, TypeOK
<1>5. WaitType("done", answer[w], N)
  BY <1>4 DEF WaitType, IInv, TypeOK
<1>6. WaitTrue(misled', "done", {}, answer[w], N)
  <2>1. \A j \in Job : answer[w][j] = "none" /\ AnswerTrue(j, answer[w][j])
    BY <1>1 DEF NoAnswers, AnswerTrue, TERMINAL
  <2> HIDE DEF N
  <2> QED BY <1>4, <2>1 DEF WaitTrue
<1> HIDE DEF N
<1> QED BY <1>1, <1>2, <1>5, <1>6, InvOneWait, Current

LEMMA InvWaitCancelled ==
  ASSUME IInv, NEW w \in Waiter, WaitCancelled(w) PROVE IInv'
<1> DEFINE N == [j \in Job |-> NotAsked]
<1>1. Stands /\ UNCHANGED cancels /\ UNCHANGED records
  BY RemoteStands DEF IInv, WaitCancelled
<1>2. Sets(w, "cancelled", {}, NoAnswers, N)
  BY DEF WaitCancelled, Sets
<1>3. \A j \in Job : NoAnswers[j] = "none" /\ AnswerTrue(j, NoAnswers[j])
  BY DEF NoAnswers, AnswerTrue, TERMINAL
<1>4. /\ WaitType("cancelled", NoAnswers, N)
      /\ WaitTrue(misled', "cancelled", {}, NoAnswers, N)
  BY <1>3, Entries DEF WaitType, WaitTrue, NoAnswers
<1> HIDE DEF N
<1> QED BY <1>1, <1>2, <1>4, InvOneWait, Current

LEMMA InvAnswered ==
  ASSUME IInv, NEW w \in Waiter, NEW j \in Job,
         Answer(w, j) \/ PollFails(w, j) \/ PollMisread(w, j)
  PROVE  IInv'
<1>1. PICK a :
        /\ Answered(w, j, a)
        /\ \/ a \in ParsedStatuses(j) \cup {"UNKWN"} /\ UNCHANGED misled
           \/ a \in TERMINAL /\ misled' = misled \cup {j}
  BY DEF Answer, PollFails, PollMisread
<1>2. a \in Status /\ (j \in jobs \ misled' => AnswerTrue(j, a))
  <2>1. "UNKWN" \in Status /\ AnswerTrue(j, "UNKWN") /\ TERMINAL \subseteq Status
    BY DEF Status, AnswerTrue, TERMINAL
  <2> QED BY <1>1, <2>1, ParsedType, ParsedTrue DEF IInv
<1> DEFINE A == [answer[w] EXCEPT ![j] = a]
<1>3. /\ Stands /\ UNCHANGED cancels /\ UNCHANGED records
      /\ phase[w] = "poll" /\ j \in pending[w]
  BY <1>1 DEF Answered, Stands, IInv, TypeOK
<1>4. Sets(w, phase[w], pending[w], A, entry[w])
  BY <1>1 DEF Answered, Sets, IInv, TypeOK
<1>5. WaitTrue(misled, phase[w], pending[w], answer[w], entry[w])
  BY WaitsNow
<1>6. answer[w] \in [Job -> Status \cup {"none"}] /\ entry[w] \in [Job -> Entry]
  BY DEF IInv, TypeOK
<1>7. WaitType(phase[w], A, entry[w])
  BY <1>2, <1>3, <1>6 DEF WaitType
<1>8. WaitTrue(misled', phase[w], pending[w], A, entry[w])
  <2>1. \A i \in Job : A[i] = IF i = j THEN a ELSE answer[w][i]
    BY <1>6
  <2> HIDE DEF A
  <2> QED BY <1>2, <1>3, <1>5, <2>1 DEF WaitTrue, Stands
<1> HIDE DEF A
<1> QED BY <1>3, <1>4, <1>7, <1>8, InvOneWait, Current

LEMMA InvCancels ==
  ASSUME IInv, NEW c \in Canceller, CancelRecorded(c) \/ CancelCancelled(c)
  PROVE  IInv'
<1>1. ASSUME Stands, UNCHANGED waits,
             NEW STATE st, NEW STATE res, RecordsTrue(st, res),
             Updated(st, res),
             todo' \in [Canceller -> SUBSET Job],
             target' \in [Canceller -> Job \cup {NoJob}]
      PROVE  IInv'
  <2>1. /\ phase' \in [Waiter -> {"idle", "poll", "done", "cancelled"}]
        /\ pending' \in [Waiter -> SUBSET Job]
        /\ answer' \in [Waiter -> [Job -> Status \cup {"none"}]]
        /\ entry' \in [Waiter -> [Job -> Entry]]
    BY <1>1 DEF waits, IInv, TypeOK
  <2>2. \A w \in Waiter :
            WaitTrue(misled', phase'[w], pending'[w], answer'[w], entry'[w])
    BY <1>1, WaitsNow DEF waits, Stands
  <2> QED BY <1>1, <2>1, <2>2, InvRecords
<1>2. CASE CancelRecorded(c)
  <2> DEFINE j == target[c]
             st == IF j \in jobs THEN [status EXCEPT ![j] = "CANCELED"]
                   ELSE status
  <2>1. /\ Stands /\ UNCHANGED waits
        /\ Updated(st, result)
        /\ todo' \in [Canceller -> SUBSET Job]
        /\ target' \in [Canceller -> Job \cup {NoJob}]
    BY <1>2, RemoteStands DEF CancelRecorded, Updated, IInv, TypeOK
  <2>2. RecordsTrue(st, result)
    BY Current DEF RecordsTrue, Status, TERMINAL
  <2> HIDE DEF st
  <2> QED BY <1>1, <2>1, <2>2
<1>3. CASE CancelCancelled(c)
  <2>1. /\ Stands /\ UNCHANGED <<records, waits>>
        /\ todo' \in [Canceller -> SUBSET Job]
        /\ target' \in [Canceller -> Job \cup {NoJob}]
    BY <1>3, RemoteStands DEF CancelCancelled, IInv, TypeOK
  <2> QED BY <1>1, <2>1, Current
<1> QED BY <1>2, <1>3

\* The cluster's own steps, and what a cancel does to it.
LEMMA InvCluster ==
  ASSUME IInv,
         \/ \E j \in Job : SubmitLost(j) \/ JobEnds(j) \/ Forget(j)
         \/ \E c \in Canceller, j \in Job : CancelSent(c, j)
  PROVE  IInv'
<1>1. ASSUME NEW j \in Job, JobEnds(j) PROVE IInv'
  <2>1. Ends(j, Fates(j)) /\ UNCHANGED <<backend, arrays, misled, records, waits, cancels>>
    BY <1>1 DEF JobEnds
  <2> QED BY <2>1, InvEnds DEF cancels, IInv, TypeOK
<1>2. ASSUME NEW j \in Job, SubmitLost(j) \/ Forget(j) PROVE IInv'
  <2>1. UNCHANGED <<backend, arrays, misled, fate, records, waits, cancels>>
    BY <1>2 DEF SubmitLost, Forget
  <2>2. /\ cluster' \in [Job -> Place]
        /\ \A i \in Job : Over(i)' <=> Over(i)
        /\ GoesOn
    BY <1>2 DEF SubmitLost, Forget, NextId, GoesOn, Taken, Over, Place, IInv,
                TypeOK
  <2>3. TypeOK'
    <3>1. \A i \in Job : Fates(i)' = Fates(i)
      BY <2>1 DEF Fates
    <3> QED BY <2>1, <2>2, <3>1 DEF IInv, TypeOK, records, waits, cancels
  <2> QED BY <2>1, <2>2, <2>3, InvGoesOn
<1>3. ASSUME NEW c \in Canceller, NEW j \in Job, CancelSent(c, j)
      PROVE  IInv'
  <2>1. /\ UNCHANGED <<backend, arrays, misled, records, waits>>
        /\ todo' \in [Canceller -> SUBSET Job]
        /\ target' \in [Canceller -> Job \cup {NoJob}]
    BY <1>3 DEF CancelSent, IInv, TypeOK
  <2>2. CASE UNCHANGED <<cluster, fate>>
    <3>1. GoesOn
      BY <2>1, <2>2, RemoteStands, StandsOn DEF remote, IInv
    <3>2. TypeOK'
      <4>1. \A i \in Job : Fates(i)' = Fates(i) /\ (Over(i)' <=> Over(i))
        BY <2>1, <2>2 DEF Fates, Over
      <4> QED BY <2>1, <2>2, <4>1 DEF IInv, TypeOK, records, waits
    <3> QED BY <2>1, <3>1, <3>2, InvGoesOn
  <2>3. CASE Ends(j, {f \in Fates(j) : "killed" \in f})
    BY <2>1, <2>3, InvEnds
  <2> QED BY <1>3, <2>2, <2>3 DEF CancelSent
<1> QED BY <1>1, <1>2, <1>3

LEMMA InvSubmits ==
  ASSUME IInv,
         (\E j \in Job : Submit(j)) \/ \E w \in Waiter : ExecuteBlocking(w)
  PROVE  IInv'
<1>1. ASSUME NEW j \in Job, Submit(j) PROVE IInv'
  BY <1>1, InvSubmitted DEF Submit
<1>2. ASSUME NEW w \in Waiter, ExecuteBlocking(w) PROVE IInv'
  <2>1. PICK j \in Ids[w] :
          /\ Submitted(j)
          /\ pending' = [pending EXCEPT ![w] = {j}]
          /\ entry' = [entry EXCEPT ![w][j] = NoEntry]
    BY <1>2 DEF ExecuteBlocking
  <2>2. j \in Job
    BY ConstantsAssumption
  <2> QED BY <1>2, <2>1, <2>2, InvSubmitted DEF ExecuteBlocking
<1> QED BY <1>1, <1>2

LEMMA InvStep == IInv /\ [Next]_vars => IInv'
<1> SUFFICES ASSUME IInv, [Next]_vars PROVE IInv'
  OBVIOUS
<1>1. CASE Next
  BY <1>1, InvCluster, InvSubmits, InvWait, InvApply, InvExpire,
     InvWaitCancelled, InvAnswered, InvCancels
  DEF Next
<1>2. CASE UNCHANGED vars
  <2>1. UNCHANGED <<backend, arrays, cluster, fate, jobs, status, result,
                    evicted, phase, pending, answer, entry, todo, target,
                    misled>>
    BY <1>2 DEF vars
  <2>2. GoesOn
    BY <2>1, RemoteStands, StandsOn DEF remote, IInv
  <2>3. TypeOK'
    <3>1. \A i \in Job : Fates(i)' = Fates(i) /\ (Over(i)' <=> Over(i))
      BY <2>1 DEF Fates, Over
    <3> QED BY <2>1, <3>1 DEF IInv, TypeOK
  <2> QED BY <2>1, <2>2, <2>3, InvGoesOn DEF records, waits
<1> QED BY <1>1, <1>2

LEMMA Invariant == Spec => []IInv
  BY InvInit, InvStep, PTL DEF Spec

-----------------------------------------------------------------------------

\* Every variable keeps its type; in particular no job has a record and is
\* remembered as evicted at the same time.  (ClusterExecutor)
THEOREM TypeCorrect == Spec => []TypeOK
  BY Invariant, PTL DEF IInv

\* However many waits, cancels and evictions overlap, and however late the
\* polls are or often they fail, every result that is kept or handed out tells
\* what became of its job, but for the killed tasks that no file tells of and
\* the jobs about which the text of an error was misread.
\* (wait, _collect_result and _collect_array_result)
THEOREM ResultsAlwaysTrue == Spec => []ResultIsTrue
<1>1. IInv => ResultIsTrue
  BY DEF IInv, ResultsTrue, ResultIsTrue, Tells
<1> QED BY <1>1, Invariant, PTL

\* A wait that returns has something for each of its jobs that was not evicted
\* while it waited.  (wait: a poll that finds the record gone)
THEOREM WaitsAnswer == Spec => []AnsweredOrEvicted
<1>1. IInv => AnsweredOrEvicted
  BY DEF IInv, Awaited, AnsweredOrEvicted
<1> QED BY <1>1, Invariant, PTL

\* Who goes away was over, or cancelled.
LEMMA EvictsOver ==
  ASSUME IInv, [Next]_vars, NEW j \in evicted' \ evicted
  PROVE  \/ Over(j)
         \/ status[j] = "CANCELED"
         \/ \E c \in Canceller : target[c] = j
         \/ j \in misled
<1>1. ASSUME UNCHANGED evicted PROVE FALSE
  BY <1>1
<1>2. ASSUME NEW st, NEW res, Evict(st, res)
      PROVE  j \in Job /\ j \in jobs /\ st[j] \in TERMINAL \cup {"CANCELED"}
  <2>1. j \in Victims(st)
    BY <1>2 DEF Evict
  <2> QED BY <2>1, VictimsOver DEF IInv, TypeOK
<1>3. ASSUME Evict(status, result)
      PROVE  Over(j) \/ j \in misled \/ status[j] = "CANCELED"
  BY <1>2, <1>3 DEF IInv, Statuses
<1>4. ASSUME NEW w \in Waiter, Wait(w) \/ Expire(w)
      PROVE  Over(j) \/ j \in misled \/ status[j] = "CANCELED"
  BY <1>1, <1>3, <1>4 DEF Wait, Expire, Keep
<1>5. ASSUME NEW w \in Waiter, Apply(w)
      PROVE  Over(j) \/ j \in misled \/ status[j] = "CANCELED"
  <2> DEFINE st == [i \in Job |-> IF i \in pending[w] \cap jobs
                                  THEN answer[w][i] ELSE status[i]]
  <2>1. \E res : Evict(st, res) \/ UNCHANGED evicted
    BY <1>5 DEF Apply, Keep
  <2>2. j \in Job /\ j \in jobs /\ st[j] \in TERMINAL \cup {"CANCELED"}
    <3> HIDE DEF st
    <3> QED BY <1>1, <1>2, <2>1
  <2>3. CASE j \in pending[w] \ misled
    <3>1. st[j] = answer[w][j] /\ AnswerTrue(j, answer[w][j])
      BY <2>2, <2>3 DEF IInv, AnswersTrue
    <3>2. answer[w][j] # "CANCELED"
      BY <3>1 DEF AnswerTrue
    <3> QED BY <2>2, <3>1, <3>2 DEF AnswerTrue
  <2>4. CASE j \notin pending[w]
    <3>1. st[j] = status[j]
      BY <2>2, <2>4
    <3> QED BY <2>2, <3>1 DEF IInv, Statuses
  <2> QED BY <2>3, <2>4
<1>6. ASSUME NEW c \in Canceller, CancelRecorded(c)
      PROVE  Over(j) \/ j \in misled \/ status[j] = "CANCELED" \/ target[c] = j
  <2> DEFINE st == IF target[c] \in jobs
                   THEN [status EXCEPT ![target[c]] = "CANCELED"] ELSE status
  <2>1. Evict(st, result)
    BY <1>1, <1>6 DEF CancelRecorded, Keep
  <2>2. j \in Job /\ st[j] \in TERMINAL \cup {"CANCELED"}
    <3> HIDE DEF st
    <3> QED BY <1>2, <2>1
  <2>3. j # target[c] => st[j] = status[j]
    BY <2>2 DEF IInv, TypeOK
  <2> HIDE DEF st
  <2> QED BY <2>2, <2>3 DEF IInv, Statuses
<1>7. CASE Next
  <2>1. ASSUME \/ \E i \in Job : Submit(i) \/ SubmitLost(i) \/ JobEnds(i)
                                \/ Forget(i)
               \/ \E w \in Waiter :
                    \/ ExecuteBlocking(w) \/ WaitCancelled(w)
                    \/ \E i \in Job : Answer(w, i) \/ PollFails(w, i)
                                       \/ PollMisread(w, i)
               \/ \E c \in Canceller :
                    CancelCancelled(c) \/ \E i \in Job : CancelSent(c, i)
        PROVE  UNCHANGED evicted
    BY <2>1
    DEF Submit, SubmitLost, JobEnds, Forget, ExecuteBlocking, Submitted,
        WaitCancelled, Answer, PollFails, PollMisread, Answered, CancelCancelled,
        CancelSent, records
  <2> QED BY <1>1, <1>4, <1>5, <1>6, <1>7, <2>1 DEF Next
<1>8. CASE UNCHANGED vars
  BY <1>1, <1>8 DEF vars
<1> QED BY <1>7, <1>8

\* Whatever statuses the polls of concurrent waits have written last, no job
\* that goes on is dropped, save one whose cancel was tried or about which an
\* error was misread.
\* (_maybe_evict_terminal, base.py:461)
THEOREM EvictsOnlyOver == Spec => EvictedWereOver
<1>1. IInv /\ [Next]_vars =>
        [\A j \in evicted' \ evicted :
            \/ Over(j)
            \/ status[j] = "CANCELED"
            \/ \E c \in Canceller : target[c] = j
            \/ j \in misled]_vars
  BY EvictsOver
<1> QED BY <1>1, Invariant, PTL DEF Spec, EvictedWereOver
=============================================================================
