------------------------------ MODULE Inspector ------------------------------
(***************************************************************************)
(* The pre-flight inspection of a command (inspector.py): worker counts of *)
(* pytest-xdist, make, ninja and cargo are cut to the weight of the call.  *)
(*                                                                         *)
(* A command is the sequence of its shell words.  A word is an option with *)
(* or without its argument attached ("-j4", "--jobs=4", "-j"), or, when    *)
(* flag is "", the plain word arg.  syntax says that the word is written   *)
(* unquoted and means something to the shell: an operator, a redirection,  *)
(* a variable, a pattern.                                                  *)
(***************************************************************************)
EXTENDS Integers, Sequences

CONSTANTS
    None,                       \* no argument attached
    AutoWord,                   \* the word "auto"
    Unbalanced,                 \* a word shlex cannot read
    Pytest, Make, Ninja, Cargo  \* the programs, in whatever directory

\* These stand for words that are no numbers, or for no word.
ASSUME WordsAssumption == {None, AutoWord} \cap Int = {} /\ None # AutoWord

\* A sequence of words.
IsCommand(s) ==
    /\ s \in Seq({s[i] : i \in DOMAIN s})
    /\ \A i \in DOMAIN s :
        s[i] = [flag |-> s[i].flag, arg |-> s[i].arg, syntax |-> s[i].syntax]

Smaller(a, b) == IF a <= b THEN a ELSE b

Names(s, program) ==
    \E i \in DOMAIN s : s[i].flag = "" /\ s[i].arg = program

Number(w) == w.flag = "" /\ w.arg \in Int

\* "auto" or a number above the budget becomes the budget.
Clamped(a, budget) ==
    IF a = AutoWord \/ (a \in Int /\ a > budget) THEN budget ELSE a

\* _budget_for
WorkersFor(weight, maxConcurrent) ==
    LET least == Smaller(weight, maxConcurrent)
    IN  IF least < 1 THEN 1 ELSE least

\* An option without its argument attached.
Bare(w, flags) == w.flag \in flags /\ w.arg = None

XdistFlags == {"-n", "--numprocesses"}

\* Which words the loop of _rewrite_pytest_xdist skips: a bare option takes
\* the next word, whatever it is, another option included.
Taken(s) ==
    LET taken[i \in 1 .. Len(s)] ==
            i > 1 /\ Bare(s[i - 1], XdistFlags) /\ ~taken[i - 1]
    IN  taken

\* _rewrite_pytest_xdist.  Of the words taken only a plain one is clamped.
RewriteXdist(s, budget) ==
    LET taken == Taken(s)
        Counts(i) == IF taken[i] THEN s[i].flag = ""
                     ELSE s[i].flag \in XdistFlags
    IN  [i \in DOMAIN s |->
            IF Counts(i)
            THEN [s[i] EXCEPT !.arg = Clamped(s[i].arg, budget)]
            ELSE s[i]]

\* Mutant of RewriteJobs: a bare option without a number is left alone.
RewriteJobsNumbers(s, budget, flags) ==
    LET Counts(i) ==
            \/ Number(s[i]) /\ i > 1 /\ Bare(s[i - 1], flags)
            \/ s[i].flag \in flags /\ s[i].arg \in Int
    IN  [i \in DOMAIN s |->
            IF Counts(i)
            THEN [s[i] EXCEPT !.arg = Smaller(s[i].arg, budget)]
            ELSE s[i]]

\* _rewrite_jobs_flag.  A bare option takes the next word if that is a number;
\* short without one gets the budget, and "--jobs" without one is left alone.
RewriteJobs(s, budget, flags) ==
    LET Given(i) == i < Len(s) /\ Number(s[i + 1])
        Counts(i) ==
            \/ Number(s[i]) /\ i > 1 /\ Bare(s[i - 1], flags)
            \/ s[i].flag \in flags /\ s[i].arg \in Int
    IN  [i \in DOMAIN s |->
            IF Counts(i)
            THEN [s[i] EXCEPT !.arg = Smaller(s[i].arg, budget)]
            ELSE IF Bare(s[i], flags \cap {"-j"}) /\ ~Given(i)
                 THEN [s[i] EXCEPT !.arg = budget]
                 ELSE s[i]]

\* The rewriters that apply, one after the other.
Rewritten(s, budget) ==
    LET xdist == IF Names(s, Pytest) THEN RewriteXdist(s, budget) ELSE s
        made == IF Names(s, Make) \/ Names(s, Ninja)
                THEN RewriteJobs(xdist, budget, {"-j", "--jobs"})
                ELSE xdist
    IN  IF Names(s, Cargo)
        THEN RewriteJobs(made, budget, {"--jobs"})
        ELSE made

\* shlex.join(shlex.split(...)): the words are the same, each one quoted
\* where the shell would otherwise interpret it.
Requoted(s) == [i \in DOMAIN s |-> [s[i] EXCEPT !.syntax = FALSE]]

\* inspect_command: the line the shell is given.
InspectCommand(s, weight, maxConcurrent) ==
    LET after == Rewritten(s, WorkersFor(weight, maxConcurrent))
    IN  IF Names(s, Unbalanced) \/ after = s THEN s ELSE Requoted(after)

-----------------------------------------------------------------------------
\* What the tools do with their options, as their manuals say: the last count
\* is the one used, "auto" is one worker per core, and a bare "-j" or "--jobs"
\* of make has no bound.

Counted(s, flags) == {i \in DOMAIN s : s[i].flag \in flags}

\* The count an option is given, if it is given any.
GivenAt(s, i) ==
    IF s[i].arg # None THEN s[i].arg
    ELSE IF i < Len(s) /\ s[i + 1].flag = "" THEN s[i + 1].arg ELSE None

CountAt(s, i, cores, unbounded) ==
    IF GivenAt(s, i) \in Int THEN GivenAt(s, i)
    ELSE IF GivenAt(s, i) = AutoWord THEN cores ELSE unbounded

\* The workers of the line s when it is a single command of one program.
Workers(s, flags, cores, unbounded) ==
    IF Counted(s, flags) = {} THEN 1
    ELSE CountAt(s, CHOOSE i \in Counted(s, flags) :
                        \A j \in Counted(s, flags) : j <= i,
                 cores, unbounded)
=============================================================================
