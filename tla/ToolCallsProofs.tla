-------------------------- MODULE ToolCallsProofs --------------------------
(***************************************************************************)
(* Proofs about ToolCalls, for any number of calls, any commands, patterns, *)
(* limits and servers.                                                     *)
(***************************************************************************)
EXTENDS ToolCalls, SequenceTheorems, FiniteSetTheorems, TLAPS

-----------------------------------------------------------------------------
\* Least and greatest elements, by well-foundedness of strict inclusion on the
\* intervals 1 .. k.

LEMMA LeastNat ==
  ASSUME NEW n \in Nat, NEW S \in SUBSET (0 .. n), S # {}
  PROVE  \E m \in S : \A k \in S : m <= k
<1> DEFINE T == {1 .. k : k \in S}
<1>1. T \subseteq FiniteSubsetsOf(1 .. n)
  BY FS_Interval, FS_FiniteSubsetsOfFinite
<1>2. T # {}
  OBVIOUS
<1>3. PICK x \in T :
        \A y \in T : <<y, x>> \notin StrictSubsetOrdering(1 .. n)
  BY <1>1, <1>2, WFMin, FS_StrictSubsetOrderingWellFounded
<1>4. PICK m \in S : x = 1 .. m
  OBVIOUS
<1>5. ASSUME NEW k \in S, k < m PROVE FALSE
  <2>1. /\ 1 .. k \subseteq 1 .. m /\ m \in 1 .. m /\ m \notin 1 .. k
        /\ 1 .. k \in SUBSET (1 .. n) /\ 1 .. m \in SUBSET (1 .. n)
    BY <1>5
  <2>2. <<1 .. k, 1 .. m>> \in StrictSubsetOrdering(1 .. n)
    BY <2>1 DEF StrictSubsetOrdering
  <2> QED BY <1>3, <1>4, <2>2
<1> QED BY <1>5

LEMMA GreatestNat ==
  ASSUME NEW n \in Nat, NEW S \in SUBSET (0 .. n), S # {}
  PROVE  \E m \in S : \A k \in S : k <= m
<1> DEFINE D == {n - k : k \in S}
<1>0. \A k \in S : k \in Nat /\ n - k \in 0 .. n
  OBVIOUS
<1>1. D \in SUBSET (0 .. n) /\ D # {}
  BY <1>0
<1>2. PICK d \in D : \A e \in D : d <= e
  BY <1>1, LeastNat
<1>3. PICK m \in S : d = n - m
  OBVIOUS
<1>4. ASSUME NEW k \in S PROVE k <= m
  <2>1. n - m <= n - k
    BY <1>2, <1>3
  <2>2. k \in Nat /\ m \in Nat
    BY <1>0
  <2> QED BY <2>1, <2>2
<1> QED BY <1>4

-----------------------------------------------------------------------------
\* Commands as sequences.

LEMMA CommandType ==
  ASSUME NEW s, IsCommand(s)
  PROVE  Len(s) \in Nat /\ DOMAIN s = 1 .. Len(s)
  BY LenProperties DEF IsCommand

LEMMA Neighbours ==
  ASSUME NEW s, IsCommand(s), NEW i \in DOMAIN s
  PROVE  /\ i \in Nat \ {0} /\ i <= Len(s)
         /\ i < Len(s) => i + 1 \in DOMAIN s /\ i + 1 > 1 /\ (i + 1) - 1 = i
         /\ i > 1 => i - 1 \in DOMAIN s /\ (i - 1) + 1 = i
<1>1. Len(s) \in Nat /\ DOMAIN s = 1 .. Len(s)
  BY CommandType
<1> DEFINE n == Len(s)
<1>2. n \in Nat /\ i \in 1 .. n
  BY <1>1
<1> HIDE DEF n
<1>3. /\ i \in Nat \ {0} /\ i <= n
      /\ i < n => i + 1 \in 1 .. n /\ i + 1 > 1 /\ (i + 1) - 1 = i
      /\ i > 1 => i - 1 \in 1 .. n /\ (i - 1) + 1 = i
  BY <1>2
<1> QED BY <1>1, <1>3 DEF n

LEMMA LengthKept ==
  ASSUME NEW s, IsCommand(s), NEW x, x = [i \in DOMAIN s |-> x[i]]
  PROVE  /\ x \in Seq({x[i] : i \in DOMAIN x})
         /\ DOMAIN x = DOMAIN s /\ Len(x) = Len(s)
<1> DEFINE R == {x[i] : i \in DOMAIN x}
<1>1. Len(s) \in Nat /\ DOMAIN s = 1 .. Len(s)
  BY CommandType
<1>2. x \in [1 .. Len(s) -> R]
  BY <1>1
<1>3. x \in Seq(R)
  BY <1>1, <1>2, SeqDef
<1>4. DOMAIN x = 1 .. Len(x) /\ Len(x) \in Nat
  BY <1>3, LenProperties
<1>5. 1 .. Len(x) = 1 .. Len(s)
  BY <1>1, <1>2, <1>4
<1>6. Len(x) = Len(s)
  BY <1>1, <1>4, <1>5
<1> QED BY <1>1, <1>2, <1>3, <1>6

\* Every count the options have is a number within b.
Within(s, flags, b) ==
    \A i \in Counted(s, flags) : GivenAt(s, i) \in Int /\ GivenAt(s, i) <= b

\* The workers of a line are bounded if each of its counts is.
LEMMA WorkersBound ==
  ASSUME NEW s, IsCommand(s), NEW flags, NEW b \in Nat \ {0},
         Within(s, flags, b), NEW cores, NEW unbounded
  PROVE  Workers(s, flags, cores, unbounded) <= b
<1>1. Len(s) \in Nat /\ DOMAIN s = 1 .. Len(s)
  BY CommandType
<1>2. CASE Counted(s, flags) = {}
  BY <1>2 DEF Workers
<1>3. CASE Counted(s, flags) # {}
  <2>1. Counted(s, flags) \in SUBSET (0 .. Len(s))
    BY <1>1 DEF Counted
  <2>2. \E i \in Counted(s, flags) : \A j \in Counted(s, flags) : j <= i
    BY <1>1, <1>3, <2>1, GreatestNat
  <2> DEFINE last == CHOOSE i \in Counted(s, flags) :
                        \A j \in Counted(s, flags) : j <= i
  <2>3. last \in Counted(s, flags)
    BY <2>2
  <2>4. Workers(s, flags, cores, unbounded)
          = CountAt(s, last, cores, unbounded)
    BY <1>3 DEF Workers
  <2> HIDE DEF last
  <2> QED BY <2>3, <2>4 DEF Within, CountAt
<1> QED BY <1>2, <1>3

-----------------------------------------------------------------------------
\* Which words RewriteXdist skips.

LEMMA TakenExists ==
  ASSUME NEW n \in Nat, NEW bare \in [1 .. n -> BOOLEAN]
  PROVE  \E t \in [1 .. n -> BOOLEAN] :
            \A i \in 1 .. n : t[i] = (i > 1 /\ bare[i - 1] /\ ~t[i - 1])
<1> DEFINE P(k) == \E t \in [1 .. k -> BOOLEAN] :
              \A i \in 1 .. k : t[i] = (i > 1 /\ bare[i - 1] /\ ~t[i - 1])
           Bad == {k \in 0 .. n : ~P(k)}
<1>1. SUFFICES ASSUME Bad # {} PROVE FALSE
  OBVIOUS
<1>2. PICK m \in Bad : \A k \in Bad : m <= k
  BY <1>1, LeastNat
<1>3. CASE m = 0
  <2>1. P(0)
    <3> DEFINE t0 == [i \in 1 .. 0 |-> TRUE]
    <3>1. t0 \in [1 .. 0 -> BOOLEAN] /\ \A i \in 1 .. 0 : FALSE
      OBVIOUS
    <3> QED BY <3>1
  <2> QED BY <1>2, <1>3, <2>1
<1>4. CASE m > 0
  <2>1. P(m - 1)
    BY <1>2, <1>4
  <2>2. PICK t \in [1 .. (m - 1) -> BOOLEAN] :
          \A i \in 1 .. (m - 1) :
            t[i] = (i > 1 /\ bare[i - 1] /\ ~t[i - 1])
    BY <2>1
  <2> DEFINE u == [i \in 1 .. m |->
                     IF i < m THEN t[i] ELSE m > 1 /\ bare[m - 1] /\ ~t[m - 1]]
  <2>3. m \in Nat /\ m <= n
    BY <1>2
  <2>4. u \in [1 .. m -> BOOLEAN]
    <3>1. ASSUME NEW i \in 1 .. m, i < m PROVE t[i] \in BOOLEAN
      BY <2>3, <3>1
    <3> QED BY <2>3, <3>1
  <2>5. ASSUME NEW i \in 1 .. m
        PROVE  u[i] = (i > 1 /\ bare[i - 1] /\ ~u[i - 1])
    <3>1. CASE i < m
      BY <2>2, <2>3, <3>1
    <3>2. CASE i = m
      BY <2>3, <3>2
    <3> QED BY <2>3, <3>1, <3>2
  <2>6. P(m)
    BY <2>4, <2>5
  <2> QED BY <1>2, <2>6
<1> QED BY <1>2, <1>3, <1>4

LEMMA TakenEquation ==
  ASSUME NEW s, IsCommand(s)
  PROVE  Taken(s) = [i \in 1 .. Len(s) |->
            i > 1 /\ Bare(s[i - 1], XdistFlags) /\ ~Taken(s)[i - 1]]
<1> DEFINE n == Len(s)
           F(t) == [i \in 1 .. n |->
                      i > 1 /\ Bare(s[i - 1], XdistFlags) /\ ~t[i - 1]]
           bare == [i \in 1 .. n |-> Bare(s[i], XdistFlags)]
<1>1. n \in Nat /\ bare \in [1 .. n -> BOOLEAN]
  BY CommandType DEF Bare
<1>2. PICK t \in [1 .. n -> BOOLEAN] :
        \A i \in 1 .. n : t[i] = (i > 1 /\ bare[i - 1] /\ ~t[i - 1])
  <2> HIDE DEF n, bare
  <2> QED BY <1>1, TakenExists
<1>3. t = F(t)
  <2>1. ASSUME NEW i \in 1 .. n PROVE t[i] = F(t)[i]
    <3>1. i > 1 => i - 1 \in 1 .. n
      BY <1>1
    <3> QED BY <1>2, <3>1
  <2> QED BY <2>1
<1>4. Taken(s) = CHOOSE t_1 : t_1 = F(t_1)
  BY DEF Taken
<1>5. Taken(s) = F(Taken(s))
  <2> HIDE DEF F
  <2> QED BY <1>3, <1>4
<1> QED BY <1>5

-----------------------------------------------------------------------------
\* The rewriters: options stay where they are, and what each leaves behind.

\* One word rewritten keeps its flag and gets its new argument.
LEMMA WordRewritten ==
  ASSUME NEW s, IsCommand(s), NEW i \in DOMAIN s, NEW a
  PROVE  /\ [s[i] EXCEPT !.arg = a].flag = s[i].flag
         /\ [s[i] EXCEPT !.arg = a].arg = a
         /\ [s[i] EXCEPT !.arg = a] =
              [flag |-> s[i].flag, arg |-> a, syntax |-> s[i].syntax]
  BY DEF IsCommand

\* x has the options of s, where s has them.
SameFlags(s, x) ==
    /\ IsCommand(x) /\ DOMAIN x = DOMAIN s /\ Len(x) = Len(s)
    /\ \A i \in DOMAIN s : x[i].flag = s[i].flag

\* A sequence of rewritten words is a command again.
LEMMA Rewriting ==
  ASSUME NEW s, IsCommand(s), NEW x, x = [i \in DOMAIN s |-> x[i]],
         \A i \in DOMAIN s :
            x[i] = [flag |-> s[i].flag, arg |-> x[i].arg,
                    syntax |-> x[i].syntax]
  PROVE  SameFlags(s, x)
<1>1. /\ x \in Seq({x[i] : i \in DOMAIN x})
      /\ DOMAIN x = DOMAIN s /\ Len(x) = Len(s)
  BY LengthKept
<1>2. \A i \in DOMAIN s : x[i].flag = s[i].flag
  OBVIOUS
<1> QED BY <1>1, <1>2 DEF SameFlags, IsCommand

Xdisted(s, i) ==
    IF Taken(s)[i] THEN s[i].flag = "" ELSE s[i].flag \in XdistFlags

LEMMA XdistWords ==
  ASSUME NEW s, IsCommand(s), NEW b, NEW x, x = RewriteXdist(s, b)
  PROVE  /\ SameFlags(s, x)
         /\ \A i \in DOMAIN s :
              x[i].arg = IF Xdisted(s, i) THEN Clamped(s[i].arg, b)
                         ELSE s[i].arg
<1>1. x = [i \in DOMAIN s |->
             IF Xdisted(s, i)
             THEN [s[i] EXCEPT !.arg = Clamped(s[i].arg, b)]
             ELSE s[i]]
  BY DEF RewriteXdist, Xdisted
<1>2. ASSUME NEW i \in DOMAIN s
      PROVE  /\ x[i] = [flag |-> s[i].flag, arg |-> x[i].arg,
                        syntax |-> x[i].syntax]
             /\ x[i].arg = IF Xdisted(s, i) THEN Clamped(s[i].arg, b)
                           ELSE s[i].arg
  <2>1. CASE Xdisted(s, i)
    <3>1. x[i] = [s[i] EXCEPT !.arg = Clamped(s[i].arg, b)]
      BY <1>1, <2>1
    <3>2. x[i] = [flag |-> s[i].flag, arg |-> Clamped(s[i].arg, b),
                  syntax |-> s[i].syntax]
      BY <3>1, WordRewritten
    <3> QED BY <2>1, <3>2
  <2>2. CASE ~Xdisted(s, i)
    <3>1. x[i] = s[i]
      BY <1>1, <2>2
    <3> QED BY <2>2, <3>1 DEF IsCommand
  <2> QED BY <2>1, <2>2
<1>3. x = [i \in DOMAIN s |-> x[i]]
  BY <1>1
<1>4. \A i \in DOMAIN s : x[i] = [flag |-> s[i].flag, arg |-> x[i].arg,
                                  syntax |-> x[i].syntax]
  BY <1>2
<1>5. SameFlags(s, x)
  BY <1>3, <1>4, Rewriting
<1> QED BY <1>2, <1>5

\* The words that RewriteJobs clamps, and those it gives the whole budget.
Clamps(s, i, flags) ==
    \/ Number(s[i]) /\ i > 1 /\ Bare(s[i - 1], flags)
    \/ s[i].flag \in flags /\ s[i].arg \in Int

Bounds(s, i, flags) ==
    /\ Bare(s[i], flags \cap {"-j"})
    /\ ~(i < Len(s) /\ Number(s[i + 1]))

JobsArg(s, i, b, flags) ==
    IF Clamps(s, i, flags) THEN Smaller(s[i].arg, b)
    ELSE IF Bounds(s, i, flags) THEN b ELSE s[i].arg

LEMMA JobsWords ==
  ASSUME NEW s, IsCommand(s), NEW b, NEW flags,
         NEW x, x = RewriteJobs(s, b, flags)
  PROVE  /\ SameFlags(s, x)
         /\ \A i \in DOMAIN s : x[i].arg = JobsArg(s, i, b, flags)
<1> DEFINE a(i) == IF Clamps(s, i, flags) THEN Smaller(s[i].arg, b) ELSE b
<1>1. x = [i \in DOMAIN s |->
             IF Clamps(s, i, flags)
             THEN [s[i] EXCEPT !.arg = Smaller(s[i].arg, b)]
             ELSE IF Bounds(s, i, flags) THEN [s[i] EXCEPT !.arg = b]
             ELSE s[i]]
  BY DEF RewriteJobs, Clamps, Bounds
<1>2. ASSUME NEW i \in DOMAIN s
      PROVE  /\ x[i] = [flag |-> s[i].flag, arg |-> x[i].arg,
                        syntax |-> x[i].syntax]
             /\ x[i].arg = JobsArg(s, i, b, flags)
  <2>1. CASE Clamps(s, i, flags) \/ Bounds(s, i, flags)
    <3>1. x[i] = [s[i] EXCEPT !.arg = a(i)]
      BY <1>1, <2>1
    <3>2. x[i] = [flag |-> s[i].flag, arg |-> a(i), syntax |-> s[i].syntax]
      <4> HIDE DEF a
      <4> QED BY <3>1, WordRewritten
    <3> QED BY <2>1, <3>2 DEF JobsArg
  <2>2. CASE ~Clamps(s, i, flags) /\ ~Bounds(s, i, flags)
    <3>1. x[i] = s[i]
      BY <1>1, <2>2
    <3> QED BY <2>2, <3>1 DEF IsCommand, JobsArg
  <2> QED BY <2>1, <2>2
<1>3. x = [i \in DOMAIN s |-> x[i]]
  BY <1>1
<1>4. \A i \in DOMAIN s : x[i] = [flag |-> s[i].flag, arg |-> x[i].arg,
                                  syntax |-> x[i].syntax]
  BY <1>2
<1>5. SameFlags(s, x)
  BY <1>3, <1>4, Rewriting
<1> QED BY <1>2, <1>5

-----------------------------------------------------------------------------
\* What is left is within the budget.

JobsFlags == {"-j", "--jobs"}
LookedFor == {JobsFlags, {"--jobs"}}

\* The options that are given counts.
Options == XdistFlags \union JobsFlags

\* The part of Spelled that is about job counts.
JobsSpelled(s) ==
    \A i \in DOMAIN s :
        /\ s[i].flag = "-j" => s[i].arg \in Int \union {None}
        /\ s[i].flag = "--jobs" =>
            \/ s[i].arg \in Int
            \/ /\ s[i].arg = None
               /\ i < Len(s) /\ s[i + 1].flag = "" /\ s[i + 1].arg \in Int

\* pytest: also where an option stands before another, or an option's number
\* before an option.
LEMMA XdistFits ==
  ASSUME NEW s, IsCommand(s), Spelled(s), NEW b \in Nat \ {0},
         NEW x, x = RewriteXdist(s, b)
  PROVE  Within(x, XdistFlags, b) /\ JobsSpelled(x)
<1>1. /\ SameFlags(s, x)
      /\ \A i \in DOMAIN s :
            x[i].arg = IF Xdisted(s, i) THEN Clamped(s[i].arg, b)
                       ELSE s[i].arg
  BY XdistWords
<1>2. Len(s) \in Nat /\ DOMAIN s = 1 .. Len(s)
  BY CommandType
<1>3. \A i \in DOMAIN s :
        Taken(s)[i] = (i > 1 /\ Bare(s[i - 1], XdistFlags)
                                /\ ~Taken(s)[i - 1])
  BY <1>2, TakenEquation
<1>4. /\ \A k \in Int \union {AutoWord} :
            Clamped(k, b) \in Int /\ Clamped(k, b) <= b
      /\ Clamped(None, b) = None
  BY WordsAssumption DEF Clamped
<1>5. ASSUME NEW i \in DOMAIN s, s[i].flag \in XdistFlags
      PROVE  GivenAt(x, i) \in Int /\ GivenAt(x, i) <= b
  <2>1. ~Taken(s)[i]
    <3>1. SUFFICES ASSUME Taken(s)[i] PROVE FALSE
      OBVIOUS
    <3>2. i - 1 \in DOMAIN s /\ s[i - 1].flag \in XdistFlags
          /\ s[i - 1].arg = None
      BY <1>3, <1>5, <3>1, Neighbours DEF Bare
    <3>3. s[(i - 1) + 1].flag = ""
      BY <3>2, WordsAssumption DEF Spelled
    <3>4. (i - 1) + 1 = i
      BY <1>5, <3>1, <1>3, Neighbours
    <3> QED BY <1>5, <3>3, <3>4 DEF XdistFlags
  <2>2. x[i].arg = Clamped(s[i].arg, b)
    BY <1>1, <1>5, <2>1 DEF Xdisted
  <2>3. CASE s[i].arg \in Int \union {AutoWord}
    <3>1. x[i].arg \in Int /\ x[i].arg <= b
      BY <1>4, <2>2, <2>3
    <3> QED BY <3>1, WordsAssumption DEF GivenAt
  <2>4. CASE s[i].arg \notin Int \union {AutoWord}
    <3>1. /\ s[i].arg = None /\ i < Len(s) /\ s[i + 1].flag = ""
          /\ s[i + 1].arg \in Int \union {AutoWord}
      BY <1>5, <2>4 DEF Spelled
    <3>2. i + 1 \in DOMAIN s /\ i + 1 > 1 /\ (i + 1) - 1 = i
      BY <1>5, <3>1, Neighbours
    <3>3. Taken(s)[i + 1]
      BY <1>3, <1>5, <2>1, <3>1, <3>2 DEF Bare
    <3>4. x[i + 1].arg = Clamped(s[i + 1].arg, b) /\ x[i + 1].flag = ""
      BY <1>1, <3>1, <3>2, <3>3 DEF Xdisted, SameFlags
    <3>5. x[i].arg = None /\ i < Len(x)
      BY <1>1, <1>4, <2>2, <3>1 DEF SameFlags
    <3>6. x[i + 1].arg \in Int /\ x[i + 1].arg <= b
      BY <1>4, <3>1, <3>4
    <3> QED BY <3>4, <3>5, <3>6 DEF GivenAt
  <2> QED BY <2>3, <2>4
<1>6. Within(x, XdistFlags, b)
  BY <1>1, <1>5 DEF Within, Counted, SameFlags
<1>7. JobsSpelled(x)
  <2> SUFFICES ASSUME NEW i \in DOMAIN s
               PROVE  /\ x[i].flag = "-j" => x[i].arg \in Int \union {None}
                      /\ x[i].flag = "--jobs" =>
                          \/ x[i].arg \in Int
                          \/ /\ x[i].arg = None
                             /\ i < Len(x) /\ x[i + 1].flag = ""
                             /\ x[i + 1].arg \in Int
    BY <1>1 DEF JobsSpelled, SameFlags
  <2>1. /\ x[i].flag = s[i].flag /\ Len(x) = Len(s)
        /\ x[i].arg = s[i].arg \/ x[i].arg = Clamped(s[i].arg, b)
    BY <1>1 DEF SameFlags
  <2>2. CASE s[i].arg \in Int
    BY <1>4, <2>1, <2>2
  <2>3. CASE s[i].arg = None
    <3>1. x[i].arg = None
      BY <1>4, <2>1, <2>3
    <3>2. ASSUME s[i].flag = "--jobs"
          PROVE  i < Len(s) /\ s[i + 1].flag = "" /\ s[i + 1].arg \in Int
      BY <2>3, <3>2, WordsAssumption DEF Spelled
    <3>3. ASSUME s[i].flag = "--jobs"
          PROVE  i < Len(x) /\ x[i + 1].flag = "" /\ x[i + 1].arg \in Int
      <4>1. i + 1 \in DOMAIN s
        BY <3>2, <3>3, Neighbours
      <4>2. /\ x[i + 1].flag = s[i + 1].flag
            /\ \/ x[i + 1].arg = s[i + 1].arg
               \/ x[i + 1].arg = Clamped(s[i + 1].arg, b)
        BY <1>1, <4>1 DEF SameFlags
      <4> QED BY <1>4, <2>1, <3>2, <3>3, <4>2
    <3> QED BY <2>1, <3>1, <3>3
  <2>4. CASE s[i].arg \notin Int \union {None}
    BY <2>1, <2>4 DEF Spelled
  <2> QED BY <2>2, <2>3, <2>4
<1> QED BY <1>6, <1>7

\* make, ninja and cargo: the counts that RewriteJobs looks for.
LEMMA JobsFit ==
  ASSUME NEW s, IsCommand(s), JobsSpelled(s), NEW b \in Nat \ {0},
         NEW flags \in LookedFor,
         NEW x, x = RewriteJobs(s, b, flags)
  PROVE  Within(x, flags, b) /\ JobsSpelled(x)
<1>1. /\ SameFlags(s, x)
      /\ \A i \in DOMAIN s : x[i].arg = JobsArg(s, i, b, flags)
  BY JobsWords
<1>2. \A a \in Int : Smaller(a, b) \in Int /\ Smaller(a, b) <= b
  BY DEF Smaller
<1>3. ASSUME NEW i \in DOMAIN s, s[i].flag \in JobsFlags, s[i].arg \in Int
      PROVE  /\ x[i].arg \in Int
             /\ s[i].flag \in flags => x[i].arg <= b
  <2>1. ~Number(s[i])
    BY <1>3 DEF Number, JobsFlags
  <2>2. s[i].arg # None
    BY <1>3, WordsAssumption
  <2> QED BY <1>1, <1>2, <1>3, <2>1, <2>2 DEF JobsArg, Clamps, Bounds, Bare
<1>4. ASSUME NEW i \in DOMAIN s, s[i].flag \in JobsFlags, s[i].arg = None,
             i < Len(s), s[i + 1].flag = "", s[i + 1].arg \in Int
      PROVE  /\ x[i].arg = None /\ i < Len(x)
             /\ x[i + 1].flag = "" /\ x[i + 1].arg \in Int
             /\ s[i].flag \in flags => x[i + 1].arg <= b
  <2>1. i + 1 \in DOMAIN s /\ i + 1 > 1 /\ (i + 1) - 1 = i
    BY <1>4, Neighbours
  <2>2. Number(s[i + 1]) /\ ~Number(s[i])
    BY <1>4 DEF Number, JobsFlags
  <2>3. x[i].arg = None
    BY <1>1, <1>4, <2>2, WordsAssumption DEF JobsArg, Clamps, Bounds
  <2>4. ~Bounds(s, i + 1, flags)
    BY <1>4 DEF Bounds, Bare, JobsFlags, LookedFor
  <2>5. CASE s[i].flag \in flags
    <3>1. Clamps(s, i + 1, flags)
      BY <1>4, <2>1, <2>2, <2>5 DEF Clamps, Bare
    <3>2. x[i + 1].arg = Smaller(s[i + 1].arg, b)
      BY <1>1, <2>1, <3>1 DEF JobsArg
    <3> QED BY <1>1, <1>2, <1>4, <2>1, <2>3, <3>2 DEF SameFlags
  <2>6. CASE s[i].flag \notin flags
    <3>1. x[i + 1].arg \in Int
      BY <1>1, <1>2, <1>4, <2>1, <2>4 DEF JobsArg
    <3> QED BY <1>1, <1>4, <2>1, <2>3, <2>6, <3>1 DEF SameFlags
  <2> QED BY <2>5, <2>6
<1>5. ASSUME NEW i \in DOMAIN s, s[i].flag = "-j", s[i].arg = None,
             ~(i < Len(s) /\ s[i + 1].flag = "" /\ s[i + 1].arg \in Int)
      PROVE  x[i].arg = IF "-j" \in flags THEN b ELSE None
  <2>1. ~Number(s[i]) /\ ~(i < Len(s) /\ Number(s[i + 1]))
    BY <1>5 DEF Number
  <2>2. ~Clamps(s, i, flags)
    BY <1>5, <2>1, WordsAssumption DEF Clamps
  <2>3. Bounds(s, i, flags) <=> "-j" \in flags
    BY <1>5, <2>1 DEF Bounds, Bare
  <2> QED BY <1>1, <1>5, <2>2, <2>3 DEF JobsArg
<1>6. ASSUME NEW i \in DOMAIN s, s[i].flag \in flags
      PROVE  GivenAt(x, i) \in Int /\ GivenAt(x, i) <= b
  <2>1. s[i].flag \in JobsFlags
    BY <1>6 DEF JobsFlags, LookedFor
  <2>2. CASE s[i].arg \in Int
    <3>1. x[i].arg \in Int /\ x[i].arg <= b
      BY <1>3, <1>6, <2>1, <2>2
    <3> QED BY <3>1, WordsAssumption DEF GivenAt
  <2>3. CASE /\ s[i].arg = None
             /\ i < Len(s) /\ s[i + 1].flag = "" /\ s[i + 1].arg \in Int
    <3>1. /\ x[i].arg = None /\ i < Len(x) /\ x[i + 1].flag = ""
          /\ x[i + 1].arg \in Int /\ x[i + 1].arg <= b
      BY <1>4, <1>6, <2>1, <2>3
    <3> QED BY <3>1 DEF GivenAt
  <2>4. CASE /\ s[i].arg \notin Int
             /\ ~(/\ s[i].arg = None
                  /\ i < Len(s) /\ s[i + 1].flag = "" /\ s[i + 1].arg \in Int)
    <3>1. s[i].flag = "-j" /\ s[i].arg = None
      BY <1>6, <2>1, <2>4 DEF JobsSpelled, JobsFlags
    <3>2. "-j" \in flags
      BY <1>6, <3>1
    <3>3. ~(i < Len(s) /\ s[i + 1].flag = "" /\ s[i + 1].arg \in Int)
      BY <2>4, <3>1
    <3>4. x[i].arg = b
      BY <1>5, <1>6, <3>1, <3>2, <3>3
    <3>5. x[i].arg \in Int /\ x[i].arg # None /\ x[i].arg <= b
      BY <3>4, WordsAssumption
    <3> QED BY <3>5 DEF GivenAt
  <2> QED BY <2>2, <2>3, <2>4
<1>7. ASSUME NEW i \in DOMAIN s
      PROVE  /\ x[i].flag = "-j" => x[i].arg \in Int \union {None}
             /\ x[i].flag = "--jobs" =>
                  \/ x[i].arg \in Int
                  \/ /\ x[i].arg = None
                     /\ i < Len(x) /\ x[i + 1].flag = ""
                     /\ x[i + 1].arg \in Int
  <2>1. x[i].flag = s[i].flag
    BY <1>1, <1>7 DEF SameFlags
  <2>2. CASE s[i].flag = "-j"
    <3>1. s[i].flag \in JobsFlags /\ s[i].arg \in Int \union {None}
      BY <1>7, <2>2 DEF JobsSpelled, JobsFlags
    <3>2. CASE s[i].arg \in Int
      BY <1>3, <1>7, <2>1, <2>2, <3>1, <3>2
    <3>3. CASE /\ s[i].arg = None
               /\ i < Len(s) /\ s[i + 1].flag = "" /\ s[i + 1].arg \in Int
      BY <1>4, <1>7, <2>1, <2>2, <3>1, <3>3
    <3>4. CASE /\ s[i].arg = None
               /\ ~(i < Len(s) /\ s[i + 1].flag = "" /\ s[i + 1].arg \in Int)
      <4>1. x[i].arg = IF "-j" \in flags THEN b ELSE None
        BY <1>5, <1>7, <2>2, <3>4
      <4> QED BY <2>1, <2>2, <4>1
    <3> QED BY <3>1, <3>2, <3>3, <3>4
  <2>3. CASE s[i].flag = "--jobs"
    <3>1. s[i].flag \in JobsFlags
      BY <2>3 DEF JobsFlags, LookedFor
    <3>2. CASE s[i].arg \in Int
      BY <1>3, <1>7, <2>1, <2>3, <3>1, <3>2
    <3>3. CASE /\ s[i].arg = None
               /\ i < Len(s) /\ s[i + 1].flag = "" /\ s[i + 1].arg \in Int
      BY <1>4, <1>7, <2>1, <2>3, <3>1, <3>3
    <3> QED BY <1>7, <2>3, <3>2, <3>3 DEF JobsSpelled
  <2> QED BY <2>1, <2>2, <2>3
<1>8. Within(x, flags, b)
  BY <1>1, <1>6 DEF Within, Counted, SameFlags
<1>9. JobsSpelled(x)
  BY <1>1, <1>7 DEF JobsSpelled, SameFlags
<1> QED BY <1>8, <1>9

\* A second rewriter leaves alone the counts of options it does not look for.
LEMMA OthersKept ==
  ASSUME NEW s, IsCommand(s), NEW b \in Nat \ {0},
         NEW flags \in LookedFor,
         NEW x, x = RewriteJobs(s, b, flags)
  PROVE  \A i \in DOMAIN s : s[i].flag \in Options \ flags =>
            GivenAt(x, i) = GivenAt(s, i)
<1>1. /\ SameFlags(s, x)
      /\ \A i \in DOMAIN s : x[i].arg = JobsArg(s, i, b, flags)
  BY JobsWords
<1>2. ASSUME NEW i \in DOMAIN s, ~Clamps(s, i, flags), ~Bounds(s, i, flags)
      PROVE  x[i].arg = s[i].arg
  BY <1>1, <1>2 DEF JobsArg
<1> SUFFICES ASSUME NEW i \in DOMAIN s, s[i].flag # "",
                    s[i].flag \notin flags
             PROVE  GivenAt(x, i) = GivenAt(s, i)
  BY DEF Options, XdistFlags, JobsFlags
<1>3. x[i].arg = s[i].arg
  BY <1>2 DEF Clamps, Bounds, Bare, Number
<1>4. ASSUME i < Len(s), s[i + 1].flag = ""
      PROVE  i < Len(x) /\ x[i + 1].flag = "" /\ x[i + 1].arg = s[i + 1].arg
  <2>1. i + 1 \in DOMAIN s /\ (i + 1) - 1 = i
    BY <1>4, Neighbours
  <2>2. ~Clamps(s, i + 1, flags) /\ ~Bounds(s, i + 1, flags)
    BY <1>4, <2>1 DEF Clamps, Bounds, Bare, JobsFlags, LookedFor
  <2> QED BY <1>1, <1>2, <1>4, <2>1, <2>2 DEF SameFlags
<1>5. ASSUME ~(i < Len(s) /\ s[i + 1].flag = "")
      PROVE  ~(i < Len(x) /\ x[i + 1].flag = "")
  <2>1. i < Len(s) => i + 1 \in DOMAIN s
    BY Neighbours
  <2> QED BY <1>1, <1>5, <2>1 DEF SameFlags
<1> QED BY <1>3, <1>4, <1>5 DEF GivenAt

LEMMA WithinKept ==
  ASSUME NEW s, IsCommand(s), NEW b \in Nat \ {0},
         NEW flags \in LookedFor,
         NEW x, x = RewriteJobs(s, b, flags),
         NEW others \in SUBSET (Options \ flags),
         Within(s, others, b)
  PROVE  Within(x, others, b)
<1>1. SameFlags(s, x)
  BY JobsWords
<1>2. \A i \in DOMAIN s : s[i].flag \in Options \ flags =>
            GivenAt(x, i) = GivenAt(s, i)
  BY OthersKept
<1>3. ASSUME NEW i \in Counted(x, others)
      PROVE  GivenAt(x, i) \in Int /\ GivenAt(x, i) <= b
  <2>1. i \in DOMAIN s /\ s[i].flag \in others
    BY <1>1, <1>3 DEF Counted, SameFlags
  <2>2. GivenAt(x, i) = GivenAt(s, i)
    BY <1>2, <2>1
  <2> QED BY <2>1, <2>2 DEF Within, Counted
<1> QED BY <1>3 DEF Within

\* The rewriters one after the other, for a command that names any of the
\* programs, or several.
LEMMA RewrittenFits ==
  ASSUME NEW s, IsCommand(s), Spelled(s), NEW b \in Nat \ {0},
         NEW z, z = Rewritten(s, b)
  PROVE  /\ IsCommand(z)
         /\ Names(s, Pytest) => Within(z, XdistFlags, b)
         /\ Names(s, Make) \/ Names(s, Ninja) => Within(z, JobsFlags, b)
         /\ Names(s, Cargo) => Within(z, {"--jobs"}, b)
<1> DEFINE made == Names(s, Make) \/ Names(s, Ninja)
           x == IF Names(s, Pytest) THEN RewriteXdist(s, b) ELSE s
           y == IF made THEN RewriteJobs(x, b, JobsFlags) ELSE x
<1>1. z = IF Names(s, Cargo) THEN RewriteJobs(y, b, {"--jobs"}) ELSE y
  BY DEF Rewritten, JobsFlags
<1>2. /\ IsCommand(x) /\ JobsSpelled(x)
      /\ Names(s, Pytest) => Within(x, XdistFlags, b)
  <2>1. JobsSpelled(s)
    BY DEF Spelled, JobsSpelled
  <2>2. CASE Names(s, Pytest)
    BY <2>2, XdistWords, XdistFits DEF SameFlags
  <2> QED BY <2>1, <2>2
<1>3. XdistFlags \in SUBSET (Options \ JobsFlags)
  BY DEF Options, XdistFlags, JobsFlags
<1> HIDE DEF x
<1>4. /\ IsCommand(y) /\ JobsSpelled(y)
      /\ Names(s, Pytest) => Within(y, XdistFlags, b)
      /\ made => Within(y, JobsFlags, b)
  <2>1. CASE made
    <3>1. IsCommand(y) /\ JobsSpelled(y) /\ Within(y, JobsFlags, b)
      BY <1>2, <2>1, JobsWords, JobsFit DEF SameFlags, LookedFor
    <3>2. Names(s, Pytest) => Within(y, XdistFlags, b)
      BY <1>2, <1>3, <2>1, WithinKept DEF LookedFor
    <3> QED BY <3>1, <3>2
  <2>2. CASE ~made
    BY <1>2, <2>2
  <2> QED BY <2>1, <2>2
<1> HIDE DEF y, made
<1>5. CASE Names(s, Cargo)
  <2>1. z = RewriteJobs(y, b, {"--jobs"})
    BY <1>1, <1>5
  <2>2. IsCommand(z) /\ Within(z, {"--jobs"}, b)
    BY <1>4, <2>1, JobsWords, JobsFit DEF SameFlags, LookedFor
  <2>3. Names(s, Pytest) => Within(z, XdistFlags, b)
    <3>1. XdistFlags \in SUBSET (Options \ {"--jobs"})
      BY DEF Options, XdistFlags
    <3> QED BY <1>4, <2>1, <3>1, WithinKept DEF LookedFor
  <2>4. made => Within(z, JobsFlags, b)
    <3>1. ASSUME Within(y, JobsFlags, b) PROVE Within(z, {"-j"}, b)
      <4>1. Within(y, {"-j"}, b)
        BY <3>1 DEF Within, Counted, JobsFlags
      <4>2. {"-j"} \in SUBSET (Options \ {"--jobs"})
        BY DEF Options, JobsFlags
      <4> QED BY <1>4, <2>1, <4>1, <4>2, WithinKept DEF LookedFor
    <3>2. Within(z, {"-j"}, b) => Within(z, JobsFlags, b)
      BY <2>2 DEF Within, Counted, JobsFlags
    <3> QED BY <1>4, <3>1, <3>2
  <2> QED BY <2>2, <2>3, <2>4 DEF made
<1>6. CASE ~Names(s, Cargo)
  BY <1>1, <1>4, <1>6 DEF made
<1> QED BY <1>5, <1>6

\* What the shell is given starts no more workers than the weight.
LEMMA InspectedFits ==
  ASSUME NEW s, IsCommand(s), Spelled(s), NEW m \in Nat \ {0},
         NEW w \in 1 .. m, NEW l, l = InspectCommand(s, w, m),
         NEW cores, NEW unbounded
  PROVE  /\ Names(s, Pytest) => Workers(l, XdistFlags, cores, unbounded) <= w
         /\ Names(s, Make) \/ Names(s, Ninja) =>
                Workers(l, JobsFlags, cores, unbounded) <= w
         /\ Names(s, Cargo) => Workers(l, {"--jobs"}, cores, unbounded) <= w
<1> DEFINE z == Rewritten(s, w)
<1>1. w \in Nat \ {0} /\ WorkersFor(w, m) = w
  BY DEF WorkersFor, Smaller
<1>2. /\ IsCommand(z)
      /\ Names(s, Pytest) => Within(z, XdistFlags, w)
      /\ Names(s, Make) \/ Names(s, Ninja) => Within(z, JobsFlags, w)
      /\ Names(s, Cargo) => Within(z, {"--jobs"}, w)
  BY <1>1, RewrittenFits
<1>3. ~Names(s, Unbalanced)
  BY DEF Spelled, Names
<1>4. l = IF z = s THEN s ELSE Requoted(z)
  BY <1>1, <1>3 DEF InspectCommand
<1> HIDE DEF z
<1>5. IsCommand(l) /\ \A flags : Within(z, flags, w) => Within(l, flags, w)
  <2>1. CASE z = s
    BY <1>2, <1>4, <2>1
  <2>2. CASE z # s
    <3>1. l = [i \in DOMAIN z |-> [z[i] EXCEPT !.syntax = FALSE]]
      BY <1>4, <2>2 DEF Requoted
    <3>2. ASSUME NEW i \in DOMAIN z
          PROVE  /\ l[i] = [flag |-> z[i].flag, arg |-> l[i].arg,
                            syntax |-> l[i].syntax]
                 /\ l[i].arg = z[i].arg
      <4>1. l[i] = [z[i] EXCEPT !.syntax = FALSE]
        BY <3>1
      <4>2. l[i] = [flag |-> z[i].flag, arg |-> z[i].arg, syntax |-> FALSE]
        BY <1>2, <4>1 DEF IsCommand
      <4> QED BY <4>2
    <3>3. SameFlags(z, l)
      <4>1. l = [i \in DOMAIN z |-> l[i]]
        BY <3>1
      <4> QED BY <1>2, <3>2, <4>1, Rewriting
    <3>4. ASSUME NEW i \in DOMAIN z
          PROVE  GivenAt(l, i) = GivenAt(z, i)
      <4>1. i < Len(z) => i + 1 \in DOMAIN z
        BY <1>2, <3>4, Neighbours
      <4> QED BY <3>2, <3>3, <3>4, <4>1 DEF GivenAt, SameFlags
    <3> QED BY <3>3, <3>4 DEF SameFlags, Within, Counted
  <2> QED BY <2>1, <2>2
<1>6. ASSUME NEW flags, Within(z, flags, w)
      PROVE  Workers(l, flags, cores, unbounded) <= w
  BY <1>1, <1>5, <1>6, WorkersBound
<1> QED BY <1>2, <1>6

-----------------------------------------------------------------------------
\* The requests that may come to a shell, and those for the second tool.
ExecRequest ==
    [tool : {"execute_command", "execute_command_high_memory"},
     command : Commands, mem : Sizes, weight : Weights]

High(r) == r.tool = "execute_command_high_memory"

\* What the dialog says the command may use.
Offered(r) == IF r.mem = None THEN host.memMax ELSE r.mem

\* How far a call has come, by the log: a write never fails before the end,
\* or with the log off, and only a call that raised has a log of its own to
\* wait for.
Logging ==
    \A c \in Call :
        /\ phase[c] # "over" \/ ~host.audit => lost[c] = "no"
        /\ phase[c] \in {"logging", "detached"} =>
            host.audit /\ reply[c] \in {"error", "cancelled"}

\* A dialog is open only for a command that is not denied, and it shows what
\* the command will have.
Dialogs ==
    \A c \in Call : phase[c] = "asked" =>
        /\ request[c] \in ExecRequest
        /\ ~Matches(request[c].command, Deny)
        /\ High(request[c]) =>
            /\ shown[c] = Offered(request[c])
            /\ request[c].mem # None => request[c].mem >= 1

\* The audit part of the invariant, and the whole of it.
AuditType ==
    /\ phase \in [Call -> Phase]
    /\ reply \in [Call -> Reply]
    /\ log \in [Call -> {<<>>, <<"result">>, <<"error">>}]
    /\ lost \in [Call -> Lost]

AuditInv == AuditType /\ AuditedOnce /\ Logging

\* What a shell is given is what the inspection made of the request.
Inspected ==
    \A c \in Call : Waiting(c) =>
        /\ request[c] \in ExecRequest
        /\ line[c] = InspectCommand(request[c].command,
                                   WeightOf(request[c]), host.max)

IInv == TypeOK /\ AuditInv /\ Dialogs /\ OnlyApprovedRuns /\ Inspected

-----------------------------------------------------------------------------
\* The configuration and the clamps.

LEMMA HostType ==
  ASSUME host \in Hosts
  PROVE  /\ host.max \in Nat \ {0} /\ host.mem \in Nat \ {0}
         /\ host.memMax \in Nat \ {0}
         /\ host.dialogs \in BOOLEAN /\ host.audit \in BOOLEAN
  BY HostsAssumption DEF Host

\* Whatever the client asks for, the budget is a positive number, within the
\* normal cap, or for the second tool within what its dialog offers.
LEMMA BudgetType ==
  ASSUME host \in Hosts, NEW r \in ExecRequest, NEW high \in BOOLEAN
  PROVE  /\ MemBudget(r, high) \in Nat \ {0}
         /\ ~high => MemBudget(r, high) <= host.mem
         /\ high /\ (r.mem # None => r.mem >= 1) =>
                \/ MemBudget(r, high) <= host.mem
                \/ MemBudget(r, high) <= Offered(r)
<1>1. r.mem # None => r.mem \in Nat
  BY SizesAssumption DEF ExecRequest
<1> QED
  BY <1>1, HostType DEF MemBudget, Smaller, Offered

LEMMA WeightType ==
  ASSUME host \in Hosts, NEW r \in ExecRequest
  PROVE  WeightOf(r) \in 1 .. host.max
<1>1. r.weight \in Int
  BY WeightsAssumption DEF ExecRequest
<1> QED
  BY <1>1, HostType DEF WeightOf, Smaller

LEMMA OfferedType ==
  ASSUME host \in Hosts, NEW r \in ExecRequest
  PROVE  Offered(r) \in Sizes \union {host.memMax, None}
  BY DEF Offered, ExecRequest

-----------------------------------------------------------------------------
\* The ways a call ends.

\* The one entry that a call leaves, by its reply.
Single(how) ==
    IF how \in {"result", "rejected"} THEN <<"result">> ELSE <<"error">>

\* A write of the log leaves one entry, or marks it lost; of the others it may
\* write those that are over and still in the buffer.
LEMMA WriteOnce ==
  ASSUME AuditInv, host.audit, NEW c \in Call, NEW how, phase[c] # "over",
         Write(c, how)
  PROVE  /\ log' \in [Call -> {<<>>, <<"result">>, <<"error">>}]
         /\ lost' \in [Call -> Lost]
         /\ log'[c] = IF lost'[c] # "no" THEN <<>> ELSE Single(how)
         /\ \A d \in Call \ {c} :
               IF phase[d] # "over" THEN log'[d] = <<>> /\ lost'[d] = "no"
               ELSE log'[d] = IF lost'[d] # "no" THEN <<>>
                              ELSE Single(reply[d])
<1>1. \A d \in Call :
        /\ phase[d] # "over" => lost[d] = "no"
        /\ log[d] = IF phase[d] # "over" \/ lost[d] # "no" THEN <<>>
                    ELSE Single(reply[d])
  BY DEF AuditInv, AuditedOnce, Logging, Single
<1>2. \A how_1 : Append(<<>>, Entry(how_1)) = Single(how_1)
  BY DEF Entry, Single
<1>3. CASE /\ log' = [d \in Call |->
                        IF d = c THEN Append(log[d], Entry(how))
                        ELSE IF lost[d] = "buffered"
                        THEN Append(log[d], Entry(reply[d])) ELSE log[d]]
           /\ lost' = [d \in Call |->
                        IF lost[d] = "buffered" THEN "no" ELSE lost[d]]
  <2>1. /\ log'[c] = Single(how) /\ lost'[c] = "no"
        /\ lost' \in [Call -> Lost]
    BY <1>1, <1>2, <1>3 DEF AuditInv, AuditType, Lost
  <2>2. ASSUME NEW d \in Call \ {c}
        PROVE  IF phase[d] # "over" THEN log'[d] = <<>> /\ lost'[d] = "no"
               ELSE log'[d] = IF lost'[d] # "no" THEN <<>>
                              ELSE Single(reply[d])
    <3>1. CASE lost[d] = "buffered"
      <4>1. log[d] = <<>> /\ phase[d] = "over"
        BY <1>1, <3>1
      <4> QED BY <1>2, <1>3, <3>1, <4>1
    <3>2. CASE lost[d] # "buffered"
      BY <1>1, <1>3, <3>2
    <3> QED BY <3>1, <3>2
  <2>3. \A d \in Call : log'[d] \in {<<>>, <<"result">>, <<"error">>}
    BY <2>1, <2>2 DEF Single
  <2>4. log' \in [Call -> {<<>>, <<"result">>, <<"error">>}]
    BY <1>3, <2>3
  <2> QED BY <2>1, <2>2, <2>4
<1>4. CASE /\ lost' \in {[lost EXCEPT ![c] = l] : l \in Lost \ {"no"}}
           /\ log' = log
  BY <1>1, <1>4 DEF AuditInv, AuditType, Lost
<1> QED BY <1>3, <1>4 DEF Write

LEMMA ReturnedOnce ==
  ASSUME AuditInv, UNCHANGED host, host.audit \in BOOLEAN,
         NEW c \in Call, NEW how \in {"result", "rejected"},
         phase[c] # "over", Returned(c, how)
  PROVE  AuditInv'
<1>1. AuditType' /\ Logging'
  BY WriteOnce DEF Returned, AuditInv, AuditType, Logging, Phase, Reply
<1>2. AuditedOnce'
  <2>1. CASE host.audit
    BY <2>1, WriteOnce DEF Returned, AuditInv, AuditType, AuditedOnce, Single
  <2>2. CASE ~host.audit
    BY <2>2 DEF Returned, AuditInv, AuditType, AuditedOnce
  <2> QED BY <2>1, <2>2
<1> QED BY <1>1, <1>2 DEF AuditInv

LEMMA UnencodableOnce ==
  ASSUME AuditInv, UNCHANGED host, host.audit \in BOOLEAN,
         NEW c \in Call, phase[c] # "over", ReturnedUnencodable(c)
  PROVE  AuditInv'
<1>1. /\ phase' = [phase EXCEPT ![c] = "over"]
      /\ reply' = [reply EXCEPT ![c] =
                       IF host.audit THEN "error" ELSE "result"]
      /\ lost' = [lost EXCEPT ![c] = IF host.audit THEN "gone" ELSE "no"]
      /\ log' = log /\ log[c] = <<>>
  BY DEF ReturnedUnencodable, AuditInv, AuditedOnce
<1>2. AuditType' /\ Logging'
  BY <1>1 DEF AuditInv, AuditType, Logging, Phase, Reply, Lost
<1>3. AuditedOnce'
  BY <1>1 DEF AuditInv, AuditType, AuditedOnce
<1> QED BY <1>2, <1>3 DEF AuditInv

LEMMA RaisedOnce ==
  ASSUME AuditInv, UNCHANGED host, host.audit \in BOOLEAN,
         NEW c \in Call, NEW how \in {"error", "cancelled"},
         phase[c] # "over", Raised(c, how)
  PROVE  AuditInv'
  BY DEF Raised, AuditInv, AuditType, AuditedOnce, Logging, Phase, Reply

\* Moving on without ending touches neither reply nor log.
LEMMA MovesOn ==
  ASSUME AuditInv, UNCHANGED <<host, reply, log, lost>>, NEW c \in Call,
         NEW p \in {"asked", "queued", "running"}, phase[c] # "over",
         phase' = [phase EXCEPT ![c] = p]
  PROVE  AuditInv'
  BY DEF AuditInv, AuditType, AuditedOnce, Logging, Phase

-----------------------------------------------------------------------------
\* The gates.

\* A call that goes on to the queue leaves the gates as they were for others,
\* and for itself if its own gate has been passed.
LEMMA ExecuteApproved ==
  ASSUME IInv, UNCHANGED host, NEW c \in Call, NEW r \in ExecRequest,
         phase[c] \in {"idle", "asked"},
         request' = [request EXCEPT ![c] = r],
         shown' = shown, consent' \in [Call -> BOOLEAN],
         \A d \in Call \ {c} : consent'[d] = consent[d],
         ~Matches(r.command, Deny),
         Matches(r.command, Suspect) \/ High(r) => consent'[c],
         High(r) => /\ shown[c] = Offered(r)
                    /\ r.mem # None => r.mem >= 1,
         Execute(c, r, High(r))
  PROVE  IInv'
<1> USE DEF IInv
<1>1. host \in Hosts /\ host.audit \in BOOLEAN
  BY HostType DEF TypeOK
<1>2. AuditInv'
  BY <1>1, RaisedOnce, MovesOn DEF Execute
<1>3. CASE r.command = <<>>
  <2>1. /\ line' = line /\ budget' = budget
        /\ phase' = [phase EXCEPT ![c] =
                        IF host.audit THEN "logging" ELSE "over"]
    BY <1>3 DEF Execute, Raised
  <2>2. TypeOK'
    BY <1>2, <2>1 DEF TypeOK, AuditInv, AuditType, Waiting, ExecRequest,
                      Request, Lines
  <2>3. Dialogs' /\ OnlyApprovedRuns' /\ Inspected'
    BY <2>1 DEF TypeOK, Dialogs, OnlyApprovedRuns, Inspected, Waiting,
                Offered, WeightOf
  <2> QED BY <1>2, <2>2, <2>3
<1>4. CASE r.command # <<>>
  <2> DEFINE l == InspectCommand(r.command, WeightOf(r), host.max)
             b == MemBudget(r, High(r))
  <2>1. /\ line' = [line EXCEPT ![c] = l]
        /\ budget' = [budget EXCEPT ![c] = b]
        /\ phase' = [phase EXCEPT ![c] = "queued"]
    BY <1>4 DEF Execute
  <2>2. l \in Lines
    <3>1. r.command \in Commands
      BY DEF ExecRequest
    <3> QED BY <1>1, <3>1, WeightType DEF Lines
  <2>3. /\ b \in Nat \ {0}
        /\ \/ b <= host.mem
           \/ High(r) /\ b <= shown[c]
    BY <1>1, BudgetType DEF High
  <2> HIDE DEF l, b
  <2>4. TypeOK'
    <3>1. Lines' = Lines
      BY DEF Lines
    <3> QED BY <1>2, <2>1, <2>2, <2>3, <3>1
            DEF TypeOK, AuditInv, AuditType, Waiting, ExecRequest, Request
  <2>5. Dialogs'
    BY <2>1 DEF TypeOK, Dialogs, Offered
  <2>6. OnlyApprovedRuns'
    BY <2>1, <2>3 DEF TypeOK, OnlyApprovedRuns, Waiting, High
  <2>7. Inspected'
    <3>1. ASSUME NEW d \in Call \ {c}, phase'[d] \in {"queued", "running"}
          PROVE  /\ request'[d] \in ExecRequest
                 /\ line'[d] = InspectCommand(request'[d].command,
                                   WeightOf(request'[d]), host.max)
      BY <2>1, <3>1 DEF TypeOK, Inspected, Waiting
    <3>2. /\ request'[c] = r
          /\ line'[c] = InspectCommand(r.command, WeightOf(r), host.max)
      BY <2>1 DEF TypeOK, l
    <3>3. ASSUME NEW d \in Call, phase'[d] \in {"queued", "running"}
          PROVE  /\ request'[d] \in ExecRequest
                 /\ line'[d] = InspectCommand(request'[d].command,
                                   WeightOf(request'[d]), host.max)
      <4>1. CASE d = c
        BY <3>2, <4>1
      <4>2. CASE d # c
        BY <3>1, <3>3, <4>2
      <4> QED BY <4>1, <4>2
    <3> QED BY <3>3 DEF Inspected, Waiting, WeightOf
  <2> QED BY <1>2, <2>4, <2>5, <2>6, <2>7
<1> QED BY <1>3, <1>4

\* A call that ends leaves the gates as they were.
LEMMA EndsApproved ==
  ASSUME IInv, AuditInv', UNCHANGED <<host, line, budget>>,
         NEW c \in Call, NEW r \in Request \union {None},
         request' = [request EXCEPT ![c] = r],
         consent' \in [Call -> BOOLEAN],
         \A d \in Call \ {c} : consent'[d] = consent[d],
         shown' \in [Call -> Sizes \union {host.memMax, None}],
         \A d \in Call \ {c} : shown'[d] = shown[d],
         \A d \in Call \ {c} : phase'[d] = phase[d],
         phase'[c] \in {"logging", "detached", "over"}
  PROVE  IInv'
<1> USE DEF IInv
<1>1. TypeOK'
  <2>1. Lines' = Lines
    BY DEF Lines
  <2> QED BY <2>1 DEF TypeOK, AuditInv, AuditType, Waiting
<1>2. Dialogs' /\ OnlyApprovedRuns' /\ Inspected'
  BY DEF TypeOK, Dialogs, OnlyApprovedRuns, Inspected, Waiting, Offered,
         WeightOf
<1> QED BY <1>1, <1>2

-----------------------------------------------------------------------------
\* The invariant.

LEMMA InvInit == Init => IInv
<1> SUFFICES ASSUME Init PROVE IInv
  OBVIOUS
<1>1. AuditInv
  BY DEF Init, AuditInv, AuditType, AuditedOnce, Logging, Phase, Reply, Lost
<1>2. TypeOK
  BY DEF Init, TypeOK, Waiting, Phase, Reply, Lost
<1>3. Dialogs /\ OnlyApprovedRuns /\ Inspected
  BY DEF Init, Dialogs, OnlyApprovedRuns, Inspected, Waiting
<1> QED BY <1>1, <1>2, <1>3 DEF IInv

LEMMA InvCallTool ==
  ASSUME IInv, NEW c \in Call, NEW r \in Request, CallTool(c, r)
  PROVE  IInv'
<1>1. /\ host \in Hosts /\ host.audit \in BOOLEAN /\ AuditInv
      /\ consent' \in [Call -> BOOLEAN]
      /\ shown \in [Call -> Sizes \union {host.memMax, None}]
  BY HostType DEF IInv, TypeOK, CallTool
<1>2. /\ phase[c] = "idle" /\ UNCHANGED <<host, consent>>
      /\ request' = [request EXCEPT ![c] = r]
  BY DEF CallTool
<1>3. ASSUME Reject(c), shown' \in [Call -> Sizes \union {host.memMax, None}],
             \A d \in Call \ {c} : shown'[d] = shown[d]
      PROVE  IInv'
  <2>1. AuditInv'
    BY <1>1, <1>2, <1>3, ReturnedOnce DEF Reject
  <2> QED
    BY <1>1, <1>2, <1>3, <2>1, EndsApproved
    DEF Reject, Returned, AuditInv, AuditType
<1>4. ASSUME r \in ExecRequest, ~Matches(r.command, Deny),
             NEW mb \in Sizes \union {host.memMax, None}, Elicit(c, mb),
             High(r) => mb = Offered(r) /\ (r.mem # None => r.mem >= 1)
      PROVE  IInv'
  <2>1. /\ shown' \in [Call -> Sizes \union {host.memMax, None}]
        /\ \A d \in Call \ {c} : shown'[d] = shown[d]
        /\ shown'[c] = mb
    BY <1>1, <1>4 DEF Elicit
  <2>2. CASE host.dialogs
    <3>1. /\ phase' = [phase EXCEPT ![c] = "asked"]
          /\ UNCHANGED <<line, budget, reply, log, lost>>
      BY <1>4, <2>2 DEF Elicit
    <3>2. AuditInv'
      BY <1>1, <1>2, <3>1, MovesOn
    <3>3. TypeOK'
      <4>1. Lines' = Lines
        BY <1>2 DEF Lines
      <4> QED BY <1>1, <1>2, <2>1, <3>1, <3>2, <4>1
              DEF IInv, TypeOK, AuditInv, AuditType, Waiting
    <3>4. Dialogs' /\ OnlyApprovedRuns' /\ Inspected'
      BY <1>1, <1>2, <1>4, <2>1, <3>1
      DEF IInv, TypeOK, Dialogs, OnlyApprovedRuns, Inspected, Waiting,
          Offered, High, WeightOf
    <3> QED BY <3>2, <3>3, <3>4 DEF IInv
  <2>3. CASE ~host.dialogs
    BY <1>3, <1>4, <2>1, <2>3 DEF Elicit
  <2> QED BY <2>2, <2>3
<1>5. CASE ExecuteCommand(c, r)
  <2>1. r \in ExecRequest /\ ~High(r)
    BY <1>5 DEF ExecuteCommand, Request, ExecRequest, High
  <2>2. CASE Reject(c) /\ UNCHANGED shown
    BY <1>1, <1>3, <2>2
  <2>3. CASE Checked(r.command) = "elicit" /\ Elicit(c, None)
    BY <1>4, <2>1, <2>3 DEF Checked
  <2>4. CASE Checked(r.command) = "allow" /\ Execute(c, r, FALSE)
             /\ UNCHANGED shown
    <3>1. High(r) = FALSE
      BY <2>1 DEF High
    <3>2. Execute(c, r, High(r)) /\ shown' = shown
      BY <2>4, <3>1
    <3>3. ~Matches(r.command, Deny) /\ ~Matches(r.command, Suspect)
      BY <2>4 DEF Checked
    <3> QED BY <1>1, <1>2, <2>1, <3>2, <3>3, ExecuteApproved
  <2> QED BY <1>5, <2>2, <2>3, <2>4 DEF ExecuteCommand
<1>6. CASE ExecuteHighMemory(c, r)
  <2>1. r \in ExecRequest /\ High(r)
    BY <1>6 DEF ExecuteHighMemory, Request, ExecRequest, High
  <2>2. CASE Reject(c) /\ UNCHANGED shown
    BY <1>1, <1>3, <2>2
  <2>3. CASE /\ Checked(r.command) # "deny"
             /\ ~(IF r.mem = None THEN FALSE ELSE r.mem < 1)
             /\ Elicit(c, Offered(r))
    <3>1. r.mem # None => r.mem >= 1
      BY <2>1, <2>3, SizesAssumption DEF ExecRequest
    <3> QED BY <1>1, <1>4, <2>1, <2>3, <3>1, OfferedType DEF Checked
  <2> QED BY <1>6, <2>2, <2>3 DEF ExecuteHighMemory, Offered
<1>7. CASE CallOther(c, r)
  <2>1. AuditInv'
    BY <1>1, <1>2, <1>7, ReturnedOnce, UnencodableOnce, RaisedOnce
    DEF CallOther
  <2> QED
    BY <1>1, <1>2, <1>7, <2>1, EndsApproved
    DEF CallOther, Returned, ReturnedUnencodable, Raised, AuditInv, AuditType
<1> QED BY <1>5, <1>6, <1>7 DEF CallTool

LEMMA InvAnswer == ASSUME IInv, NEW c \in Call, Answer(c) PROVE IInv'
<1>1. /\ phase[c] = "asked"
      /\ UNCHANGED <<host, request, shown>>
      /\ host \in Hosts /\ host.audit \in BOOLEAN /\ AuditInv
      /\ shown \in [Call -> Sizes \union {host.memMax, None}]
      /\ request \in [Call -> Request \union {None}]
      /\ consent \in [Call -> BOOLEAN]
  BY HostType DEF IInv, TypeOK, Answer
<1> DEFINE r == request[c]
<1>2. PICK a \in Answers :
        /\ consent' = [consent EXCEPT ![c] = Yes(a)]
        /\ IF Accepted(a) THEN Execute(c, r, High(r)) ELSE Reject(c)
  BY DEF Answer, High
<1>3. /\ Yes(a) \in BOOLEAN
      /\ Accepted(a) => Yes(a)
  BY DEF Yes, Accepted, Answers
<1>4. /\ consent' \in [Call -> BOOLEAN]
      /\ \A d \in Call \ {c} : consent'[d] = consent[d]
      /\ consent'[c] = Yes(a)
  BY <1>1, <1>2, <1>3
<1>5. request' = [request EXCEPT ![c] = r]
  BY <1>1
<1>6. /\ r \in ExecRequest
      /\ ~Matches(r.command, Deny)
      /\ High(r) => shown[c] = Offered(r) /\ (r.mem # None => r.mem >= 1)
  BY <1>1 DEF IInv, Dialogs
<1>7. CASE Accepted(a)
  BY <1>1, <1>2, <1>3, <1>4, <1>5, <1>6, <1>7, ExecuteApproved
<1>8. CASE ~Accepted(a)
  <2>1. Reject(c)
    BY <1>2, <1>8
  <2>2. AuditInv'
    BY <1>1, <2>1, ReturnedOnce DEF Reject
  <2> QED
    BY <1>1, <1>4, <1>5, <2>1, <2>2, EndsApproved
    DEF Reject, Returned, AuditInv, AuditType
<1> QED BY <1>7, <1>8

\* The steps that leave the request, the dialog and the answer alone.
LEMMA InvRuns ==
  ASSUME IInv, NEW c \in Call,
         Start(c) \/ Finish(c) \/ Cancel(c) \/ LogShielded(c)
            \/ CancelledInLog(c)
  PROVE  IInv'
<1>1. /\ UNCHANGED <<host, request, shown, consent, line, budget>>
      /\ host \in Hosts /\ host.audit \in BOOLEAN /\ AuditInv
      /\ request \in [Call -> Request \union {None}]
      /\ shown \in [Call -> Sizes \union {host.memMax, None}]
      /\ consent \in [Call -> BOOLEAN]
  BY HostType DEF IInv, TypeOK, Start, Finish, Cancel, LogShielded,
                  CancelledInLog
<1>2. request' = [request EXCEPT ![c] = request[c]]
  BY <1>1
<1>3. ASSUME AuditInv', phase'[c] \in {"logging", "detached", "over"},
             \A d \in Call \ {c} : phase'[d] = phase[d]
      PROVE  IInv'
  BY <1>1, <1>2, <1>3, EndsApproved
<1>4. CASE Start(c)
  <2>1. /\ phase[c] = "queued" /\ phase' = [phase EXCEPT ![c] = "running"]
        /\ UNCHANGED <<reply, log, lost>>
    BY <1>4 DEF Start
  <2>2. AuditInv'
    BY <1>1, <2>1, MovesOn
  <2>3. Lines' = Lines
    BY <1>1 DEF Lines
  <2>4. TypeOK'
    BY <1>1, <2>1, <2>2, <2>3
    DEF IInv, TypeOK, AuditInv, AuditType, Waiting
  <2>5. Dialogs' /\ OnlyApprovedRuns' /\ Inspected'
    BY <1>1, <2>1
    DEF IInv, TypeOK, Dialogs, OnlyApprovedRuns, Inspected, Waiting, Offered,
        WeightOf
  <2> QED BY <2>2, <2>4, <2>5 DEF IInv
<1>5. CASE Finish(c)
  <2>1. AuditInv'
    BY <1>1, <1>5, ReturnedOnce, RaisedOnce DEF Finish
  <2> QED
    BY <1>1, <1>3, <1>5, <2>1
    DEF Finish, Returned, Raised, AuditInv, AuditType
<1>6. CASE Cancel(c)
  <2>1. AuditInv'
    BY <1>1, <1>6, RaisedOnce DEF Cancel
  <2> QED
    BY <1>1, <1>3, <1>6, <2>1 DEF Cancel, Raised, AuditInv, AuditType
<1>7. CASE LogShielded(c)
  <2>1. /\ phase[c] \in {"logging", "detached"} /\ Write(c, reply[c])
        /\ phase' = [phase EXCEPT ![c] = "over"] /\ reply' = reply
    BY <1>7 DEF LogShielded
  <2>2. reply[c] \in {"error", "cancelled"} /\ host.audit
    BY <1>1, <2>1 DEF AuditInv, Logging
  <2>3. /\ log' \in [Call -> {<<>>, <<"result">>, <<"error">>}]
        /\ lost' \in [Call -> Lost]
        /\ log'[c] = IF lost'[c] # "no" THEN <<>> ELSE Single(reply[c])
        /\ \A d \in Call \ {c} :
              IF phase[d] # "over" THEN log'[d] = <<>> /\ lost'[d] = "no"
              ELSE log'[d] = IF lost'[d] # "no" THEN <<>>
                             ELSE Single(reply[d])
    BY <1>1, <2>1, <2>2, WriteOnce
  <2>4. AuditInv'
    BY <1>1, <2>1, <2>2, <2>3
    DEF AuditInv, AuditType, AuditedOnce, Logging, Phase, Single
  <2> QED BY <1>1, <1>3, <2>1, <2>4 DEF AuditInv, AuditType
<1>8. CASE CancelledInLog(c)
  <2>1. AuditInv'
    BY <1>1, <1>8
    DEF CancelledInLog, AuditInv, AuditType, AuditedOnce, Logging, Phase
  <2> QED BY <1>1, <1>3, <1>8, <2>1 DEF CancelledInLog, AuditInv, AuditType
<1> QED BY <1>4, <1>5, <1>6, <1>7, <1>8

LEMMA InvStep == IInv /\ [Next]_vars => IInv'
<1> SUFFICES ASSUME IInv, [Next]_vars PROVE IInv'
  OBVIOUS
<1>1. CASE Next
  BY <1>1, InvCallTool, InvAnswer, InvRuns DEF Next
<1>2. CASE UNCHANGED vars
  BY <1>2
  DEF vars, IInv, TypeOK, AuditInv, AuditType, AuditedOnce, Logging, Dialogs,
      OnlyApprovedRuns, Inspected, Waiting, Lines, Offered, WeightOf
<1> QED BY <1>1, <1>2

LEMMA Invariant == Spec => []IInv
  BY InvInit, InvStep, PTL DEF Spec

\* Every variable keeps its type; in particular a command that waits or runs
\* has a line made from a command of the client, and at least one megabyte.
\* (the clamps of Runner.execute)
THEOREM TypeCorrect == Spec => []TypeOK
  BY Invariant, PTL DEF IInv

\* Whatever is asked, answered, cancelled and run at the same time, no denied
\* command gets to a shell, none that needs a yes gets there without the yes
\* to its own dialog, and none has more memory than was shown or than the
\* normal cap.  (the gates of exec_tools.py)
THEOREM GatesHold == Spec => []OnlyApprovedRuns
  BY Invariant, PTL DEF IInv

\* Every call that is over has one entry in the log, of the right kind, unless
\* its write failed; also when it was cancelled inside its own log.
\* (audited of audit.py)
THEOREM EveryCallAudited == Spec => []AuditedOnce
<1>1. IInv => AuditedOnce
  BY DEF IInv, AuditInv
<1> QED BY <1>1, Invariant, PTL

\* A single pytest, make, ninja or cargo, with its counts spelled in a way the
\* inspector knows, starts no more workers than the weight of its call, for
\* every command: however many options it has, whatever their counts, and also
\* where one word names several of the tools.
\* ("let it spawn up to W internal workers", inspector.py:45)
THEOREM WorkersBounded == Spec => []WorkersFitWeight
<1>1. IInv => WorkersFitWeight
  <2> SUFFICES ASSUME IInv, NEW c \in Call, Waiting(c),
                      NEW s, s = request[c].command, Spelled(s)
               PROVE  /\ Names(s, Pytest) =>
                            Workers(line[c], XdistFlags, 1000, 1000)
                                <= WeightOf(request[c])
                      /\ Names(s, Make) \/ Names(s, Ninja) =>
                            Workers(line[c], JobsFlags, 1000, 1000)
                                <= WeightOf(request[c])
                      /\ Names(s, Cargo) =>
                            Workers(line[c], {"--jobs"}, 1000, 1000)
                                <= WeightOf(request[c])
    BY DEF WorkersFitWeight, Known, XdistFlags, JobsFlags
  <2>1. /\ request[c] \in ExecRequest
        /\ line[c] = InspectCommand(s, WeightOf(request[c]), host.max)
    BY DEF IInv, Inspected
  <2>2. host.max \in Nat \ {0} /\ WeightOf(request[c]) \in 1 .. host.max
    BY <2>1, HostType, WeightType DEF IInv, TypeOK
  <2>3. IsCommand(s)
    BY <2>1, CommandsAssumption DEF ExecRequest
  <2> DEFINE cores == 1000
  <2> HIDE DEF cores
  <2>4. /\ Names(s, Pytest) =>
              Workers(line[c], XdistFlags, cores, cores)
                  <= WeightOf(request[c])
        /\ Names(s, Make) \/ Names(s, Ninja) =>
              Workers(line[c], JobsFlags, cores, cores)
                  <= WeightOf(request[c])
        /\ Names(s, Cargo) =>
              Workers(line[c], {"--jobs"}, cores, cores)
                  <= WeightOf(request[c])
    BY <2>1, <2>2, <2>3, InspectedFits
  <2> QED BY <2>4 DEF cores
<1> QED BY <1>1, Invariant, PTL
=============================================================================
