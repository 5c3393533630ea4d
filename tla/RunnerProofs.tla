---------------------------- MODULE RunnerProofs ----------------------------
(***************************************************************************)
(* Proofs about Runner, for any number of calls, any cap, any weights and  *)
(* any core pool.                                                          *)
(***************************************************************************)
EXTENDS Runner, FiniteSetTheorems, TLAPS

-----------------------------------------------------------------------------
\* The n smallest of a finite set of numbers.

LEMMA FirstOfSize ==
  ASSUME NEW S \in SUBSET Int, IsFiniteSet(S), NEW n \in Nat
  PROVE  /\ FirstOf(S, n) \subseteq S
         /\ IsFiniteSet(FirstOf(S, n))
         /\ Cardinality(FirstOf(S, n)) <= n
         /\ n <= Cardinality(S) => Cardinality(FirstOf(S, n)) = n
<1> DEFINE Below(c) == {d \in S : d < c}
           F == FirstOf(S, n)
           rank == [c \in S |-> Cardinality(Below(c))]
           N == Cardinality(S)
<1>1. N \in Nat
  BY FS_CardinalityType
<1>2. ASSUME NEW c \in S
      PROVE  IsFiniteSet(Below(c)) /\ Cardinality(Below(c)) \in 0 .. N - 1
  <2>1. IsFiniteSet(S \ {c}) /\ Cardinality(S \ {c}) = N - 1
    BY FS_RemoveElement
  <2>2. Below(c) \in SUBSET (S \ {c})
    OBVIOUS
  <2>3. IsFiniteSet(Below(c)) /\ Cardinality(Below(c)) <= N - 1
    BY <2>1, <2>2, FS_Subset
  <2>4. Cardinality(Below(c)) \in Nat
    BY <2>3, FS_CardinalityType
  <2> QED BY <2>3, <2>4, <1>1
<1>3. ASSUME NEW c \in S, NEW e \in S, c < e
      PROVE  Cardinality(Below(c)) < Cardinality(Below(e))
  <2>1. Below(c) \in SUBSET Below(e) /\ Below(c) # Below(e)
    <3>1. c \in Int /\ e \in Int /\ \A d \in S : d \in Int
      OBVIOUS
    <3>2. \A d \in S : d < c => d < e
      BY <3>1, <1>3
    <3>3. c \in Below(e) /\ c \notin Below(c)
      BY <3>1, <1>3
    <3> QED BY <3>2, <3>3
  <2>2. Cardinality(Below(c)) <= Cardinality(Below(e))
    BY <2>1, <1>2, FS_Subset
  <2>3. Cardinality(Below(c)) # Cardinality(Below(e))
    BY <2>1, <1>2, FS_Subset
  <2> QED
    <3> HIDE DEF Below
    <3> QED BY <2>2, <2>3, <1>2, <1>1
<1>4. F \subseteq S /\ \A c \in S : c \in F <=> rank[c] < n
  BY DEF FirstOf
<1>5. rank \in Injection(S, 0 .. N - 1)
  <2>1. rank \in [S -> 0 .. N - 1]
    BY <1>2
  <2>2. ASSUME NEW c \in S, NEW e \in S, rank[c] = rank[e] PROVE c = e
    <3>1. c < e \/ e < c \/ c = e
      OBVIOUS
    <3>2. Cardinality(Below(c)) = Cardinality(Below(e))
      BY <2>2
    <3>3. Cardinality(Below(c)) \in Int
      BY <1>2
    <3> HIDE DEF rank, Below
    <3>4. ~(c < e)
      BY <3>2, <3>3, <1>3
    <3>5. ~(e < c)
      BY <3>2, <3>3, <1>3
    <3> QED BY <3>1, <3>4, <3>5
  <2> HIDE DEF rank
  <2> QED BY <2>1, <2>2 DEF Injection, IsInjective
<1>6. IsFiniteSet(0 .. N - 1) /\ Cardinality(0 .. N - 1) = N
  BY <1>1, FS_Interval
<1>7. rank \in Surjection(S, 0 .. N - 1)
  <2>1. Cardinality(S) = N
    OBVIOUS
  <2> HIDE DEF rank, N
  <2> QED BY <2>1, <1>5, <1>6, FS_Injection
<1>8. IsFiniteSet(0 .. n - 1) /\ Cardinality(0 .. n - 1) = n
  BY FS_Interval
<1> DEFINE part == [c \in F |-> rank[c]]
<1>9. part \in Injection(F, 0 .. n - 1)
  <2>1. \A c \in F : part[c] \in 0 .. n - 1
    <3> HIDE DEF F, rank, N
    <3> QED BY <1>1, <1>4, <1>5 DEF Injection
  <2>2. \A c, e \in F : part[c] = part[e] => c = e
    <3> HIDE DEF F, rank
    <3> QED BY <1>4, <1>5 DEF Injection, IsInjective
  <2> HIDE DEF F, rank
  <2> QED BY <2>1, <2>2 DEF Injection, IsInjective
<1>10. IsFiniteSet(F) /\ Cardinality(F) <= n
  <2> HIDE DEF F, part
  <2> QED BY <1>8, <1>9, FS_Injection
<1>11. ASSUME n <= N PROVE Cardinality(F) = n
  <2>1. part \in Surjection(F, 0 .. n - 1)
    <3>1. ASSUME NEW k \in 0 .. n - 1 PROVE \E c \in F : part[c] = k
      <4> HIDE DEF rank, N, F
      <4>1. k \in 0 .. N - 1
        BY <1>1, <1>11
      <4>2. PICK c \in S : rank[c] = k
        BY <4>1, <1>7 DEF Surjection
      <4> QED BY <4>2, <1>4
    <3> HIDE DEF part
    <3> QED BY <3>1, <1>9 DEF Injection, Surjection
  <2> HIDE DEF part, F
  <2> QED BY <2>1, <1>8, <1>9, FS_Injection
<1> HIDE DEF F, N
<1>12. QED
  BY <1>4, <1>10, <1>11 DEF F, N

-----------------------------------------------------------------------------
\* The queue of the semaphore.

Queued(q, t) == \E i \in 1 .. Len(q) : q[i] = t
Distinct(q) == \A i, j \in 1 .. Len(q) : q[i] = q[j] => i = j

\* A wake-up reaches waiters that had no permit, and no more than there are.
LEMMA HandedFew ==
  ASSUME NEW q \in Seq(Task), NEW n \in Nat, NEW w
  PROVE  /\ \A t \in Handed(n, q, w) : Queued(q, t) /\ t \notin w /\ t \in Task
         /\ IsFiniteSet(Handed(n, q, w))
         /\ Cardinality(Handed(n, q, w)) \in 0 .. n
<1> DEFINE J == {j \in 1 .. Len(q) : q[j] \notin w}
           I == FirstOf(J, n)
<1>1. J \in SUBSET Int /\ IsFiniteSet(J)
  <2>1. IsFiniteSet(1 .. Len(q))
    BY FS_Interval
  <2>2. J \in SUBSET (1 .. Len(q))
    OBVIOUS
  <2> QED BY <2>1, <2>2, FS_Subset
<1>2. I \subseteq J /\ IsFiniteSet(I) /\ Cardinality(I) <= n
  <2> HIDE DEF J
  <2> QED BY <1>1, FirstOfSize
<1>3. Handed(n, q, w) = {q[i] : i \in I}
  BY DEF Handed
<1>4. /\ IsFiniteSet({q[i] : i \in I})
      /\ Cardinality({q[i] : i \in I}) <= Cardinality(I)
  <2> DEFINE at == [i \in I |-> q[i]]
             T == {q[i] : i \in I}
  <2>1. at \in Surjection(I, T)
    <3> HIDE DEF I
    <3> QED BY DEF Surjection
  <2> HIDE DEF at, T, I
  <2>2. QED BY <2>1, <1>2, FS_Surjection DEF T
<1>5. Cardinality({q[i] : i \in I}) \in Nat /\ Cardinality(I) \in Nat
  <2> HIDE DEF I
  <2> QED BY <1>2, <1>4, FS_CardinalityType
<1>6. \A t \in {q[i] : i \in I} : Queued(q, t) /\ t \notin w /\ t \in Task
  <2> HIDE DEF I
  <2> QED BY <1>2 DEF Queued
<1> HIDE DEF I
<1> QED BY <1>2, <1>3, <1>4, <1>5, <1>6

LEMMA WithoutQueue ==
  ASSUME NEW q \in Seq(Task), Distinct(q), NEW t, Queued(q, t)
  PROVE  /\ Without(q, t) \in Seq(Task)
         /\ Distinct(Without(q, t))
         /\ \A u : Queued(Without(q, t), u) <=> Queued(q, u) /\ u # t
<1> DEFINE at == CHOOSE i \in 1 .. Len(q) : q[i] = t
           r == Without(q, t)
<1>1. at \in 1 .. Len(q) /\ q[at] = t
  BY DEF Queued
<1> HIDE DEF at
<1>2. r = [i \in 1 .. Len(q) - 1 |-> IF i < at THEN q[i] ELSE q[i + 1]]
  BY DEF Without, at
<1> HIDE DEF r
<1>3. Len(q) \in Nat /\ Len(q) > 0
  BY <1>1
<1>4. r \in Seq(Task) /\ Len(r) = Len(q) - 1
  BY <1>1, <1>2, <1>3
<1>5. \A i \in 1 .. Len(r) : r[i] = IF i < at THEN q[i] ELSE q[i + 1]
  BY <1>2, <1>4
<1>6. \A i \in 1 .. Len(q) : i # at =>
        \E j \in 1 .. Len(r) : r[j] = q[i]
  <2> TAKE i \in 1 .. Len(q)
  <2>1. CASE i < at
    BY <2>1, <1>1, <1>3, <1>4, <1>5
  <2>2. CASE i > at
    <3>1. i - 1 \in 1 .. Len(r) /\ ~(i - 1 < at) /\ i - 1 + 1 = i
      BY <2>2, <1>1, <1>3, <1>4
    <3> QED BY <3>1, <1>5
  <2> QED BY <2>1, <2>2, <1>1
<1>7. \A j \in 1 .. Len(r) : \E i \in 1 .. Len(q) : i # at /\ r[j] = q[i]
  <2> TAKE j \in 1 .. Len(r)
  <2>1. CASE j < at
    BY <2>1, <1>1, <1>3, <1>4, <1>5
  <2>2. CASE ~(j < at)
    <3>1. j + 1 \in 1 .. Len(q) /\ j + 1 # at
      BY <2>2, <1>1, <1>3, <1>4
    <3> QED BY <3>1, <2>2, <1>5
  <2> QED BY <2>1, <2>2
<1>8. Distinct(r)
  <2> SUFFICES ASSUME NEW i \in 1 .. Len(r), NEW j \in 1 .. Len(r), r[i] = r[j]
               PROVE  i = j
    BY DEF Distinct
  <2> DEFINE old(k) == IF k < at THEN k ELSE k + 1
  <2>1. old(i) \in 1 .. Len(q) /\ old(j) \in 1 .. Len(q)
    BY <1>3, <1>4
  <2>2. r[i] = q[old(i)] /\ r[j] = q[old(j)]
    BY <1>5
  <2>3. old(i) = old(j)
    <3> HIDE DEF old
    <3> QED BY <2>1, <2>2 DEF Distinct
  <2> QED BY <2>3, <1>1
<1>9. \A u : Queued(r, u) <=> Queued(q, u) /\ u # t
  BY <1>1, <1>6, <1>7 DEF Queued, Distinct
<1> QED BY <1>4, <1>8, <1>9 DEF r

LEMMA AppendQueue ==
  ASSUME NEW q \in Seq(Task), Distinct(q), NEW t \in Task, ~Queued(q, t)
  PROVE  /\ Append(q, t) \in Seq(Task)
         /\ Distinct(Append(q, t))
         /\ \A u : Queued(Append(q, t), u) <=> Queued(q, u) \/ u = t
<1>1. /\ Append(q, t) \in Seq(Task)
      /\ Len(Append(q, t)) = Len(q) + 1
      /\ \A i \in 1 .. Len(q) : Append(q, t)[i] = q[i]
      /\ Append(q, t)[Len(q) + 1] = t
      /\ Len(q) \in Nat
  OBVIOUS
<1> DEFINE r == Append(q, t)
<1> HIDE DEF r
<1>2. \A i \in 1 .. Len(r) : i \in 1 .. Len(q) \/ i = Len(q) + 1
  BY <1>1 DEF r
<1>3. Distinct(r)
  BY <1>1, <1>2 DEF r, Distinct, Queued
<1>4. \A u : Queued(r, u) <=> Queued(q, u) \/ u = t
  BY <1>1, <1>2 DEF r, Queued
<1> QED BY <1>1, <1>3, <1>4 DEF r

-----------------------------------------------------------------------------
\* The permits of all calls together.

\* One call's permits change by what its number changes.
LEMMA PermitsExcept ==
  ASSUME NEW h \in [Task -> Nat], NEW t \in Task, NEW n \in Nat,
         IsFiniteSet(Permits(h))
  PROVE  /\ IsFiniteSet(Permits([h EXCEPT ![t] = n]))
         /\ Cardinality(Permits([h EXCEPT ![t] = n]))
              = Cardinality(Permits(h)) - h[t] + n
<1> DEFINE Mine(k) == {t} \X (1 .. k)
           Rest == UNION {{u} \X (1 .. h[u]) : u \in Task \ {t}}
           g == [h EXCEPT ![t] = n]
<1>1. ASSUME NEW k \in Nat
      PROVE  /\ IsFiniteSet(Mine(k))
             /\ Cardinality(Mine(k)) = k
             /\ Rest \cap Mine(k) = {}
  <2>1. IsFiniteSet({t}) /\ Cardinality({t}) = 1
    BY FS_Singleton
  <2>2. IsFiniteSet(1 .. k) /\ Cardinality(1 .. k) = k
    BY FS_Interval
  <2>3. IsFiniteSet(Mine(k)) /\ Cardinality(Mine(k)) = 1 * k
    BY <2>1, <2>2, FS_Product
  <2>4. Rest \cap Mine(k) = {}
    OBVIOUS
  <2> QED BY <2>3, <2>4
<1>2. Permits(h) = Rest \cup Mine(h[t])
  BY DEF Permits
<1>3. Permits(g) = Rest \cup Mine(n)
  <2>1. g \in [Task -> Nat] /\ g[t] = n /\ \A u \in Task \ {t} : g[u] = h[u]
    OBVIOUS
  <2> HIDE DEF g
  <2>2. \A x : x \in Permits(g) <=>
                \E u \in Task : x \in {u} \X (1 .. g[u])
    BY DEF Permits
  <2>3. \A x : x \in Rest \cup Mine(n) <=>
                \E u \in Task : x \in {u} \X (1 .. g[u])
    BY <2>1
  <2> QED BY <2>2, <2>3
<1> HIDE DEF Mine, g
<1>4. IsFiniteSet(Rest)
  <2>1. Rest \in SUBSET Permits(h)
    BY <1>2
  <2> QED BY <2>1, FS_Subset
<1> HIDE DEF Rest
<1>5. ASSUME NEW k \in Nat
      PROVE  /\ IsFiniteSet(Rest \cup Mine(k))
             /\ Cardinality(Rest \cup Mine(k)) = Cardinality(Rest) + k
  <2> DEFINE M == Mine(k)
  <2>1. IsFiniteSet(M) /\ Cardinality(M) = k /\ Rest \cap M = {}
    BY <1>1
  <2> HIDE DEF M
  <2>2. /\ IsFiniteSet(Rest \cup M)
        /\ Cardinality(Rest \cup M) = Cardinality(Rest)
             + Cardinality(M) - Cardinality(Rest \cap M)
    BY <2>1, <1>4, FS_Union
  <2>3. Cardinality(Rest \cap M) = 0
    BY <2>1, FS_EmptySet
  <2>4. Cardinality(Rest) \in Nat
    BY <1>4, FS_CardinalityType
  <2>5. Cardinality(Rest \cup M) = Cardinality(Rest) + k
    BY <2>1, <2>2, <2>3, <2>4
  <2> QED BY <2>2, <2>5 DEF M
<1>6. h[t] \in Nat /\ Cardinality(Rest) \in Nat
  BY <1>4, FS_CardinalityType
<1>7. /\ Cardinality(Permits(h)) = Cardinality(Rest) + h[t]
      /\ Cardinality(Permits(g)) = Cardinality(Rest) + n
      /\ IsFiniteSet(Permits(g))
  BY <1>2, <1>3, <1>5, <1>6
<1> QED BY <1>6, <1>7 DEF g

-----------------------------------------------------------------------------
\* The inductive invariant.

\* The queue holds the calls that wait, each once, and only they are woken.
Waiters ==
    /\ Distinct(queue)
    /\ \A t \in Task : pc[t] = "wait" <=> Queued(queue, t)
    /\ \A t \in woken : pc[t] = "wait"
    /\ IsFiniteSet(woken)

\* A command that is under way has its weight, a waiting one less, any other
\* nothing.
Weights ==
    \A t \in Task :
        /\ pc[t] \in Occupying => held[t] = SlotWeight(t)
        /\ pc[t] = "wait" => held[t] < SlotWeight(t)
        /\ pc[t] \in {"idle", "done"} => held[t] = 0

\* No child before the spawn; a leader that outlives its call was abandoned.
Trees ==
    \A t \in Task :
        /\ pc[t] \in {"idle", "wait", "spawn"} => child[t] = "none"
        /\ pc[t] \in {"join", "done"} /\ child[t] \in {"alive", "stuck"} =>
              \/ outcome[t] \in {"stalled", "cancelled"}
              \/ mode = "allowlist" /\ outcome[t] = "failed"

\* Permits may be lost, where they are not counted one by one, and are never
\* made up.
Supply ==
    /\ IsFiniteSet(Permits(held))
    /\ LET all == value + Cardinality(woken) + Cardinality(Permits(held))
       IN  all <= MaxConcurrent /\ (CountPartial => all = MaxConcurrent)

IInv == TypeOK /\ Waiters /\ Weights /\ Trees /\ Supply

-----------------------------------------------------------------------------

LEMMA WeightsBounded ==
  ASSUME NEW t \in Task
  PROVE  /\ SlotWeight(t) \in Nat \ {0} /\ CoreWeight(t) \in Nat \ {0}
         /\ SlotWeight(t) <= MaxConcurrent
         /\ WeightCap >= MaxConcurrent => SlotWeight(t) = CoreWeight(t)
<1>1. Weight[t] \in Nat \ {0}
  BY ConstantsAssumption
<1> QED BY <1>1, ConstantsAssumption DEF SlotWeight, CoreWeight, Least

\* Free permits handed on become permits in flight.
LEMMA HandedMoves ==
  ASSUME NEW v \in Nat, NEW n \in 0 .. v, NEW q \in Seq(Task),
         NEW w \in SUBSET Task, IsFiniteSet(w)
  PROVE  LET H == Handed(n, q, w)
         IN  /\ v - Cardinality(H) \in Nat
             /\ w \cup H \in SUBSET Task
             /\ IsFiniteSet(w \cup H)
             /\ v - Cardinality(H) + Cardinality(w \cup H)
                  = v + Cardinality(w)
             /\ \A u \in w \cup H : u \in w \/ Queued(q, u)
<1> DEFINE H == Handed(n, q, w)
<1>1. /\ \A t \in H : Queued(q, t) /\ t \notin w /\ t \in Task
      /\ IsFiniteSet(H)
      /\ Cardinality(H) \in 0 .. n
  BY HandedFew
<1> HIDE DEF H
<1>2. /\ IsFiniteSet(w \cup H)
      /\ Cardinality(w \cup H)
           = Cardinality(w) + Cardinality(H) - Cardinality(w \cap H)
  BY <1>1, FS_Union
<1>3. w \cap H = {}
  BY <1>1
<1>4. Cardinality(w \cap H) = 0 /\ Cardinality(w) \in Nat
  BY <1>3, FS_EmptySet, FS_CardinalityType
<1>5. /\ v - Cardinality(H) \in Nat
      /\ v - Cardinality(H) + Cardinality(w \cup H) = v + Cardinality(w)
  BY <1>1, <1>2, <1>4
<1> QED BY <1>1, <1>2, <1>5 DEF H

\* What an acquiring call does with the free permits, whether it gets its
\* weight or has to wait for more.
LEMMA AcquireMoves ==
  ASSUME TypeOK, Supply, NEW t \in Task, NEW STATE h, h \in Nat,
         NEW STATE v, v \in Nat, NEW STATE q, q \in Seq(Task), NEW STATE w,
         h <= SlotWeight(t),
         AcquireLoop(t, h, v, q, w)
  PROVE  /\ held' \in [Task -> Nat]
         /\ \A u \in Task \ {t} : held'[u] = held[u]
         /\ value' \in Nat
         /\ woken' = w
         /\ IsFiniteSet(Permits(held'))
         /\ value' + Cardinality(Permits(held'))
              = v + Cardinality(Permits(held)) - held[t] + h
         /\ \/ /\ held'[t] = SlotWeight(t)
               /\ queue' = q
               /\ pc' = [pc EXCEPT ![t] = "spawn"]
               /\ ClaimCores(t)
            \/ /\ held'[t] < SlotWeight(t)
               /\ queue' = Append(q, t)
               /\ pc' = [pc EXCEPT ![t] = "wait"]
               /\ UNCHANGED <<cores, inUse>>
<1> DEFINE need == SlotWeight(t) - h
           take == IF q = <<>> THEN Least(v, need) ELSE 0
<1>1. need \in Nat
  BY WeightsBounded
<1>2. take \in Nat /\ take <= v /\ take <= need
  <2> HIDE DEF need
  <2> QED BY <1>1 DEF Least
<1>3. /\ held' = [held EXCEPT ![t] = h + take]
      /\ value' = v - take
      /\ woken' = w
      /\ \/ /\ take = need
            /\ queue' = q
            /\ pc' = [pc EXCEPT ![t] = "spawn"]
            /\ ClaimCores(t)
         \/ /\ take < need
            /\ queue' = Append(q, t)
            /\ pc' = [pc EXCEPT ![t] = "wait"]
            /\ UNCHANGED <<cores, inUse>>
  BY DEF AcquireLoop
<1> HIDE DEF take
<1>4. held \in [Task -> Nat] /\ IsFiniteSet(Permits(held))
  BY DEF TypeOK, Supply
<1>5. /\ held' \in [Task -> Nat]
      /\ held'[t] = h + take
      /\ \A u \in Task \ {t} : held'[u] = held[u]
  BY <1>2, <1>3, <1>4
<1>6. /\ IsFiniteSet(Permits(held'))
      /\ Cardinality(Permits(held'))
           = Cardinality(Permits(held)) - held[t] + h + take
  <2>1. h + take \in Nat
    BY <1>2
  <2>2. /\ IsFiniteSet(Permits([held EXCEPT ![t] = h + take]))
        /\ Cardinality(Permits([held EXCEPT ![t] = h + take]))
             = Cardinality(Permits(held)) - held[t] + (h + take)
    BY <1>4, <2>1, PermitsExcept
  <2>3. Cardinality(Permits(held)) \in Nat /\ held[t] \in Nat
    BY <1>4, FS_CardinalityType
  <2> QED BY <1>2, <1>3, <2>2, <2>3
<1>7. value' + Cardinality(Permits(held'))
        = v + Cardinality(Permits(held)) - held[t] + h
  <2>1. Cardinality(Permits(held)) \in Nat /\ held[t] \in Nat
    BY <1>4, FS_CardinalityType
  <2> QED BY <2>1, <1>2, <1>3, <1>6
<1>8. value' \in Nat
  BY <1>2, <1>3
<1>9. SlotWeight(t) \in Nat
  BY WeightsBounded
<1>10. /\ take = need => held'[t] = SlotWeight(t)
       /\ take < need => held'[t] < SlotWeight(t)
  BY <1>2, <1>5, <1>9
<1> HIDE DEF need
<1> QED BY <1>3, <1>5, <1>6, <1>7, <1>8, <1>10

-----------------------------------------------------------------------------
\* The steps, by what they do to the semaphore.

\* A call that asks for permits, for the first time or woken with one.
LEMMA AcquireKeeps ==
  ASSUME IInv, NEW t \in Task, NEW STATE h, h \in Nat, NEW STATE v, v \in Nat,
         NEW STATE q, q \in Seq(Task), NEW STATE w, w \in SUBSET Task,
         h <= SlotWeight(t), h >= held[t],
         Distinct(q),
         \A u \in Task : Queued(q, u) <=> pc[u] = "wait" /\ u # t,
         \A u \in w : Queued(q, u),
         IsFiniteSet(w),
         v + Cardinality(w) + h = value + Cardinality(woken) + held[t],
         AcquireLoop(t, h, v, q, w),
         pc[t] \in {"idle", "wait"},
         UNCHANGED <<child, outcome, mode>>
  PROVE  IInv'
<1>0. /\ TypeOK /\ Waiters /\ Weights /\ Trees /\ Supply
  BY DEF IInv
<1>1. /\ held' \in [Task -> Nat]
      /\ \A u \in Task \ {t} : held'[u] = held[u]
      /\ value' \in Nat
      /\ woken' = w
      /\ IsFiniteSet(Permits(held'))
      /\ value' + Cardinality(Permits(held'))
           = v + Cardinality(Permits(held)) - held[t] + h
      /\ \/ /\ held'[t] = SlotWeight(t)
            /\ queue' = q
            /\ pc' = [pc EXCEPT ![t] = "spawn"]
            /\ ClaimCores(t)
         \/ /\ held'[t] < SlotWeight(t)
            /\ queue' = Append(q, t)
            /\ pc' = [pc EXCEPT ![t] = "wait"]
            /\ UNCHANGED <<cores, inUse>>
  BY <1>0, AcquireMoves
<1>2. /\ ~Queued(q, t)
      /\ Append(q, t) \in Seq(Task)
      /\ Distinct(Append(q, t))
      /\ \A u : Queued(Append(q, t), u) <=> Queued(q, u) \/ u = t
  BY AppendQueue
<1>3. \A n : Chosen(n) \in SUBSET Core
  BY DEF Chosen, FirstOf
<1>4. TypeOK'
  <2>1. pc \in [Task -> Phase] /\ cores \in [Task -> SUBSET Core]
        /\ inUse \in SUBSET Core
    BY <1>0 DEF TypeOK
  <2>2. CASE pc' = [pc EXCEPT ![t] = "spawn"] /\ queue' = q /\ ClaimCores(t)
    <3>1. cores' \in [Task -> SUBSET Core] /\ inUse' \in SUBSET Core
      BY <2>1, <2>2, <1>3 DEF ClaimCores
    <3>2. pc' \in [Task -> Phase]
      BY <2>1, <2>2 DEF Phase
    <3> QED BY <3>1, <3>2, <2>2, <1>0, <1>1 DEF TypeOK
  <2>3. CASE /\ pc' = [pc EXCEPT ![t] = "wait"]
             /\ queue' = Append(q, t)
             /\ UNCHANGED <<cores, inUse>>
    <3>1. pc' \in [Task -> Phase]
      BY <2>1, <2>3 DEF Phase
    <3> QED BY <3>1, <2>3, <1>0, <1>1, <1>2 DEF TypeOK
  <2> QED BY <2>2, <2>3, <1>1
<1>5. Waiters'
  <2>1. pc \in [Task -> Phase]
    BY <1>0 DEF TypeOK
  <2>2. CASE pc' = [pc EXCEPT ![t] = "spawn"] /\ queue' = q
    BY <2>1, <2>2, <1>1, <1>2 DEF Waiters
  <2>3. CASE pc' = [pc EXCEPT ![t] = "wait"] /\ queue' = Append(q, t)
    BY <2>1, <2>3, <1>1, <1>2 DEF Waiters
  <2> QED BY <2>2, <2>3, <1>1
<1>6. Weights'
  <2>1. \/ pc'[t] = "spawn" /\ held'[t] = SlotWeight(t)
        \/ pc'[t] = "wait" /\ held'[t] < SlotWeight(t)
    BY <1>0, <1>1 DEF TypeOK
  <2>2. \A u \in Task \ {t} : pc'[u] = pc[u] /\ held'[u] = held[u]
    BY <1>0, <1>1 DEF TypeOK
  <2> QED BY <2>1, <2>2, <1>0 DEF Weights, Occupying
<1>7. Trees'
  <2>1. pc'[t] \in {"wait", "spawn"} /\ \A u \in Task \ {t} : pc'[u] = pc[u]
    BY <1>0, <1>1 DEF TypeOK
  <2> QED BY <2>1, <1>0 DEF Trees
<1>8. Supply'
  <2>1. Cardinality(w) \in Nat /\ Cardinality(woken) \in Nat
        /\ Cardinality(Permits(held)) \in Nat /\ held[t] \in Nat
    BY <1>0, FS_CardinalityType DEF Waiters, Supply, TypeOK
  <2>2. value' + Cardinality(woken') + Cardinality(Permits(held'))
          = value + Cardinality(woken) + Cardinality(Permits(held))
    <3>1. Cardinality(Permits(held')) \in Nat /\ value \in Nat
      BY <1>0, <1>1, FS_CardinalityType DEF TypeOK
    <3>2. Cardinality(woken') = Cardinality(w)
      BY <1>1
    <3>3. value' + Cardinality(Permits(held'))
            = v + Cardinality(Permits(held)) - held[t] + h
      BY <1>1
    <3>4. value' \in Nat
      BY <1>1
    <3>5. v + Cardinality(w) + h = value + Cardinality(woken) + held[t]
      OBVIOUS
    <3> DEFINE before == Cardinality(Permits(held))
               after == Cardinality(Permits(held'))
               mine == held[t]
               flight == Cardinality(woken)
               left == Cardinality(w)
               free == value'
    <3>6. /\ before \in Nat /\ after \in Nat /\ mine \in Nat
          /\ flight \in Nat /\ left \in Nat /\ free \in Nat
      BY <2>1, <3>1, <3>4
    <3>7. free + after = v + before - mine + h
      BY <3>3
    <3>8. v + left + h = value + flight + mine
      BY <3>5
    <3> HIDE DEF before, after, mine, flight, left, free
    <3>9. free + left + after = value + flight + before
      BY <3>1, <3>6, <3>7, <3>8
    <3> QED BY <3>2, <3>9 DEF before, after, flight, left, free
  <2> QED BY <2>2, <1>0, <1>1 DEF Supply
<1> QED BY <1>4, <1>5, <1>6, <1>7, <1>8 DEF IInv

\* A call that ends gives back what it holds, or less.
LEMMA EndKeeps ==
  ASSUME IInv, NEW t \in Task, NEW STATE v, v \in Nat,
         NEW STATE n, n \in 0 .. v,
         NEW STATE q, q \in Seq(Task), NEW STATE w, w \in SUBSET Task,
         Distinct(q),
         \A u \in Task : Queued(q, u) <=> pc[u] = "wait" /\ u # t,
         \A u \in w : Queued(q, u),
         IsFiniteSet(w),
         v + Cardinality(w) <= value + Cardinality(woken) + held[t],
         CountPartial =>
            v + Cardinality(w) = value + Cardinality(woken) + held[t],
         Settle(v, n, q, w),
         held' = [held EXCEPT ![t] = 0],
         pc' = [pc EXCEPT ![t] = "done"],
         NEW how \in Outcome,
         outcome' = [outcome EXCEPT ![t] = how],
         cores' \in [Task -> SUBSET Core], inUse' \in SUBSET Core,
         child[t] \in {"alive", "stuck"} =>
            \/ how \in {"stalled", "cancelled"}
            \/ mode = "allowlist" /\ how = "failed",
         UNCHANGED <<child, mode>>
  PROVE  IInv'
<1>0. /\ TypeOK /\ Waiters /\ Weights /\ Trees /\ Supply
      /\ pc \in [Task -> Phase] /\ held \in [Task -> Nat]
      /\ outcome \in [Task -> Outcome]
  BY DEF IInv, TypeOK
<1> DEFINE H == Handed(n, q, w)
<1>1. /\ value' \in Nat
      /\ woken' \in SUBSET Task
      /\ IsFiniteSet(woken')
      /\ value' + Cardinality(woken') = v + Cardinality(w)
      /\ \A u \in woken' : Queued(q, u)
  <2>1. value' = v - Cardinality(H) /\ woken' = w \cup H
    BY DEF Settle
  <2>2. /\ v - Cardinality(H) \in Nat
        /\ w \cup H \in SUBSET Task
        /\ IsFiniteSet(w \cup H)
        /\ v - Cardinality(H) + Cardinality(w \cup H) = v + Cardinality(w)
        /\ \A u \in w \cup H : u \in w \/ Queued(q, u)
    BY HandedMoves
  <2> HIDE DEF H
  <2> QED BY <2>1, <2>2
<1>2. queue' = q
  BY DEF Settle
<1>3. TypeOK'
  <2>1. held' \in [Task -> Nat]
    BY <1>0
  <2>2. pc' \in [Task -> Phase]
    BY <1>0 DEF Phase
  <2>3. outcome' \in [Task -> Outcome]
    BY <1>0
  <2> QED BY <2>1, <2>2, <2>3, <1>0, <1>1, <1>2 DEF TypeOK
<1>4. Waiters'
  <2>1. \A u \in Task : pc'[u] = "wait" <=> Queued(q, u)
    BY <1>0
  <2> QED BY <2>1, <1>1, <1>2 DEF Waiters
<1>5. Weights'
  <2>1. pc'[t] = "done" /\ held'[t] = 0
        /\ \A u \in Task \ {t} : pc'[u] = pc[u] /\ held'[u] = held[u]
    BY <1>0
  <2> QED BY <2>1, <1>0 DEF Weights, Occupying
<1>6. Trees'
  <2>1. pc'[t] = "done" /\ outcome'[t] = how
        /\ \A u \in Task \ {t} : pc'[u] = pc[u] /\ outcome'[u] = outcome[u]
    BY <1>0
  <2> QED BY <2>1, <1>0 DEF Trees
<1>7. Supply'
  <2>1. /\ IsFiniteSet(Permits(held'))
        /\ Cardinality(Permits(held'))
             = Cardinality(Permits(held)) - held[t] + 0
    BY <1>0, PermitsExcept DEF Supply
  <2>2. /\ Cardinality(w) \in Nat /\ Cardinality(woken) \in Nat
        /\ Cardinality(Permits(held)) \in Nat /\ held[t] \in Nat
        /\ Cardinality(woken') \in Nat /\ value \in Nat
    BY <1>0, <1>1, FS_CardinalityType DEF Waiters, Supply, TypeOK
  <2> DEFINE all == value + Cardinality(woken) + Cardinality(Permits(held))
  <2>3. all <= MaxConcurrent /\ (CountPartial => all = MaxConcurrent)
    BY <1>0 DEF Supply
  <2>4. all \in Nat /\ MaxConcurrent \in Nat
    BY <2>2, ConstantsAssumption
  <2>5. value' + Cardinality(woken') + Cardinality(Permits(held'))
          = v + Cardinality(w) + Cardinality(Permits(held)) - held[t]
    BY <2>1, <2>2, <1>1
  <2>6. /\ v + Cardinality(w) + Cardinality(Permits(held)) - held[t] <= all
        /\ CountPartial =>
             v + Cardinality(w) + Cardinality(Permits(held)) - held[t] = all
    BY <2>2
  <2>7. /\ value' + Cardinality(woken') + Cardinality(Permits(held'))
             <= MaxConcurrent
        /\ CountPartial =>
             value' + Cardinality(woken') + Cardinality(Permits(held'))
               = MaxConcurrent
    <3> HIDE DEF all
    <3> QED BY <2>2, <2>3, <2>4, <2>5, <2>6
  <2> QED BY <2>1, <2>7 DEF Supply
<1> QED BY <1>3, <1>4, <1>5, <1>6, <1>7 DEF IInv

\* A step of the command under way, which leaves the semaphore alone.
LEMMA QuietKeeps ==
  ASSUME IInv, UNCHANGED <<semaphore, held, cores, inUse, mode>>,
         pc' \in [Task -> Phase],
         \A t \in Task : \/ pc'[t] = pc[t]
                         \/ pc[t] \in Occupying /\ pc'[t] \in Occupying,
         child' \in [Task -> ChildState],
         outcome' \in [Task -> Outcome],
         Trees'
  PROVE  IInv'
<1>1. TypeOK'
  BY DEF IInv, TypeOK, semaphore
<1>2. Waiters'
  <2>1. queue' = queue /\ woken' = woken
    BY DEF semaphore
  <2>2. \A t \in Task : pc'[t] = "wait" <=> pc[t] = "wait"
    BY DEF Occupying
  <2>3. woken \in SUBSET Task
    BY DEF IInv, TypeOK
  <2> QED BY <2>1, <2>2, <2>3 DEF IInv, Waiters
<1>3. Weights'
  BY DEF IInv, Weights, Occupying
<1>4. Supply'
  BY DEF IInv, Supply, semaphore
<1> QED BY <1>1, <1>2, <1>3, <1>4 DEF IInv

-----------------------------------------------------------------------------
\* The invariant, action by action.

LEMMA InvInit == Init => IInv
<1> SUFFICES ASSUME Init PROVE IInv
  OBVIOUS
<1>1. TypeOK
  <2>1. queue \in Seq(Task)
    BY DEF Init
  <2> QED BY <2>1, ConstantsAssumption
          DEF Init, TypeOK, Phase, ChildState, Outcome
<1>2. Waiters
  <2>1. IsFiniteSet({})
    BY FS_EmptySet
  <2> QED BY <2>1 DEF Init, Waiters, Distinct, Queued
<1>3. Weights
  BY DEF Init, Weights, Occupying
<1>4. Trees
  BY DEF Init, Trees
<1>5. Supply
  <2>1. Permits(held) = {}
    BY DEF Init, Permits
  <2>2. IsFiniteSet({}) /\ Cardinality({}) = 0
    BY FS_EmptySet
  <2>3. Cardinality(woken) = 0 /\ value = MaxConcurrent
    BY <2>2 DEF Init
  <2> QED BY <2>1, <2>2, <2>3, ConstantsAssumption DEF Supply
<1> QED BY <1>1, <1>2, <1>3, <1>4, <1>5 DEF IInv

LEMMA CallKeeps ==
  ASSUME IInv, NEW t \in Task, Call(t), UNCHANGED mode
  PROVE  IInv'
<1>1. /\ Distinct(queue) /\ IsFiniteSet(woken)
      /\ queue \in Seq(Task) /\ woken \in SUBSET Task /\ value \in Nat
      /\ pc[t] = "idle" /\ held[t] = 0
      /\ \A u \in Task : Queued(queue, u) <=> pc[u] = "wait" /\ u # t
      /\ \A u \in woken : Queued(queue, u)
  BY DEF IInv, TypeOK, Waiters, Weights, Call
<1>2. 0 \in Nat /\ 0 <= SlotWeight(t) /\ 0 >= held[t]
  BY <1>1, WeightsBounded
<1>3. value + Cardinality(woken) + 0 = value + Cardinality(woken) + held[t]
  BY <1>1
<1>4. AcquireLoop(t, 0, value, queue, woken) /\ UNCHANGED <<child, outcome>>
  BY DEF Call
<1>5. pc[t] \in {"idle", "wait"}
  BY <1>1
<1> QED BY <1>1, <1>2, <1>3, <1>4, <1>5, AcquireKeeps

LEMMA ResumeKeeps ==
  ASSUME IInv, NEW t \in Task, Resume(t), UNCHANGED mode
  PROVE  IInv'
<1> DEFINE q == Without(queue, t)
           w == woken \ {t}
           next == Handed(value, q, w)
<1>1. /\ Distinct(queue) /\ IsFiniteSet(woken) /\ queue \in Seq(Task)
      /\ woken \in SUBSET Task /\ value \in Nat /\ held[t] \in Nat
      /\ pc[t] = "wait" /\ t \in woken /\ held[t] < SlotWeight(t)
      /\ \A u \in Task : pc[u] = "wait" <=> Queued(queue, u)
      /\ \A u \in woken : pc[u] = "wait"
  BY DEF IInv, TypeOK, Waiters, Weights, Resume
<1>2. /\ q \in Seq(Task) /\ Distinct(q)
      /\ \A u : Queued(q, u) <=> Queued(queue, u) /\ u # t
  BY <1>1, WithoutQueue
<1>3. /\ w \in SUBSET Task /\ IsFiniteSet(w)
      /\ Cardinality(w) = Cardinality(woken) - 1
      /\ Cardinality(woken) \in Nat
  BY <1>1, FS_RemoveElement, FS_CardinalityType
<1>4. \A u \in w : Queued(q, u)
  BY <1>1, <1>2
<1>5. AcquireLoop(t, held[t] + 1, value - Cardinality(next), q, w \cup next)
      /\ UNCHANGED <<child, outcome>>
  BY DEF Resume
<1> HIDE DEF q, w
<1>6. /\ value - Cardinality(next) \in Nat
      /\ w \cup next \in SUBSET Task
      /\ IsFiniteSet(w \cup next)
      /\ value - Cardinality(next) + Cardinality(w \cup next)
           = value + Cardinality(w)
      /\ \A u \in w \cup next : u \in w \/ Queued(q, u)
  <2>1. value \in 0 .. value
    BY <1>1
  <2> QED BY <2>1, <1>1, <1>2, <1>3, HandedMoves
<1> DEFINE v == value - Cardinality(next)
           W == w \cup next
           h == held[t] + 1
<1>7. /\ v \in Nat /\ W \in SUBSET Task /\ IsFiniteSet(W) /\ h \in Nat
      /\ \A u \in W : Queued(q, u)
  BY <1>1, <1>4, <1>6
<1>8. h <= SlotWeight(t) /\ h >= held[t]
  BY <1>1, WeightsBounded
<1>9. v + Cardinality(W) + h = value + Cardinality(woken) + held[t]
  <2> DEFINE c == Cardinality(W)
  <2>1. c \in Nat
    BY <1>7, FS_CardinalityType
  <2>2. v + c = value + (Cardinality(woken) - 1)
    BY <1>3, <1>6
  <2> HIDE DEF v, c
  <2>3. v + c + (held[t] + 1) = value + Cardinality(woken) + held[t]
    BY <2>1, <2>2, <1>1, <1>3, <1>7
  <2> QED BY <2>3 DEF c
<1>10. AcquireLoop(t, h, v, q, W)
  BY <1>5
<1>11. \A u \in Task : Queued(q, u) <=> pc[u] = "wait" /\ u # t
  BY <1>1, <1>2
<1> HIDE DEF v, W, h
<1> QED
  BY <1>1, <1>2, <1>5, <1>7, <1>8, <1>9, <1>10, <1>11, AcquireKeeps

LEMMA ReleaseTypes ==
  ASSUME TypeOK, NEW t \in Task, ReleaseCores(t)
  PROVE  cores' \in [Task -> SUBSET Core] /\ inUse' \in SUBSET Core
  BY DEF TypeOK, ReleaseCores

\* The finally clause of a command that has its slots.
LEMMA FinallyKeeps ==
  ASSUME IInv, NEW t \in Task, pc[t] \in Occupying,
         NEW STATE how, how \in Outcome, Finally(t, how),
         child[t] \in {"alive", "stuck"} =>
            \/ how \in {"stalled", "cancelled"}
            \/ mode = "allowlist" /\ how = "failed",
         UNCHANGED <<child, mode>>
  PROVE  IInv'
<1> DEFINE v == value + held[t]
<1>1. /\ Distinct(queue) /\ IsFiniteSet(woken) /\ queue \in Seq(Task)
      /\ woken \in SUBSET Task /\ value \in Nat /\ held[t] \in Nat
      /\ pc[t] # "wait"
      /\ \A u \in Task : pc[u] = "wait" <=> Queued(queue, u)
      /\ \A u \in woken : pc[u] = "wait"
      /\ Cardinality(woken) \in Nat
  BY FS_CardinalityType DEF IInv, TypeOK, Waiters, Occupying
<1>2. v \in Nat /\ held[t] \in 0 .. v
  BY <1>1
<1>3. /\ cores' \in [Task -> SUBSET Core] /\ inUse' \in SUBSET Core
  BY ReleaseTypes DEF IInv, Finally
<1>4. /\ Settle(v, held[t], queue, woken)
      /\ held' = [held EXCEPT ![t] = 0]
      /\ pc' = [pc EXCEPT ![t] = "done"]
      /\ outcome' = [outcome EXCEPT ![t] = how]
  BY DEF Finally
<1>5. v + Cardinality(woken) = value + Cardinality(woken) + held[t]
      /\ v + Cardinality(woken) <= value + Cardinality(woken) + held[t]
  BY <1>1
<1>6. /\ \A u \in Task : Queued(queue, u) <=> pc[u] = "wait" /\ u # t
      /\ \A u \in woken : Queued(queue, u)
  BY <1>1
<1> HIDE DEF v
<1> QED BY <1>1, <1>2, <1>3, <1>4, <1>5, <1>6, EndKeeps

LEMMA CancelWaitKeeps ==
  ASSUME IInv, NEW t \in Task, CancelWait(t), UNCHANGED mode
  PROVE  IInv'
<1> DEFINE q == Without(queue, t)
           w == woken \ {t}
           inFlight == IF t \in woken THEN 1 ELSE 0
           counted == IF CountPartial THEN held[t] ELSE 0
           v == value + inFlight + counted
<1>1. /\ Distinct(queue) /\ IsFiniteSet(woken) /\ queue \in Seq(Task)
      /\ woken \in SUBSET Task /\ value \in Nat /\ held[t] \in Nat
      /\ pc[t] = "wait"
      /\ \A u \in Task : pc[u] = "wait" <=> Queued(queue, u)
      /\ \A u \in woken : pc[u] = "wait"
      /\ cores \in [Task -> SUBSET Core] /\ inUse \in SUBSET Core
      /\ child[t] = "none"
  BY DEF IInv, TypeOK, Waiters, Trees, CancelWait
<1>2. /\ q \in Seq(Task) /\ Distinct(q)
      /\ \A u : Queued(q, u) <=> Queued(queue, u) /\ u # t
  BY <1>1, WithoutQueue
<1>3. /\ w \in SUBSET Task /\ IsFiniteSet(w)
      /\ Cardinality(w) = Cardinality(woken) - inFlight
      /\ Cardinality(woken) \in Nat
  BY <1>1, FS_RemoveElement, FS_CardinalityType
<1>4. /\ \A u \in w : Queued(q, u)
      /\ \A u \in Task : Queued(q, u) <=> pc[u] = "wait" /\ u # t
  BY <1>1, <1>2
<1>5. /\ inFlight \in Nat /\ counted \in Nat /\ counted <= held[t]
      /\ CountPartial => counted = held[t]
  BY <1>1, ConstantsAssumption
<1>6. /\ Settle(v, v, q, w)
      /\ held' = [held EXCEPT ![t] = 0]
      /\ pc' = [pc EXCEPT ![t] = "done"]
      /\ outcome' = [outcome EXCEPT ![t] = "cancelled"]
      /\ UNCHANGED <<cores, inUse, child>>
  BY DEF CancelWait
<1> HIDE DEF q, w, inFlight, counted
<1>7. /\ v \in Nat /\ v \in 0 .. v
      /\ v + Cardinality(w) = value + Cardinality(woken) + counted
  BY <1>1, <1>3, <1>5
<1> HIDE DEF v
<1>8. /\ v + Cardinality(w) <= value + Cardinality(woken) + held[t]
      /\ CountPartial =>
           v + Cardinality(w) = value + Cardinality(woken) + held[t]
  BY <1>1, <1>3, <1>5, <1>7
<1>9. cores' \in [Task -> SUBSET Core] /\ inUse' \in SUBSET Core
  BY <1>1, <1>6
<1>10. "cancelled" \in Outcome
  BY DEF Outcome
<1> QED BY <1>1, <1>2, <1>3, <1>4, <1>6, <1>7, <1>8, <1>9, <1>10, EndKeeps

\* Every way out of a command that has its slots runs the finally clause.
LEMMA LeavesKeep ==
  ASSUME IInv, NEW t \in Task, UNCHANGED mode,
         \/ SpawnFails(t)
         \/ CancelSpawn(t)
         \/ HandshakeFails(t)
         \/ CancelReady(t)
         \/ Join(t)
         \/ CancelJoin(t)
  PROVE  IInv'
<1>1. Trees /\ outcome \in [Task -> Outcome]
  BY DEF IInv, TypeOK
<1>2. CASE SpawnFails(t)
  <2>1. "failed" \in Outcome /\ pc[t] \in Occupying /\ child[t] = "none"
    BY <1>1, <1>2 DEF SpawnFails, Outcome, Occupying, Trees
  <2> QED BY <2>1, <1>2, FinallyKeeps DEF SpawnFails
<1>3. CASE HandshakeFails(t)
  <2>1. "failed" \in Outcome /\ pc[t] \in Occupying /\ mode = "allowlist"
    BY <1>3 DEF HandshakeFails, Outcome, Occupying
  <2> QED BY <2>1, <1>3, FinallyKeeps DEF HandshakeFails
<1>4. CASE CancelSpawn(t) \/ CancelReady(t) \/ CancelJoin(t)
  <2>1. /\ "cancelled" \in Outcome /\ pc[t] \in Occupying
        /\ Finally(t, "cancelled") /\ UNCHANGED child
    BY <1>4 DEF CancelSpawn, CancelReady, CancelJoin, Outcome, Occupying
  <2> QED BY <2>1, FinallyKeeps
<1>5. CASE Join(t)
  <2>1. /\ outcome[t] \in Outcome /\ pc[t] \in Occupying
        /\ Finally(t, outcome[t]) /\ UNCHANGED child
    BY <1>1, <1>5 DEF Join, Occupying
  <2>2. child[t] \in {"alive", "stuck"} =>
           \/ outcome[t] \in {"stalled", "cancelled"}
           \/ mode = "allowlist" /\ outcome[t] = "failed"
    BY <1>1, <1>5 DEF Join, Trees
  <2> QED BY <2>1, <2>2, FinallyKeeps
<1> QED BY <1>2, <1>3, <1>4, <1>5

\* Steps that leave the semaphore and the cores alone.
LEMMA OthersKeep ==
  ASSUME IInv, NEW t \in Task, UNCHANGED mode,
         \/ SpawnOk(t)
         \/ ScopeResolved(t)
         \/ ChildEnds(t)
         \/ LeaderEnds(t)
         \/ Complete(t)
         \/ Timeout(t)
         \/ Drained(t)
         \/ DrainStalls(t)
         \/ CancelRun(t)
  PROVE  IInv'
<1>1. /\ Trees /\ pc \in [Task -> Phase] /\ child \in [Task -> ChildState]
      /\ outcome \in [Task -> Outcome]
  BY DEF IInv, TypeOK
<1>2. UNCHANGED <<semaphore, held, cores, inUse, mode>>
  BY DEF SpawnOk, ScopeResolved, ChildEnds, LeaderEnds, Complete, Timeout,
         Drained, DrainStalls, CancelRun, Leave, semaphore
<1>3. /\ pc' \in [Task -> Phase]
      /\ \A u \in Task : \/ pc'[u] = pc[u]
                         \/ pc[u] \in Occupying /\ pc'[u] \in Occupying
      /\ child' \in [Task -> ChildState]
      /\ outcome' \in [Task -> Outcome]
      /\ Trees'
  <2> USE <1>1 DEF Phase, Occupying, ChildState, Outcome, Trees
  <2>1. CASE SpawnOk(t)
    BY <2>1 DEF SpawnOk, AfterSpawn
  <2>2. CASE ScopeResolved(t)
    BY <2>2 DEF ScopeResolved
  <2>3. CASE ChildEnds(t)
    BY <2>3 DEF ChildEnds
  <2>4. CASE Complete(t)
    BY <2>4 DEF Complete, Leave
  <2>5. CASE Timeout(t)
    BY <2>5 DEF Timeout, AfterKill
  <2>6. CASE Drained(t)
    BY <2>6 DEF Drained, Leave
  <2>7. CASE DrainStalls(t)
    BY <2>7 DEF DrainStalls, Leave
  <2>8. CASE CancelRun(t)
    BY <2>8 DEF CancelRun, Leave
  <2>9. CASE LeaderEnds(t)
    BY <2>9 DEF LeaderEnds
  <2> QED BY <2>1, <2>2, <2>3, <2>4, <2>5, <2>6, <2>7, <2>8, <2>9
<1> QED BY <1>2, <1>3, QuietKeeps

LEMMA InvStep == IInv /\ [Next]_vars => IInv'
<1> SUFFICES ASSUME IInv, [Next]_vars PROVE IInv'
  OBVIOUS
<1>1. CASE UNCHANGED vars
  <2>1. /\ UNCHANGED <<semaphore, held, cores, inUse, mode>>
        /\ pc' = pc /\ child' = child /\ outcome' = outcome
    BY <1>1 DEF vars, semaphore
  <2>2. Trees'
    BY <2>1 DEF IInv, Trees
  <2>3. /\ pc' \in [Task -> Phase] /\ child' \in [Task -> ChildState]
        /\ outcome' \in [Task -> Outcome]
    BY <2>1 DEF IInv, TypeOK
  <2> QED BY <2>1, <2>2, <2>3, QuietKeeps
<1>2. CASE Next
  <2>1. PICK t \in Task :
           UNCHANGED mode
             /\ \/ Call(t) \/ Cancelled(t) \/ Progress(t)
                \/ ChildEnds(t) \/ LeaderEnds(t)
    BY <1>2 DEF Next
  <2>2. CASE Call(t)
    BY <2>1, <2>2, CallKeeps
  <2>3. CASE Cancelled(t)
    BY <2>1, <2>3, CancelWaitKeeps, LeavesKeep, OthersKeep DEF Cancelled
  <2>4. CASE ChildEnds(t) \/ LeaderEnds(t)
    BY <2>1, <2>4, OthersKeep
  <2>5. CASE Progress(t)
    BY <2>1, <2>5, ResumeKeeps, LeavesKeep, OthersKeep DEF Progress
  <2> QED BY <2>1, <2>2, <2>3, <2>4, <2>5
<1> QED BY <1>1, <1>2

LEMMA Invariance == Spec => []IInv
  BY InvInit, InvStep, PTL DEF Spec

\* Every variable keeps its type; in particular the semaphore's counter never
\* falls below zero.
THEOREM TypeCorrect == Spec => []TypeOK
<1>1. IInv => TypeOK
  BY DEF IInv
<1> QED BY <1>1, Invariance, PTL

\* Where permits are counted as they are taken, which is how the Runner does
\* it, no interleaving of releases, wake-ups, cancellations and failed spawns
\* loses a permit or makes one up.
THEOREM PermitsKept ==
  ASSUME CountPartial
  PROVE  Spec => []PermitsConserved
<1>1. IInv => PermitsConserved
  BY DEF IInv, Supply, Weights, PermitsConserved
<1> QED BY <1>1, Invariance, PTL

\* A command whose slots are gone and whose leader lives was cancelled, or
\* survived SIGKILL, or waits behind an allowlist, whatever its background
\* processes do.
THEOREM NoChildUnaccounted == Spec => []ChildrenAccounted
<1>1. IInv => ChildrenAccounted
  <2> SUFFICES ASSUME IInv, NEW t \in Task, child[t] \in {"alive", "stuck"}
               PROVE  \/ held[t] = SlotWeight(t)
                      \/ outcome[t] \in {"stalled", "cancelled"}
                      \/ mode = "allowlist" /\ outcome[t] = "failed"
    BY DEF ChildrenAccounted
  <2>1. pc[t] \in Phase
    BY DEF IInv, TypeOK
  <2> QED BY <2>1 DEF IInv, Weights, Trees, Phase, Occupying
<1> QED BY <1>1, Invariance, PTL

-----------------------------------------------------------------------------
\* What runs is bounded by the cap, and pinned to cores of its own.

LEMMA PermitsMonotone ==
  ASSUME NEW g \in [Task -> Nat], NEW h \in [Task -> Nat],
         \A t \in Task : g[t] <= h[t], IsFiniteSet(Permits(h))
  PROVE  /\ IsFiniteSet(Permits(g))
         /\ Cardinality(Permits(g)) <= Cardinality(Permits(h))
         /\ Cardinality(Permits(g)) \in Nat
<1>1. \A t \in Task : {t} \X (1 .. g[t]) \subseteq {t} \X (1 .. h[t])
  <2> TAKE t \in Task
  <2>1. 1 .. g[t] \subseteq 1 .. h[t]
    OBVIOUS
  <2> QED BY <2>1
<1>2. Permits(g) \in SUBSET Permits(h)
  BY <1>1 DEF Permits
<1> QED BY <1>2, FS_Subset, FS_CardinalityType

\* The weights of the commands that are under way.
UnderWay ==
    [t \in Task |-> IF pc[t] \in Occupying THEN SlotWeight(t) ELSE 0]

CapOfCalls == Cardinality(Permits(UnderWay)) <= MaxConcurrent

LEMMA HeldWithinCap ==
  ASSUME TypeOK, Waiters, Supply
  PROVE  /\ Cardinality(Permits(held)) <= MaxConcurrent
         /\ Cardinality(Permits(held)) \in Nat
<1>1. /\ Cardinality(Permits(held)) \in Nat /\ Cardinality(woken) \in Nat
      /\ value \in Nat
      /\ value + Cardinality(woken) + Cardinality(Permits(held))
           <= MaxConcurrent
  BY FS_CardinalityType DEF TypeOK, Waiters, Supply
<1> QED BY <1>1, ConstantsAssumption

\* runner.py:4, as far as it goes: the commands that hold their slots, from
\* the spawn to the end of the call, never weigh more than the cap together.
\* Nothing is assumed of how the permits are counted.
THEOREM CallsWithinCap == Spec => []CapOfCalls
<1>1. IInv => CapOfCalls
  <2> SUFFICES ASSUME IInv PROVE CapOfCalls
    OBVIOUS
  <2>1. /\ held \in [Task -> Nat] /\ IsFiniteSet(Permits(held))
        /\ Cardinality(Permits(held)) <= MaxConcurrent
        /\ Cardinality(Permits(held)) \in Nat
    BY HeldWithinCap DEF IInv, TypeOK, Supply
  <2>2. UnderWay \in [Task -> Nat] /\ \A t \in Task : UnderWay[t] <= held[t]
    BY <2>1, WeightsBounded DEF UnderWay, IInv, Weights
  <2>3. /\ Cardinality(Permits(UnderWay)) <= Cardinality(Permits(held))
        /\ Cardinality(Permits(UnderWay)) \in Nat
    BY <2>1, <2>2, PermitsMonotone
  <2> QED BY <2>1, <2>3, ConstantsAssumption DEF CapOfCalls
<1> QED BY <1>1, Invariance, PTL

\* How many cores each call is pinned to.
Pinned == [t \in Task |-> Cardinality(cores[t])]

CoresInv ==
    /\ CoresExclusive
    /\ \A t \in Task : pc[t] \notin Occupying => cores[t] = {}
    /\ IsFiniteSet(Permits(Pinned))
    /\ Cardinality(inUse) = Cardinality(Permits(Pinned))

LEMMA CoreSets ==
  ASSUME NEW S \in SUBSET Core
  PROVE  IsFiniteSet(S) /\ Cardinality(S) \in Nat /\ S \in SUBSET Int
<1>1. NumCores - 1 \in Int
  BY ConstantsAssumption
<1>2. IsFiniteSet(Core)
  BY <1>1, FS_Interval DEF Core
<1>3. IsFiniteSet(S)
  BY <1>2, FS_Subset
<1> QED BY <1>1, <1>3, FS_CardinalityType DEF Core

\* With w permits for w cores the free cores suffice.
LEMMA ChosenCores ==
  ASSUME TypeOK, NEW w \in Nat \ {0}, Cardinality(inUse) + w <= NumCores
  PROVE  /\ Chosen(w) \in SUBSET Core
         /\ Cardinality(Chosen(w)) = w
         /\ Chosen(w) \cap inUse = {}
<1> DEFINE free == Core \ inUse
<1>1. inUse \in SUBSET Core /\ NumCores \in Nat
  BY ConstantsAssumption DEF TypeOK
<1>2. IsFiniteSet(Core) /\ Cardinality(Core) = NumCores
  <2>1. 0 \in Int /\ NumCores - 1 \in Int
    BY <1>1
  <2>2. /\ IsFiniteSet(0 .. NumCores - 1)
        /\ Cardinality(0 .. NumCores - 1) =
             IF 0 > NumCores - 1 THEN 0 ELSE NumCores - 1 - 0 + 1
    BY <2>1, FS_Interval
  <2> QED BY <2>2, <1>1 DEF Core
<1>3. /\ IsFiniteSet(free)
      /\ Cardinality(free) = NumCores - Cardinality(inUse)
      /\ Cardinality(inUse) \in Nat
  <2>1. Core \cap inUse = inUse
    BY <1>1
  <2> QED BY <2>1, <1>1, <1>2, FS_Difference, CoreSets
<1>4. w <= Cardinality(free) /\ Cardinality(free) # 0
  <2> HIDE DEF free
  <2> QED BY <1>1, <1>3
<1>5. free # {}
  <2> HIDE DEF free
  <2> QED BY <1>4, FS_EmptySet
<1>6. Chosen(w) = FirstOf(free, w)
  BY <1>5 DEF Chosen
<1>7. free \in SUBSET Core /\ free \in SUBSET Int /\ free \cap inUse = {}
  BY CoreSets
<1> HIDE DEF free
<1>8. FirstOf(free, w) \subseteq free /\ Cardinality(FirstOf(free, w)) = w
  BY <1>3, <1>4, <1>7, FirstOfSize
<1> QED BY <1>6, <1>7, <1>8

LEMMA ClaimKeeps ==
  ASSUME TypeOK, Weights, CoresInv, TypeOK', Waiters', Supply',
         WeightCap >= MaxConcurrent, NumCores >= MaxConcurrent,
         NEW t \in Task, pc[t] \notin Occupying,
         pc' = [pc EXCEPT ![t] = "spawn"],
         held'[t] = SlotWeight(t),
         \A u \in Task \ {t} : held'[u] = held[u],
         ClaimCores(t)
  PROVE  CoresInv'
<1> DEFINE w == CoreWeight(t)
           C == Chosen(w)
<1>0. /\ pc \in [Task -> Phase] /\ cores \in [Task -> SUBSET Core]
      /\ inUse \in SUBSET Core /\ held' \in [Task -> Nat]
      /\ held \in [Task -> Nat]
  BY DEF TypeOK
<1>1. w \in Nat \ {0} /\ w = SlotWeight(t)
  BY WeightsBounded
<1>2. /\ cores[t] = {}
      /\ inUse = UNION {cores[u] : u \in Task}
      /\ \A u \in Task : pc[u] \in Occupying =>
            Cardinality(cores[u]) = CoreWeight(u)
      /\ \A u, x \in Task : u # x => cores[u] \cap cores[x] = {}
  BY DEF CoresInv, CoresExclusive
<1>3. Pinned \in [Task -> Nat] /\ Pinned[t] = 0
  <2>1. \A u \in Task : Cardinality(cores[u]) \in Nat
    BY <1>0, CoreSets
  <2> QED BY <2>1, <1>2, FS_EmptySet DEF Pinned
<1> HIDE DEF w
<1> DEFINE g == [Pinned EXCEPT ![t] = w]
<1>4. g \in [Task -> Nat]
  BY <1>1, <1>3
<1>5. \A u \in Task : g[u] <= held'[u]
  <2> TAKE u \in Task
  <2>1. CASE u = t
    BY <2>1, <1>0, <1>1, <1>3
  <2>2. CASE u # t /\ pc[u] \in Occupying
    <3>1. g[u] = CoreWeight(u) /\ held'[u] = SlotWeight(u)
      BY <2>2, <1>2, <1>3 DEF Weights, Pinned
    <3> QED BY <3>1, WeightsBounded
  <2>3. CASE u # t /\ pc[u] \notin Occupying
    <3>1. g[u] = 0
      BY <2>3, <1>3, FS_EmptySet DEF CoresInv, Pinned
    <3> QED BY <3>1, <1>0
  <2> QED BY <2>1, <2>2, <2>3
<1>6. /\ IsFiniteSet(Permits(g))
      /\ Cardinality(Permits(g)) = Cardinality(Permits(Pinned)) - 0 + w
      /\ Cardinality(Permits(Pinned)) \in Nat
  BY <1>1, <1>3, PermitsExcept, FS_CardinalityType DEF CoresInv
<1>7. Cardinality(Permits(g)) <= MaxConcurrent
  <2>1. /\ Cardinality(Permits(held')) <= MaxConcurrent
        /\ Cardinality(Permits(held')) \in Nat
        /\ IsFiniteSet(Permits(held'))
    <3> DEFINE free == value'
               flight == Cardinality(woken')
               taken == Cardinality(Permits(held'))
    <3>1. /\ IsFiniteSet(Permits(held')) /\ IsFiniteSet(woken')
          /\ free \in Nat /\ free + flight + taken <= MaxConcurrent
      BY DEF TypeOK, Waiters, Supply
    <3>2. flight \in Nat /\ taken \in Nat
      BY <3>1, FS_CardinalityType
    <3>3. taken <= MaxConcurrent
      <4> HIDE DEF free, flight, taken
      <4> QED BY <3>1, <3>2, ConstantsAssumption
    <3> QED BY <3>1, <3>2, <3>3
  <2> HIDE DEF g
  <2>2. /\ Cardinality(Permits(g)) <= Cardinality(Permits(held'))
        /\ Cardinality(Permits(g)) \in Nat
    BY <2>1, <1>0, <1>4, <1>5, PermitsMonotone
  <2> QED BY <2>1, <2>2, ConstantsAssumption
<1>8. Cardinality(inUse) + w <= NumCores
  <2>1. Cardinality(inUse) = Cardinality(Permits(Pinned))
    BY DEF CoresInv
  <2> HIDE DEF g
  <2> QED BY <2>1, <1>1, <1>6, <1>7, ConstantsAssumption
<1>9. C \in SUBSET Core /\ Cardinality(C) = w /\ C \cap inUse = {}
  BY <1>1, <1>8, ChosenCores
<1>10. cores' = [cores EXCEPT ![t] = C] /\ inUse' = inUse \cup C
  BY DEF ClaimCores, w
<1> HIDE DEF C
<1>11. /\ cores'[t] = C
       /\ \A u \in Task \ {t} : cores'[u] = cores[u]
       /\ pc'[t] = "spawn"
       /\ \A u \in Task \ {t} : pc'[u] = pc[u]
  BY <1>0, <1>10
<1>12. inUse' = UNION {cores'[u] : u \in Task}
  <2>1. \A c : c \in UNION {cores'[u] : u \in Task} <=>
               c \in C \/ \E u \in Task : c \in cores[u]
    BY <1>2, <1>11
  <2> QED BY <2>1, <1>2, <1>10
<1>13. \A u, x \in Task : u # x => cores'[u] \cap cores'[x] = {}
  <2>1. \A u \in Task : cores[u] \subseteq inUse
    BY <1>2
  <2> QED BY <2>1, <1>2, <1>9, <1>11
<1>14. \A u \in Task : /\ pc'[u] \in Occupying =>
                            Cardinality(cores'[u]) = CoreWeight(u)
                       /\ pc'[u] \notin Occupying => cores'[u] = {}
  BY <1>2, <1>9, <1>11 DEF CoresInv, w, Occupying
<1>15. Pinned' = g
  <2>1. \A u \in Task : Cardinality(cores'[u]) = g[u]
    BY <1>3, <1>9, <1>11 DEF Pinned
  <2>2. Pinned' = [u \in Task |-> Cardinality(cores'[u])]
    BY DEF Pinned
  <2> HIDE DEF g
  <2> QED BY <2>1, <2>2, <1>4
<1>16. Cardinality(inUse') = Cardinality(inUse) + w
  <2>1. IsFiniteSet(inUse) /\ IsFiniteSet(C) /\ Cardinality(inUse) \in Nat
    BY <1>0, <1>9, CoreSets
  <2>2. Cardinality(inUse \cup C)
          = Cardinality(inUse) + Cardinality(C) - Cardinality(inUse \cap C)
    BY <2>1, FS_Union
  <2>3. Cardinality(inUse \cap C) = 0
    BY <1>9, FS_EmptySet
  <2> QED BY <2>1, <2>2, <2>3, <1>1, <1>9, <1>10
<1>17. Cardinality(inUse') = Cardinality(Permits(Pinned'))
       /\ IsFiniteSet(Permits(Pinned'))
  <2>1. Cardinality(inUse) = Cardinality(Permits(Pinned))
    BY DEF CoresInv
  <2>2. /\ Cardinality(Permits(g)) = Cardinality(inUse) + w
        /\ IsFiniteSet(Permits(g))
    BY <2>1, <1>1, <1>6
  <2> HIDE DEF g
  <2> QED BY <2>2, <1>15, <1>16
<1>18. CoresExclusive'
  BY <1>12, <1>13, <1>14 DEF CoresExclusive
<1> QED BY <1>14, <1>17, <1>18 DEF CoresInv

LEMMA ReleaseKeeps ==
  ASSUME TypeOK, CoresInv, NEW t \in Task,
         pc' = [pc EXCEPT ![t] = "done"],
         ReleaseCores(t)
  PROVE  CoresInv'
<1>0. /\ pc \in [Task -> Phase] /\ cores \in [Task -> SUBSET Core]
      /\ inUse \in SUBSET Core
  BY DEF TypeOK
<1>1. /\ cores' = [cores EXCEPT ![t] = {}] /\ inUse' = inUse \ cores[t]
      /\ cores'[t] = {} /\ \A u \in Task \ {t} : cores'[u] = cores[u]
      /\ pc'[t] = "done" /\ \A u \in Task \ {t} : pc'[u] = pc[u]
  BY <1>0 DEF ReleaseCores
<1>2. /\ inUse = UNION {cores[u] : u \in Task}
      /\ \A u \in Task : pc[u] \in Occupying =>
            Cardinality(cores[u]) = CoreWeight(u)
      /\ \A u, x \in Task : u # x => cores[u] \cap cores[x] = {}
      /\ \A u \in Task : pc[u] \notin Occupying => cores[u] = {}
      /\ IsFiniteSet(Permits(Pinned))
      /\ Cardinality(inUse) = Cardinality(Permits(Pinned))
  BY DEF CoresInv, CoresExclusive
<1>3. CoresExclusive'
  <2>1. inUse' = UNION {cores'[u] : u \in Task}
    <3>1. \A c : c \in inUse' <=>
                 \E u \in Task : c \in cores[u] /\ c \notin cores[t]
      BY <1>1, <1>2
    <3>2. \A u \in Task : \A c \in cores[u] : c \notin cores[t] <=> u # t
      BY <1>2
    <3>3. \A c : c \in inUse' <=> \E u \in Task : c \in cores'[u]
      BY <3>1, <3>2, <1>1
    <3> QED BY <3>3
  <2>2. \A u \in Task : pc'[u] \in Occupying =>
           Cardinality(cores'[u]) = CoreWeight(u)
    BY <1>1, <1>2 DEF Occupying
  <2>3. \A u, x \in Task : u # x => cores'[u] \cap cores'[x] = {}
    BY <1>1, <1>2
  <2> QED BY <2>1, <2>2, <2>3 DEF CoresExclusive
<1>4. \A u \in Task : pc'[u] \notin Occupying => cores'[u] = {}
  BY <1>1, <1>2
<1>5. Pinned \in [Task -> Nat] /\ Cardinality(cores[t]) \in Nat
  <2>1. \A u \in Task : Cardinality(cores[u]) \in Nat
    BY <1>0, CoreSets
  <2> QED BY <2>1 DEF Pinned
<1> DEFINE g == [Pinned EXCEPT ![t] = 0]
<1>6. Pinned' = g
  <2>1. \A u \in Task : Cardinality(cores'[u]) = g[u]
    BY <1>1, <1>5, FS_EmptySet DEF Pinned
  <2>2. Pinned' = [u \in Task |-> Cardinality(cores'[u])]
    BY DEF Pinned
  <2>3. g \in [Task -> Nat]
    BY <1>5
  <2> HIDE DEF g
  <2> QED BY <2>1, <2>2, <2>3
<1>7. /\ IsFiniteSet(Permits(g))
      /\ Cardinality(Permits(g))
           = Cardinality(Permits(Pinned)) - Pinned[t] + 0
  BY <1>2, <1>5, PermitsExcept
<1>8. Cardinality(inUse') = Cardinality(inUse) - Cardinality(cores[t])
  <2>1. inUse \cap cores[t] = cores[t] /\ IsFiniteSet(inUse)
    BY <1>0, <1>2, CoreSets
  <2> QED BY <2>1, <1>1, FS_Difference
<1>9. Pinned[t] = Cardinality(cores[t]) /\ Cardinality(inUse) \in Nat
  BY <1>0, CoreSets DEF Pinned
<1> HIDE DEF g
<1>10. Cardinality(inUse') = Cardinality(Permits(Pinned'))
  BY <1>2, <1>5, <1>6, <1>7, <1>8, <1>9
<1> QED BY <1>3, <1>4, <1>6, <1>7, <1>10 DEF CoresInv

\* A step that pins nothing, of a call that is under way before and after it
\* or neither before nor after.
LEMMA CoresUntouched ==
  ASSUME CoresInv, UNCHANGED <<cores, inUse>>,
         \A t \in Task : pc'[t] \in Occupying <=> pc[t] \in Occupying
  PROVE  CoresInv'
<1>1. Pinned' = Pinned
  BY DEF Pinned
<1> QED BY <1>1 DEF CoresInv, CoresExclusive

LEMMA CoresInit == Init => CoresInv
<1> SUFFICES ASSUME Init PROVE CoresInv
  OBVIOUS
<1>1. IsFiniteSet({}) /\ Cardinality({}) = 0
  BY FS_EmptySet
<1>2. Permits(Pinned) = {}
  <2>1. \A t \in Task : Pinned[t] = 0
    BY <1>1 DEF Init, Pinned
  <2> QED BY <2>1 DEF Permits
<1>3. \A t \in Task : cores[t] = {} /\ pc[t] \notin Occupying
  BY DEF Init, Occupying
<1> QED BY <1>1, <1>2, <1>3 DEF Init, CoresInv, CoresExclusive

LEMMA CoresStep ==
  ASSUME WeightCap >= MaxConcurrent, NumCores >= MaxConcurrent,
         IInv, IInv', CoresInv, [Next]_vars
  PROVE  CoresInv'
<1>0. /\ TypeOK /\ Waiters /\ Weights /\ Supply
      /\ TypeOK' /\ Waiters' /\ Supply'
      /\ pc \in [Task -> Phase]
  BY DEF IInv, TypeOK
<1>1. CASE UNCHANGED vars
  BY <1>1, CoresUntouched DEF vars
<1>2. ASSUME NEW t \in Task, NEW STATE h, h \in Nat, NEW STATE v, v \in Nat,
             NEW STATE q, q \in Seq(Task), NEW STATE w, h <= SlotWeight(t),
             AcquireLoop(t, h, v, q, w), pc[t] \in {"idle", "wait"}
      PROVE  CoresInv'
  <2>1. /\ \A u \in Task \ {t} : held'[u] = held[u]
        /\ \/ /\ held'[t] = SlotWeight(t)
              /\ pc' = [pc EXCEPT ![t] = "spawn"]
              /\ ClaimCores(t)
           \/ /\ pc' = [pc EXCEPT ![t] = "wait"]
              /\ UNCHANGED <<cores, inUse>>
    BY <1>0, <1>2, AcquireMoves
  <2>2. pc[t] \notin Occupying
    BY <1>2 DEF Occupying
  <2>3. CASE pc' = [pc EXCEPT ![t] = "wait"] /\ UNCHANGED <<cores, inUse>>
    <3>1. \A u \in Task : pc'[u] \in Occupying <=> pc[u] \in Occupying
      BY <2>2, <2>3, <1>0 DEF Occupying
    <3> QED BY <2>3, <3>1, CoresUntouched
  <2> QED BY <2>1, <2>2, <2>3, <1>0, ClaimKeeps
<1>3. ASSUME NEW t \in Task, Call(t) PROVE CoresInv'
  <2>1. /\ AcquireLoop(t, 0, value, queue, woken) /\ pc[t] = "idle"
        /\ value \in Nat /\ queue \in Seq(Task) /\ 0 <= SlotWeight(t)
    BY <1>0, <1>3, WeightsBounded DEF Call, TypeOK
  <2> QED BY <2>1, <1>2
<1>4. ASSUME NEW t \in Task, Resume(t) PROVE CoresInv'
  <2> DEFINE q == Without(queue, t)
             w == woken \ {t}
             next == Handed(value, q, w)
  <2>1. /\ AcquireLoop(t, held[t] + 1, value - Cardinality(next), q,
                       w \cup next)
        /\ pc[t] = "wait" /\ held[t] + 1 \in Nat
        /\ held[t] + 1 <= SlotWeight(t)
    BY <1>0, <1>4, WeightsBounded DEF Resume, TypeOK, Weights
  <2>2. q \in Seq(Task)
    BY <1>0, <2>1, WithoutQueue DEF TypeOK, Waiters
  <2>3. value - Cardinality(next) \in Nat
    <3>1. w \in SUBSET Task /\ IsFiniteSet(w) /\ value \in Nat
      BY <1>0, FS_RemoveElement DEF TypeOK, Waiters
    <3>2. value \in 0 .. value
      BY <3>1
    <3> HIDE DEF q, w
    <3> QED BY <3>1, <3>2, <2>2, HandedMoves
  <2> HIDE DEF q, w, next
  <2> QED BY <2>1, <2>2, <2>3, <1>2
<1>5. ASSUME NEW t \in Task, NEW STATE how, Finally(t, how) PROVE CoresInv'
  BY <1>0, <1>5, ReleaseKeeps DEF Finally
<1>6. ASSUME NEW t \in Task,
             \/ CancelWait(t)
             \/ SpawnOk(t)
             \/ ScopeResolved(t)
             \/ ChildEnds(t)
             \/ LeaderEnds(t)
             \/ Complete(t)
             \/ Timeout(t)
             \/ Drained(t)
             \/ DrainStalls(t)
             \/ CancelRun(t)
      PROVE  CoresInv'
  <2>1. UNCHANGED <<cores, inUse>>
    BY <1>6 DEF CancelWait, SpawnOk, ScopeResolved, ChildEnds, LeaderEnds,
                Complete, Timeout, Drained, DrainStalls, CancelRun, Leave
  <2>2. \A u \in Task : pc'[u] \in Occupying <=> pc[u] \in Occupying
    <3> USE <1>0 DEF Occupying
    <3>1. CASE CancelWait(t)
      BY <3>1 DEF CancelWait
    <3>2. CASE SpawnOk(t)
      BY <3>2 DEF SpawnOk, AfterSpawn
    <3>3. CASE ScopeResolved(t)
      BY <3>3 DEF ScopeResolved
    <3>4. CASE ChildEnds(t) \/ LeaderEnds(t)
      BY <3>4 DEF ChildEnds, LeaderEnds
    <3>5. CASE Complete(t) \/ Drained(t) \/ DrainStalls(t) \/ CancelRun(t)
      BY <3>5 DEF Complete, Drained, DrainStalls, CancelRun, Leave
    <3>6. CASE Timeout(t)
      BY <3>6 DEF Timeout
    <3> QED BY <1>6, <3>1, <3>2, <3>3, <3>4, <3>5, <3>6
  <2> QED BY <2>1, <2>2, CoresUntouched
<1>7. CASE Next
  <2>1. PICK t \in Task :
           \/ Call(t) \/ Cancelled(t) \/ Progress(t)
           \/ ChildEnds(t) \/ LeaderEnds(t)
    BY <1>7 DEF Next
  <2>2. CASE Cancelled(t)
    BY <2>2, <1>5, <1>6
    DEF Cancelled, CancelSpawn, CancelReady, CancelJoin
  <2>3. CASE Progress(t)
    BY <2>3, <1>4, <1>5, <1>6 DEF Progress, SpawnFails, HandshakeFails, Join
  <2> QED BY <2>1, <2>2, <2>3, <1>3, <1>6
<1> QED BY <1>1, <1>7

\* While the coordinator does not clamp the slots below the cores and the pool
\* is as large as the cap, as when the Runner owns its semaphore, no two
\* commands share a core, each has as many as its weight, and _core_in_use is
\* what is pinned: the fallback of _claim_cores to used cores is never taken.
THEOREM CoresNeverShared ==
  ASSUME WeightCap >= MaxConcurrent, NumCores >= MaxConcurrent
  PROVE  Spec => []CoresExclusive
<1>1. CoresInv => CoresExclusive
  BY DEF CoresInv
<1>2. IInv /\ IInv' /\ CoresInv /\ [Next]_vars => CoresInv'
  BY CoresStep
<1> QED BY <1>1, <1>2, CoresInit, Invariance, PTL DEF Spec
=============================================================================
