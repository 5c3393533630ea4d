-------------------------- MODULE FlockSlotsProofs --------------------------
(***************************************************************************)
(* Proofs about FlockSlots, for any number of processes, tasks and slots,  *)
(* any weights and caps, any number of deaths and of runs of doctor.       *)
(***************************************************************************)
EXTENDS FlockSlots, FiniteSetTheorems, TLAPS

-----------------------------------------------------------------------------
\* Type correctness.

LEMMA WantType == ASSUME NEW t \in Task PROVE Want(t) \in Nat \ {0}
  BY ConstantsAssumption DEF Want

LEMMA SlotType ==
  ASSUME NEW p \in Proc
  PROVE  /\ MaxConcurrent[p] \in Nat \ {0}
         /\ SlotsOf(p) \subseteq Slot
         /\ \A i \in Nat : i < MaxConcurrent[p] => i \in SlotsOf(p)
  BY ConstantsAssumption DEF SlotsOf, Slot

LEMMA OwnerType == ASSUME NEW t \in Task PROVE Owner[t] \in Proc
  BY ConstantsAssumption

LEMMA ScanningType ==
  ASSUME TypeOK, NEW t \in Task, Scanning(t)
  PROVE  /\ cursor[t] \in SlotsOf(Owner[t])
         /\ cursor[t] \in Slot
  BY OwnerType, SlotType DEF TypeOK, Scanning

LEMMA TypeInit == Init => TypeOK
  BY OwnerType, SlotType, ConstantsAssumption DEF Init, TypeOK, Phase

LEMMA TypeStep == TypeOK /\ [Next]_vars => TypeOK'
<1> SUFFICES ASSUME TypeOK, [Next]_vars PROVE TypeOK'
  OBVIOUS
<1> USE DEF TypeOK, Phase, Goto
<1>1. ASSUME NEW t \in Task, Call(t) PROVE TypeOK'
  BY <1>1, OwnerType, SlotType DEF Call, StartScan
<1>2. ASSUME NEW t \in Task, LockError(t) PROVE TypeOK'
  BY <1>2 DEF LockError
<1>3. ASSUME NEW t \in Task, Cancel(t) PROVE TypeOK'
  BY <1>3 DEF Cancel
<1>4. ASSUME NEW t \in Task, Wake(t) PROVE TypeOK'
  BY <1>4, OwnerType, SlotType DEF Wake, StartScan
<1>5. ASSUME NEW t \in Task, TryLock(t) PROVE TypeOK'
  <2>1. cursor[t] \in Slot /\ cursor[t] + 1 <= MaxConcurrent[Owner[t]]
    BY <1>5, ScanningType, OwnerType, SlotType DEF TryLock, Scanning
  <2>2. CASE holder[cursor[t]] = NoTask
    BY <1>5, <2>1, <2>2, OwnerType, SlotType DEF TryLock
  <2>3. CASE holder[cursor[t]] # NoTask
    BY <1>5, <2>1, <2>3, OwnerType, SlotType DEF TryLock
  <2> QED BY <2>2, <2>3
<1>6. ASSUME NEW t \in Task, Granted(t) PROVE TypeOK'
  BY <1>6 DEF Granted
<1>7. ASSUME NEW t \in Task, NotEnough(t) PROVE TypeOK'
  BY <1>7 DEF NotEnough
<1>8. ASSUME NEW t \in Task, NEW s \in Slot, Unlock(t, s) PROVE TypeOK'
  BY <1>8 DEF Unlock
<1>9. ASSUME NEW t \in Task, Released(t) PROVE TypeOK'
  BY <1>9 DEF Released, AfterRelease
<1>10. ASSUME NEW t \in Task, Finish(t) PROVE TypeOK'
  BY <1>10 DEF Finish
<1>11. ASSUME NEW p \in Proc, Crash(p) PROVE TypeOK'
  BY <1>11, ConstantsAssumption DEF Crash, TasksOf
<1>12. ASSUME NEW p \in Proc, Restart(p) PROVE TypeOK'
  BY <1>12 DEF Restart, TasksOf
<1>13. ASSUME NEW s \in Slot, Probe(s) PROVE TypeOK'
  BY <1>13, ConstantsAssumption DEF Probe
<1>14. ASSUME NEW s \in Slot, ProbeEnds(s) PROVE TypeOK'
  BY <1>14 DEF ProbeEnds
<1>15. ASSUME NEW t \in Task, OpenError(t) PROVE TypeOK'
  <2>1. failed' \in [Proc -> 0 .. MaxOpenErrors]
    BY <1>15, OwnerType, ConstantsAssumption DEF OpenError
  <2>2. holder' \in [Slot -> Task \cup Proc \cup {NoTask, Doctor}]
    BY <1>15, OwnerType DEF OpenError
  <2> QED BY <1>15, <2>1, <2>2 DEF OpenError
<1>16. CASE UNCHANGED vars
  BY <1>16 DEF vars
<1> QED
  BY <1>1, <1>2, <1>3, <1>4, <1>5, <1>6, <1>7, <1>8, <1>9, <1>10, <1>11,
     <1>12, <1>13, <1>14, <1>15, <1>16 DEF Next, SectionStep

\* Every variable keeps its type; in particular the scan never indexes past
\* the slot files of its process.
THEOREM TypeCorrect == Spec => []TypeOK
  BY TypeInit, TypeStep, PTL DEF Spec

-----------------------------------------------------------------------------
\* The locks: what a task knows it holds is what the kernel holds for it.

LEMMA LocksInit == Init => LocksKnown
  BY ConstantsAssumption DEF Init, LocksKnown

LEMMA LocksStep == TypeOK /\ LocksKnown /\ [Next]_vars => LocksKnown'
<1> SUFFICES ASSUME TypeOK, LocksKnown, [Next]_vars PROVE LocksKnown'
  OBVIOUS
<1> USE ConstantsAssumption DEF TypeOK, LocksKnown, Goto
<1>1. ASSUME NEW t \in Task, Call(t) PROVE LocksKnown'
  BY <1>1 DEF Call, StartScan
<1>2. ASSUME NEW t \in Task, LockError(t) PROVE LocksKnown'
  BY <1>2 DEF LockError, Scanning
<1>3. ASSUME NEW t \in Task, Cancel(t) PROVE LocksKnown'
  BY <1>3 DEF Cancel
<1>4. ASSUME NEW t \in Task, Wake(t) PROVE LocksKnown'
  BY <1>4 DEF Wake, StartScan
<1>5. ASSUME NEW t \in Task, TryLock(t) PROVE LocksKnown'
  <2>1. cursor[t] \in Slot /\ pc[t] = "scan"
    BY <1>5, ScanningType DEF TryLock, Scanning
  <2>2. CASE holder[cursor[t]] = NoTask
    BY <1>5, <2>1, <2>2 DEF TryLock
  <2>3. CASE holder[cursor[t]] # NoTask
    BY <1>5, <2>1, <2>3 DEF TryLock
  <2> QED BY <2>2, <2>3
<1>6. ASSUME NEW t \in Task, Granted(t) PROVE LocksKnown'
  BY <1>6 DEF Granted
<1>7. ASSUME NEW t \in Task, NotEnough(t) PROVE LocksKnown'
  BY <1>7 DEF NotEnough
<1>8. ASSUME NEW t \in Task, NEW s \in Slot, Unlock(t, s)
      PROVE LocksKnown'
  <2>1. holder[s] = t
    BY <1>8 DEF Unlock
  <2> QED BY <1>8, <2>1 DEF Unlock
<1>9. ASSUME NEW t \in Task, Released(t) PROVE LocksKnown'
  BY <1>9 DEF Released, AfterRelease
<1>10. ASSUME NEW t \in Task, Finish(t) PROVE LocksKnown'
  BY <1>10 DEF Finish
<1>11. ASSUME NEW p \in Proc, Crash(p) PROVE LocksKnown'
  BY <1>11 DEF Crash, TasksOf
<1>12. ASSUME NEW p \in Proc, Restart(p) PROVE LocksKnown'
  BY <1>12 DEF Restart, TasksOf
<1>13. ASSUME NEW s \in Slot, Probe(s) \/ ProbeEnds(s)
       PROVE LocksKnown'
  BY <1>13 DEF Probe, ProbeEnds
<1>14. ASSUME NEW t \in Task, OpenError(t) PROVE LocksKnown'
  <2>1. Owner[t] \in Proc /\ pc[t] = "scan"
    BY <1>14, OwnerType DEF OpenError, Scanning
  <2>2. /\ acquired[t] = {s \in Slot : holder[s] = t}
        /\ acquired'[t] = {} /\ pc'[t] = "idle"
        /\ \A u \in Task \ {t} : acquired'[u] = acquired[u] /\ pc'[u] = pc[u]
    BY <1>14 DEF OpenError
  <2>3. ASSUME NEW s \in Slot
        PROVE  /\ holder'[s] # t
               /\ \A u \in Task \ {t} : holder'[s] = u <=> holder[s] = u
    BY <1>14, <2>1, <2>2 DEF OpenError
  <2>4. ASSUME NEW u \in Task
        PROVE  /\ acquired'[u] = {s \in Slot : holder'[s] = u}
               /\ pc'[u] \in {"idle", "sleep", "dead"} => acquired'[u] = {}
    <3>1. CASE u = t
      BY <2>2, <2>3, <3>1
    <3>2. CASE u # t
      BY <2>2, <2>3, <3>2
    <3> QED BY <3>1, <3>2
  <2> QED BY <2>4
<1>15. CASE UNCHANGED vars
  BY <1>15 DEF vars
<1> QED
  BY <1>1, <1>2, <1>3, <1>4, <1>5, <1>6, <1>7, <1>8, <1>9, <1>10, <1>11,
     <1>12, <1>13, <1>14, <1>15 DEF Next, SectionStep

-----------------------------------------------------------------------------
\* The cap: how many slots a task has collected, and where.

Collected(t) ==
    /\ acquired[t] \subseteq SlotsOf(Owner[t])
    /\ pc[t] = "scan" => Cardinality(acquired[t]) <= Want(t)
    /\ pc[t] = "running" => Cardinality(acquired[t]) = Want(t)

LeftBehind(p) ==
    /\ Stranded(p) \subseteq SlotsOf(p)
    /\ Cardinality(Stranded(p)) <= failed[p] * (WeightCap - 1)

Inv ==
    /\ TypeOK
    /\ LocksKnown
    /\ \A t \in Task : Collected(t)
    /\ \A p \in Proc : LeftBehind(p)

LEMMA SlotsFinite ==
  ASSUME NEW t \in Task, acquired[t] \subseteq SlotsOf(Owner[t])
  PROVE  IsFiniteSet(acquired[t])
<1>1. IsFiniteSet(SlotsOf(Owner[t]))
  BY OwnerType, SlotType, FS_Interval DEF SlotsOf
<1> QED BY <1>1, FS_Subset

LEMMA CollectedInit == Init => \A t \in Task : Collected(t)
  BY DEF Init, Collected

LEMMA CollectedStep ==
  ASSUME Inv, [Next]_vars, NEW u \in Task PROVE Collected(u)'
<1>0. Collected(u)
  BY DEF Inv
<1> USE DEF Inv, TypeOK, Goto
<1>1. ASSUME NEW t \in Task, StartScan(t), pc[t] \in {"idle", "sleep"}
      PROVE  Collected(u)'
  <2>1. acquired' = acquired /\ acquired[t] = {}
    BY <1>1 DEF StartScan, LocksKnown
  <2>2. Cardinality(acquired[t]) <= Want(t)
    BY <2>1, FS_EmptySet, WantType
  <2>3. CASE u = t
    BY <1>0, <1>1, <2>1, <2>2, <2>3 DEF StartScan, Collected
  <2>4. CASE u # t
    BY <1>0, <1>1, <2>1, <2>4 DEF StartScan, Collected
  <2> QED BY <2>3, <2>4
<1>2. ASSUME NEW t \in Task, TryLock(t) PROVE Collected(u)'
  <2>1. /\ cursor[t] \in SlotsOf(Owner[t]) /\ cursor[t] \in Slot
        /\ pc[t] = "scan" /\ Cardinality(acquired[t]) < Want(t)
    BY <1>2, ScanningType DEF TryLock, Scanning
  <2>2. CASE holder[cursor[t]] = NoTask /\ u = t
    <3>1. cursor[t] \notin acquired[t]
      BY <2>2, ConstantsAssumption DEF LocksKnown
    <3>2. /\ IsFiniteSet(acquired[t])
          /\ Cardinality(acquired[t]) \in Nat
      BY <1>0, <2>2, SlotsFinite, FS_CardinalityType DEF Collected
    <3>3. Cardinality(acquired[t] \cup {cursor[t]}) = Cardinality(acquired[t]) + 1
      BY <3>1, <3>2, FS_AddElement
    <3>4. acquired'[t] = acquired[t] \cup {cursor[t]} /\ pc' = pc
      BY <1>2, <2>2 DEF TryLock
    <3> QED BY <1>0, <2>1, <2>2, <3>2, <3>3, <3>4, WantType DEF Collected
  <2>3. CASE ~(holder[cursor[t]] = NoTask /\ u = t)
    <3>1. acquired'[u] = acquired[u] /\ pc' = pc
      BY <1>2, <2>3 DEF TryLock
    <3> QED BY <1>0, <3>1 DEF Collected
  <2> QED BY <2>2, <2>3
<1>3. ASSUME NEW t \in Task, Granted(t) PROVE Collected(u)'
  <2>1. CASE u = t
    <3>1. Cardinality(acquired[t]) \in Nat
      BY <1>0, <2>1, SlotsFinite, FS_CardinalityType DEF Collected
    <3> QED BY <1>0, <1>3, <2>1, <3>1, WantType DEF Granted, Collected
  <2>2. CASE u # t
    BY <1>0, <1>3, <2>2 DEF Granted, Collected
  <2> QED BY <2>1, <2>2
<1>4. ASSUME NEW t \in Task,
             LockError(t) \/ NotEnough(t) \/ Finish(t) \/ Cancel(t)
                 \/ Released(t)
      PROVE  Collected(u)'
  BY <1>0, <1>4
  DEF LockError, NotEnough, Finish, Cancel, Released, AfterRelease, Collected
<1>5. ASSUME NEW t \in Task, NEW s \in Slot, Unlock(t, s)
      PROVE  Collected(u)'
  BY <1>0, <1>5 DEF Unlock, Collected
<1>6. ASSUME NEW p \in Proc, Crash(p) PROVE Collected(u)'
  BY <1>0, <1>6 DEF Crash, Collected
<1>7. ASSUME NEW p \in Proc, Restart(p) PROVE Collected(u)'
  BY <1>0, <1>7 DEF Restart, Collected
<1>8. CASE UNCHANGED vars
  BY <1>0, <1>8 DEF vars, Collected
<1>9. ASSUME NEW t \in Task, Call(t) \/ Wake(t) PROVE Collected(u)'
  BY <1>1, <1>9 DEF Call, Wake
<1>10. ASSUME NEW s \in Slot, Probe(s) \/ ProbeEnds(s) PROVE Collected(u)'
  BY <1>0, <1>10 DEF Probe, ProbeEnds, Collected
<1>11. ASSUME NEW t \in Task, OpenError(t) PROVE Collected(u)'
  BY <1>0, <1>11 DEF OpenError, Collected
<1> QED
  BY <1>2, <1>3, <1>4, <1>5, <1>6, <1>7, <1>8, <1>9, <1>10, <1>11
  DEF Next, SectionStep

-----------------------------------------------------------------------------
\* The locks left to a process: only a file that cannot be opened adds to
\* them, and at most weight_cap - 1 of them.

LEMMA OneMore ==
  ASSUME NEW a \in Nat, NEW b \in Nat PROVE (a + 1) * b = a * b + b
  OBVIOUS

LEMMA LeftInit == Init => \A p \in Proc : LeftBehind(p)
<1> SUFFICES ASSUME Init, NEW p \in Proc PROVE LeftBehind(p)
  OBVIOUS
<1>1. Stranded(p) = {}
  BY ConstantsAssumption DEF Init, Stranded
<1>2. failed[p] * (WeightCap - 1) = 0
  BY ConstantsAssumption DEF Init
<1> QED BY <1>1, <1>2, FS_EmptySet DEF LeftBehind

LEMMA LeftSame ==
  ASSUME NEW p \in Proc, LeftBehind(p), failed'[p] = failed[p],
         \A s \in Slot : holder'[s] = p <=> holder[s] = p
  PROVE  LeftBehind(p)'
<1>1. Stranded(p)' = Stranded(p)
  BY DEF Stranded
<1> QED BY <1>1 DEF LeftBehind

LEMMA LeftStep == ASSUME Inv, [Next]_vars, NEW p \in Proc PROVE LeftBehind(p)'
<1>0. LeftBehind(p)
  BY DEF Inv
<1> USE ConstantsAssumption DEF Inv, TypeOK, Goto
<1>1. ASSUME NEW t \in Task, OpenError(t), Owner[t] = p
      PROVE  LeftBehind(p)'
  <2>1. /\ Stranded(p)' = Stranded(p) \cup acquired[t]
        /\ failed'[p] = failed[p] + 1
    <3>1. acquired[t] \subseteq Slot
      OBVIOUS
    <3> QED BY <1>1, <3>1 DEF OpenError, Stranded
  <2>2. /\ IsFiniteSet(Stranded(p))
        /\ IsFiniteSet(acquired[t])
        /\ acquired[t] \subseteq SlotsOf(p)
    <3>1. IsFiniteSet(SlotsOf(p))
      BY SlotType, FS_Interval DEF SlotsOf
    <3>2. acquired[t] \subseteq SlotsOf(p)
      BY <1>1 DEF Collected
    <3> QED BY <1>0, <3>1, <3>2, FS_Subset DEF LeftBehind
  <2> DEFINE S == Cardinality(Stranded(p))
             A == Cardinality(acquired[t])
             I == Cardinality(Stranded(p) \cap acquired[t])
             B == failed[p] * (WeightCap - 1)
  <2>3. Cardinality(Stranded(p) \cup acquired[t]) = S + A - I
    BY <2>2, FS_Union
  <2>4. S \in Nat /\ A \in Nat /\ I \in Nat
    BY <2>2, FS_CardinalityType, FS_Intersection
  <2>5. A <= WeightCap - 1
    <3>1. A < Want(t)
      BY <1>1 DEF OpenError, Scanning
    <3>2. Want(t) \in Nat /\ Want(t) <= WeightCap
      BY WantType DEF Want
    <3> HIDE DEF A
    <3> QED BY <2>4, <3>1, <3>2
  <2>6. S <= B /\ B \in Int
    BY <1>0 DEF LeftBehind
  <2>7. (failed[p] + 1) * (WeightCap - 1) = B + (WeightCap - 1)
    BY OneMore
  <2>8. S + A - I <= B + (WeightCap - 1)
    <3> HIDE DEF S, A, I, B, Inv, TypeOK
    <3> QED BY <2>4, <2>5, <2>6
  <2>9. Cardinality(Stranded(p)') <= failed'[p] * (WeightCap - 1)
    BY <2>1, <2>3, <2>7, <2>8
  <2> QED BY <1>0, <2>1, <2>2, <2>9 DEF LeftBehind
<1>2. ASSUME NEW t \in Task, OpenError(t), Owner[t] # p
      PROVE  LeftBehind(p)'
  BY <1>0, <1>2, OwnerType, LeftSame DEF OpenError, LocksKnown
<1>3. ASSUME Crash(p) PROVE LeftBehind(p)'
  <2>1. Stranded(p)' = {} /\ failed'[p] = 0
    BY <1>3 DEF Crash, Stranded, TasksOf
  <2>2. failed'[p] * (WeightCap - 1) = 0
    BY <2>1
  <2> QED BY <2>1, <2>2, FS_EmptySet DEF LeftBehind
<1>4. ASSUME NEW q \in Proc \ {p}, Crash(q) PROVE LeftBehind(p)'
  BY <1>0, <1>4, LeftSame DEF Crash, TasksOf
<1>5. ASSUME NEW t \in Task, TryLock(t) PROVE LeftBehind(p)'
  BY <1>0, <1>5, LeftSame, ScanningType DEF TryLock
<1>6. ASSUME NEW t \in Task, NEW s \in Slot, Unlock(t, s)
      PROVE  LeftBehind(p)'
  BY <1>0, <1>6, LeftSame DEF Unlock, LocksKnown
<1>7. ASSUME NEW s \in Slot, Probe(s) \/ ProbeEnds(s) PROVE LeftBehind(p)'
  BY <1>0, <1>7, LeftSame DEF Probe, ProbeEnds
<1>8. ASSUME UNCHANGED <<holder, failed>> PROVE LeftBehind(p)'
  BY <1>0, <1>8, LeftSame
<1>9. ASSUME NEW t \in Task,
             \/ Call(t) \/ Wake(t) \/ Finish(t) \/ Cancel(t)
             \/ LockError(t) \/ Granted(t) \/ NotEnough(t) \/ Released(t)
      PROVE  UNCHANGED <<holder, failed>>
  BY <1>9 DEF Call, Wake, StartScan, Finish, Cancel, LockError, Granted,
              NotEnough, Released
<1>10. ASSUME NEW q \in Proc, Restart(q) PROVE UNCHANGED <<holder, failed>>
  BY <1>10 DEF Restart
<1>11. CASE UNCHANGED vars
  BY <1>8, <1>11 DEF vars
<1> QED
  BY <1>1, <1>2, <1>3, <1>4, <1>5, <1>6, <1>7, <1>8, <1>9, <1>10, <1>11
  DEF Next, SectionStep

-----------------------------------------------------------------------------

LEMMA InvInit == Init => Inv
  BY TypeInit, LocksInit, CollectedInit, LeftInit DEF Inv

LEMMA InvStep == Inv /\ [Next]_vars => Inv'
<1> SUFFICES ASSUME Inv, [Next]_vars PROVE Inv'
  OBVIOUS
<1>1. TypeOK' /\ LocksKnown'
  BY TypeStep, LocksStep DEF Inv
<1>2. (\A t \in Task : Collected(t))'
  BY CollectedStep
<1>3. (\A p \in Proc : LeftBehind(p))'
  BY LeftStep
<1> QED BY <1>1, <1>2, <1>3 DEF Inv

LEMMA InvLocks == Inv => LocksAreAccounted
  BY DEF Inv, LeftBehind, LocksAreAccounted, StrandedFew

\* After every partial attempt, error, cancellation and death, the locks a call
\* knows of are the locks the kernel holds for it, a call that waits, ended or
\* died has none, and a process keeps fewer than weight_cap locks for each slot
\* file that it could not open.
THEOREM LocksAccounted == Spec => []LocksAreAccounted
  BY InvInit, InvStep, InvLocks, PTL DEF Spec

LEMMA InvCap == Inv => CapIsGlobal
  BY DEF Inv, Collected, CapIsGlobal, LocksKnown

\* Commands that run at once hold disjoint sets of slots of the size each was
\* granted, whatever processes, caps, weights and deaths there are.
THEOREM CapHolds == Spec => []CapIsGlobal
  BY InvInit, InvStep, InvCap, PTL DEF Spec

-----------------------------------------------------------------------------
\* Refinement: the flock protocol implements the lease of whole sets.

LEMMA LeaseInit == Init => Lease!Init
  BY DEF Init, Lease!Init, leased

\* A step that neither starts nor ends a command is a stutter of the lease.
LEMMA LeaseStutter ==
  ASSUME TypeOK, TypeOK',
         \A t \in Task : /\ (pc'[t] = "running") <=> (pc[t] = "running")
                         /\ pc[t] = "running" => acquired'[t] = acquired[t]
  PROVE  leased' = leased
  BY DEF leased, TypeOK

LEMMA LeaseStep == Inv /\ Inv' /\ [Next]_vars => [Lease!Next]_leased
<1> SUFFICES ASSUME Inv, Inv', [Next]_vars PROVE [Lease!Next]_leased
  OBVIOUS
<1> USE DEF Inv, TypeOK, Goto
<1>1. ASSUME NEW t \in Task, Granted(t) PROVE Lease!Next
  <2>1. /\ pc[t] = "scan" /\ pc' = [pc EXCEPT ![t] = "running"]
        /\ acquired' = acquired /\ Collected(t) /\ Collected(t)'
    BY <1>1 DEF Granted
  <2>2. leased' = [leased EXCEPT ![t] = acquired[t]]
    BY <2>1 DEF leased
  <2>3. leased[t] = {}
    BY <2>1 DEF leased
  <2>4. acquired[t] \in Grants(t)
    BY <2>1 DEF Collected, Grants
  <2>5. ASSUME NEW u \in Task PROVE acquired[t] \cap leased[u] = {}
    BY <2>1 DEF leased, LocksKnown
  <2>6. Lease!Grant(t)
    BY <2>2, <2>3, <2>4, <2>5 DEF Lease!Grant
  <2> QED BY <2>6 DEF Lease!Next
<1>2. ASSUME NEW t \in Task, Finish(t) PROVE Lease!Next
  <2>1. leased' = [u \in Task |-> IF u \in {t} THEN {} ELSE leased[u]]
    BY <1>2 DEF Finish, leased
  <2>2. Lease!Return({t})
    BY <2>1 DEF Lease!Return
  <2> QED BY <2>2 DEF Lease!Next
<1>3. ASSUME NEW p \in Proc, Crash(p) PROVE Lease!Next
  <2>1. leased' = [u \in Task |-> IF u \in TasksOf(p) THEN {} ELSE leased[u]]
    BY <1>3 DEF Crash, leased
  <2>2. Lease!Return(TasksOf(p))
    BY <2>1 DEF Lease!Return
  <2> QED BY <2>2 DEF Lease!Next, TasksOf
<1>4. ASSUME NEW t \in Task,
             \/ Call(t) \/ LockError(t) \/ OpenError(t) \/ Cancel(t)
             \/ Wake(t) \/ NotEnough(t) \/ Released(t)
      PROVE  leased' = leased
  BY <1>4, LeaseStutter
  DEF Call, LockError, OpenError, Cancel, Wake, NotEnough, Released,
      AfterRelease, StartScan, Scanning
<1>5. ASSUME NEW t \in Task, TryLock(t) PROVE leased' = leased
  BY <1>5, LeaseStutter DEF TryLock, Scanning
<1>6. ASSUME NEW t \in Task, NEW s \in Slot, Unlock(t, s)
      PROVE  leased' = leased
  BY <1>6, LeaseStutter DEF Unlock
<1>7. ASSUME NEW p \in Proc, Restart(p) PROVE leased' = leased
  BY <1>7, LeaseStutter DEF Restart, TasksOf
<1>8. ASSUME NEW s \in Slot, Probe(s) \/ ProbeEnds(s)
      PROVE  leased' = leased
  BY <1>8, LeaseStutter DEF Probe, ProbeEnds
<1>9. CASE UNCHANGED vars
  BY <1>9, LeaseStutter DEF vars
<1> QED
  BY <1>1, <1>2, <1>3, <1>4, <1>5, <1>6, <1>7, <1>8, <1>9
  DEF Next, SectionStep

\* The scan of slot files one by one, its partial attempts and the gradual
\* release implement the lease that grants and returns whole sets at once.
THEOREM FlockRefinesLease == Spec => ImplementsLease
  BY InvInit, InvStep, LeaseInit, LeaseStep, PTL
  DEF Spec, ImplementsLease, Lease!Spec
=============================================================================
