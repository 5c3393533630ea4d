--------------------------- MODULE CorePoolProofs ---------------------------
(***************************************************************************)
(* Proofs about CorePool, for any number of processes, process ids and     *)
(* cores.  The argument: the lock file serialises the read-modify-write of *)
(* the pool; the pids of live processes differ; hence the dict in the      *)
(* hands of the lock holder carries the claim of every other process, and  *)
(* what it chooses and writes is disjoint from them and loses none.        *)
(***************************************************************************)
EXTENDS CorePool, TLAPS

InLock(p) == pc[p] \in {"read", "choose", "write", "unlock",
                        "exitRead", "exitWrite", "exitUnlock"}

LockExclusive == \A p \in Proc : InLock(p) <=> lock = p

PidsDiffer ==
    \A p \in Proc : Living(p) =>
        /\ pid[p] \notin foreign
        /\ \A q \in Proc \ {p} : Living(q) => pid[p] # pid[q]

\* Claims belong to processes between their write and their exit.
ClaimPhases ==
    \A p \in Proc : claimed[p] # {} =>
        pc[p] \in {"unlock", "up", "exitLock", "exitRead", "exitWrite"}

\* The dict that q is going to write carries the claims of the others ...
DictComplete ==
    \A p, q \in Proc :
        p # q /\ claimed[p] # {} /\ pc[q] \in {"choose", "write", "exitWrite"}
            => state[q][pid[p]] = claimed[p]

\* ... and the cores q has chosen are none of theirs.
ChoiceFree ==
    \A p, q \in Proc :
        p # q /\ pc[q] = "write" /\ ~shared[q]
            => state[q][pid[q]] \cap claimed[p] = {}

IInv ==
    /\ TypeOK
    /\ LockExclusive
    /\ PidsDiffer
    /\ ClaimPhases
    /\ ClaimRegistered
    /\ DictComplete
    /\ ChoiceFree
    /\ ClaimsDisjoint

-----------------------------------------------------------------------------
\* Type correctness.

LEMMA FirstOfSubset == ASSUME NEW S, NEW n PROVE FirstOf(S, n) \subseteq S
  BY DEF FirstOf

LEMMA ChoiceType ==
  ASSUME NEW p \in Proc
  PROVE  /\ Choice(p) \subseteq Core
         /\ FreeCores(p) # {} => Choice(p) \subseteq FreeCores(p)
  BY FirstOfSubset DEF Choice, FreeCores

LEMMA TypeInit == Init => TypeOK
  BY ConstantsAssumption DEF Init, TypeOK, Phase, EmptyPool

LEMMA TypeStep == TypeOK /\ [Next]_vars => TypeOK'
<1> SUFFICES ASSUME TypeOK, [Next]_vars PROVE TypeOK'
  OBVIOUS
<1> USE DEF TypeOK, Phase, Goto, EmptyPool
<1>1. ASSUME NEW p \in Proc, Start(p) PROVE TypeOK'
  BY <1>1 DEF Start
<1>2. ASSUME NEW p \in Proc, Exit(p) PROVE TypeOK'
  BY <1>2 DEF Exit
<1>3. ASSUME NEW p \in Proc, Die(p) PROVE TypeOK'
  BY <1>3 DEF Die
<1>4. ASSUME NEW p \in Proc,
             Lock(p, "lock", "read") \/ Lock(p, "exitLock", "exitRead")
      PROVE  TypeOK'
  BY <1>4 DEF Lock
<1>5. ASSUME NEW p \in Proc,
             Unlock(p, "unlock", "up") \/ Unlock(p, "exitUnlock", "gone")
      PROVE  TypeOK'
  BY <1>5 DEF Unlock
<1>6. ASSUME NEW p \in Proc, Read(p) PROVE TypeOK'
  BY <1>6 DEF Read
<1>7. ASSUME NEW p \in Proc, Choose(p) PROVE TypeOK'
  BY <1>7, ChoiceType DEF Choose
<1>8. ASSUME NEW p \in Proc, Write(p) PROVE TypeOK'
  BY <1>8 DEF Write
<1>9. ASSUME NEW p \in Proc, ExitRead(p) PROVE TypeOK'
  BY <1>9 DEF ExitRead
<1>10. ASSUME NEW p \in Proc, ExitWrite(p) PROVE TypeOK'
  BY <1>10 DEF ExitWrite
<1>11. ASSUME NEW i \in Pid, ForeignStart(i) \/ ForeignEnd(i) PROVE TypeOK'
  BY <1>11 DEF ForeignStart, ForeignEnd
<1>12. CASE HostCrash
  BY <1>12 DEF HostCrash
<1>13. CASE UNCHANGED vars
  BY <1>13 DEF vars
<1> QED
  BY <1>1, <1>2, <1>3, <1>4, <1>5, <1>6, <1>7, <1>8, <1>9, <1>10, <1>11,
     <1>12, <1>13 DEF Next, Step

\* Every variable keeps its type; in particular a process never registers a
\* core outside its affinity mask.
THEOREM TypeCorrect == Spec => []TypeOK
  BY TypeInit, TypeStep, PTL DEF Spec

-----------------------------------------------------------------------------
\* The inductive invariant.

LEMMA InvInit == Init => IInv
<1> SUFFICES ASSUME Init PROVE IInv
  OBVIOUS
<1>1. TypeOK
  BY TypeInit
<1> QED
  BY <1>1, ConstantsAssumption
  DEF Init, IInv, LockExclusive, InLock, PidsDiffer, Living, ClaimPhases,
      ClaimRegistered, DictComplete, ChoiceFree, ClaimsDisjoint

LEMMA InvStep == IInv /\ [Next]_vars => IInv'
<1> SUFFICES ASSUME IInv, [Next]_vars PROVE IInv'
  OBVIOUS
<1>0. TypeOK'
  BY TypeStep DEF IInv
<1> USE <1>0, ConstantsAssumption
    DEF IInv, TypeOK, Goto, EmptyPool, LockExclusive, InLock, PidsDiffer,
        Living, ClaimPhases, ClaimRegistered, DictComplete, ChoiceFree,
        ClaimsDisjoint
<1>1. ASSUME NEW p \in Proc, Start(p) PROVE IInv'
  BY <1>1 DEF Start, PidAlive
<1>2. ASSUME NEW p \in Proc, Exit(p) PROVE IInv'
  BY <1>2 DEF Exit
<1>3. ASSUME NEW p \in Proc, Die(p) PROVE IInv'
  BY <1>3 DEF Die
<1>4. ASSUME NEW p \in Proc,
             Lock(p, "lock", "read") \/ Lock(p, "exitLock", "exitRead")
      PROVE  IInv'
  <2>1. LockExclusive'
    BY <1>4 DEF Lock
  <2>2. PidsDiffer'
    <3>1. /\ pid' = pid /\ foreign' = foreign
          /\ \A q \in Proc : Living(q)' => Living(q)
      BY <1>4 DEF Lock
    <3> QED BY <3>1
  <2>3. ClaimPhases'
    BY <1>4 DEF Lock
  <2>4. ClaimRegistered'
    BY <1>4 DEF Lock
  <2>5. DictComplete'
    BY <1>4 DEF Lock
  <2>6. ChoiceFree'
    <3>1. /\ pid' = pid /\ state' = state /\ claimed' = claimed
          /\ shared' = shared
          /\ \A q \in Proc : pc'[q] = "write" => pc[q] = "write"
      BY <1>4 DEF Lock
    <3> QED BY <3>1
  <2>7. ClaimsDisjoint'
    BY <1>4 DEF Lock
  <2> QED BY <2>1, <2>2, <2>3, <2>4, <2>5, <2>6, <2>7
<1>5. ASSUME NEW p \in Proc,
             Unlock(p, "unlock", "up") \/ Unlock(p, "exitUnlock", "gone")
      PROVE  IInv'
  <2>1. LockExclusive'
    BY <1>5 DEF Unlock
  <2>2. PidsDiffer'
    BY <1>5 DEF Unlock
  <2>3. ClaimPhases'
    BY <1>5 DEF Unlock
  <2>4. ClaimRegistered'
    BY <1>5 DEF Unlock
  <2>5. DictComplete'
    BY <1>5 DEF Unlock
  <2>6. ChoiceFree'
    BY <1>5 DEF Unlock
  <2>7. ClaimsDisjoint'
    BY <1>5 DEF Unlock
  <2> QED BY <2>1, <2>2, <2>3, <2>4, <2>5, <2>6, <2>7
<1>6. ASSUME NEW p \in Proc, Read(p) PROVE IInv'
  BY <1>6 DEF Read, PidAlive
<1>7. ASSUME NEW p \in Proc, Choose(p) PROVE IInv'
  <2>1. LockExclusive'
    BY <1>7 DEF Choose
  <2>2. PidsDiffer'
    BY <1>7 DEF Choose
  <2>3. ClaimPhases'
    BY <1>7 DEF Choose
  <2>4. ClaimRegistered'
    BY <1>7 DEF Choose
  <2>0. /\ pid' = pid /\ claimed' = claimed /\ pc[p] = "choose"
        /\ pc' = [pc EXCEPT ![p] = "write"]
        /\ \A q \in Proc \ {p} : state'[q] = state[q] /\ shared'[q] = shared[q]
        /\ state'[p] = [state[p] EXCEPT ![pid[p]] = Choice(p)]
        /\ shared'[p] = (FreeCores(p) = {})
    BY <1>7 DEF Choose
  <2>a. ASSUME NEW q \in Proc, q # p, claimed[q] # {}
        PROVE  pid[q] # pid[p] /\ state[p][pid[q]] = claimed[q]
    BY <2>0, <2>a
  <2>5. DictComplete'
    <3> SUFFICES ASSUME NEW q \in Proc, NEW r \in Proc, q # r,
                        claimed'[q] # {},
                        pc'[r] \in {"choose", "write", "exitWrite"}
                 PROVE  state'[r][pid'[q]] = claimed'[q]
      BY DEF DictComplete
    <3>1. CASE r = p
      BY <2>0, <2>a, <3>1
    <3>2. CASE r # p
      BY <2>0, <3>2
    <3> QED BY <3>1, <3>2
  <2>6. ChoiceFree'
    <3> SUFFICES ASSUME NEW q \in Proc, NEW r \in Proc, q # r,
                        pc'[r] = "write", ~shared'[r]
                 PROVE  state'[r][pid'[r]] \cap claimed'[q] = {}
      BY DEF ChoiceFree
    <3>1. CASE r = p
      <4>1. Choice(p) \subseteq FreeCores(p)
        BY <2>0, <3>1, ChoiceType
      <4>2. FreeCores(p) \cap claimed[q] = {}
        <5>1. CASE claimed[q] = {}
          BY <5>1
        <5>2. CASE claimed[q] # {}
          <6>1. state[p][pid[q]] = claimed[q] /\ pid[q] \in Pid
            BY <2>a, <3>1, <5>2
          <6> QED BY <6>1 DEF FreeCores
        <5> QED BY <5>1, <5>2
      <4>3. state'[p][pid[p]] = Choice(p)
        BY <2>0
      <4> QED BY <2>0, <3>1, <4>1, <4>2, <4>3
    <3>2. CASE r # p
      BY <2>0, <3>2
    <3> QED BY <3>1, <3>2
  <2>7. ClaimsDisjoint'
    BY <1>7 DEF Choose
  <2> QED BY <2>1, <2>2, <2>3, <2>4, <2>5, <2>6, <2>7
<1>8. ASSUME NEW p \in Proc, Write(p) PROVE IInv'
  BY <1>8 DEF Write
<1>9. ASSUME NEW p \in Proc, ExitRead(p) PROVE IInv'
  <2>1. LockExclusive'
    BY <1>9 DEF ExitRead
  <2>2. PidsDiffer'
    BY <1>9 DEF ExitRead
  <2>3. ClaimPhases'
    BY <1>9 DEF ExitRead
  <2>4. ClaimRegistered'
    BY <1>9 DEF ExitRead
  <2>5. DictComplete'
    <3> SUFFICES ASSUME NEW q \in Proc, NEW r \in Proc, q # r,
                        claimed'[q] # {},
                        pc'[r] \in {"choose", "write", "exitWrite"}
                 PROVE  state'[r][pid'[q]] = claimed'[q]
      BY DEF DictComplete
    <3>1. CASE r = p
      <4>1. /\ pid[q] # pid[p] /\ pool[pid[q]] = claimed[q]
            /\ claimed'[q] = claimed[q] /\ pid' = pid
        BY <1>9, <3>1 DEF ExitRead
      <4>2. state'[p] = [pool EXCEPT ![pid[p]] = {}]
        BY <1>9 DEF ExitRead
      <4> QED BY <3>1, <4>1, <4>2
    <3>2. CASE r # p
      BY <1>9, <3>2 DEF ExitRead
    <3> QED BY <3>1, <3>2
  <2>6. ChoiceFree'
    BY <1>9 DEF ExitRead
  <2>7. ClaimsDisjoint'
    BY <1>9 DEF ExitRead
  <2> QED BY <2>1, <2>2, <2>3, <2>4, <2>5, <2>6, <2>7
<1>10. ASSUME NEW p \in Proc, ExitWrite(p) PROVE IInv'
  BY <1>10 DEF ExitWrite
<1>11. ASSUME NEW i \in Pid, ForeignStart(i) \/ ForeignEnd(i) PROVE IInv'
  BY <1>11 DEF ForeignStart, ForeignEnd, PidAlive
<1>12. CASE HostCrash
  BY <1>12 DEF HostCrash
<1>13. CASE UNCHANGED vars
  BY <1>13 DEF vars
<1> QED
  BY <1>1, <1>2, <1>3, <1>4, <1>5, <1>6, <1>7, <1>8, <1>9, <1>10, <1>11,
     <1>12, <1>13 DEF Next, Step

LEMMA InvProperties == IInv => ClaimsDisjoint /\ ClaimRegistered
  BY DEF IInv

\* No two live processes that found a free core are handed the same core,
\* through any starts, exits, deaths, host crashes and reuse of pids.
THEOREM ClaimsNeverOverlap == Spec => []ClaimsDisjoint
  BY InvInit, InvStep, InvProperties, PTL DEF Spec

\* No update of the pool file is lost: it carries the claim of every process
\* that lives on one.
THEOREM ClaimsNeverLost == Spec => []ClaimRegistered
  BY InvInit, InvStep, InvProperties, PTL DEF Spec
=============================================================================
