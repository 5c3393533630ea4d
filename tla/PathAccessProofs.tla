-------------------------- MODULE PathAccessProofs --------------------------
(***************************************************************************)
(* Proofs about PathAccess, for any tree of paths, any ceiling, lists,     *)
(* scopes, requests and commands.                                          *)
(***************************************************************************)
EXTENDS PathAccess, FiniteSetTheorems, TLAPS

-----------------------------------------------------------------------------
\* A grant in the store has been approved, for a target and a mode that are
\* allowed, and one approved `once' has served nobody.
GrantsApproved ==
    \A r \in grants :
        /\ ~Refused(r)
        /\ lifetime[r] # "none"
        /\ lifetime[r] = "once" => uses[r] = 0

\* An answer is awaited for a request that was not refused, and approves a
\* request that has none yet; what is not approved has served nobody.
Answers ==
    \A r \in Request :
        /\ asked[r] = "asked" => ~Refused(r)
        /\ asked[r] # "done" => lifetime[r] = "none" /\ age[r] = 0
        /\ lifetime[r] = "none" => uses[r] = 0

\* The approved requests, whose number is the age of the latest.
Aged == {r \in Request : age[r] > 0}

Ages == IsFiniteSet(Aged)

IInv == TypeOK /\ GrantsApproved /\ Answers /\ Ages

-----------------------------------------------------------------------------
\* Which grants an operation finds.

LEMMA FirstInStore ==
  ASSUME NEW G, NEW p, NEW write
  PROVE  /\ AuthorisedBy(G, p, write) \subseteq G
         /\ LeftAfter(G, p, write) \subseteq G
         /\ \A r \in AuthorisedBy(G, p, write) \cap LeftAfter(G, p, write) :
                lifetime[r] # "once"
  BY DEF AuthorisedBy, First, Covering, LeftAfter, Once

-----------------------------------------------------------------------------
\* The invariant.

LEMMA InvInit == Init => IInv
<1> SUFFICES ASSUME Init PROVE IInv
  OBVIOUS
<1>1. TypeOK
  BY ConstantsAssumption DEF Init, TypeOK
<1>2. GrantsApproved /\ Answers
  BY DEF Init, GrantsApproved, Answers
<1>3. Ages
  <2>1. Aged = {}
    BY DEF Init, Aged
  <2> QED BY <2>1, FS_EmptySet DEF Init, Ages
<1> QED BY <1>1, <1>2, <1>3 DEF IInv

\* A step that serves R and takes from the store what of R was approved once.
LEMMA InvServes ==
  ASSUME IInv, NEW R \in SUBSET grants, Count(R),
         grants' \in SUBSET grants,
         \A r \in R \cap grants' : lifetime[r] # "once",
         UNCHANGED <<readOnly, scope, ceilings, asked, age, lifetime>>,
         TypeOK'
  PROVE  IInv'
<1>1. \A r \in Request : r \notin R => uses'[r] = uses[r]
  BY DEF Count, IInv, TypeOK
<1>2. GrantsApproved'
  BY <1>1 DEF IInv, TypeOK, GrantsApproved, Refused
<1>3. Answers'
  BY <1>1 DEF IInv, Answers, GrantsApproved, Refused
<1>4. Ages'
  BY DEF IInv, Ages, Aged
<1> QED BY <1>2, <1>3, <1>4 DEF IInv

LEMMA CountType ==
  ASSUME uses \in [Request -> 0 .. 2], NEW R, Count(R)
  PROVE  uses' \in [Request -> 0 .. 2]
  BY DEF Count

\* Serving nobody.
LEMMA CountNone ==
  ASSUME uses \in [Request -> 0 .. 2], UNCHANGED uses
  PROVE  Count({})
  BY DEF Count

\* What the operations and commands do to the store: they serve some of its
\* grants, and those of them approved once are gone.
Serves ==
    \E R \in SUBSET grants :
        /\ Count(R)
        /\ grants' \in SUBSET grants
        /\ \A r \in R \cap grants' : lifetime[r] # "once"
        /\ UNCHANGED <<age, lifetime>>

LEMMA ReadServes ==
  ASSUME NEW p, Read(p) PROVE Serves
  BY FirstInStore DEF Read, Serves

LEMMA WriteServes ==
  ASSUME NEW p, Write(p) PROVE Serves
  BY FirstInStore DEF Write, Serves

LEMMA MoveServes ==
  ASSUME IInv, NEW p, NEW q, Move(p, q) PROVE Serves
<1> DEFINE left == LeftAfter(grants, p, TRUE)
           both == LeftAfter(left, q, TRUE)
           R == AuthorisedBy(grants, p, TRUE) \cup AuthorisedBy(left, q, TRUE)
           done == UnderScope(both, p) /\ UnderScope(both, q)
<1>1. /\ R \in SUBSET grants
      /\ left \in SUBSET grants /\ both \in SUBSET left
      /\ \A r \in R \cap both : lifetime[r] # "once"
  BY FirstInStore
<1>2. /\ \/ grants' = both /\ Count(IF done THEN R ELSE {})
         \/ grants' = left /\ UNCHANGED uses
      /\ UNCHANGED <<age, lifetime>>
  BY DEF Move
<1> HIDE DEF left, both, R, done
<1>3. CASE grants' = both /\ Count(IF done THEN R ELSE {})
  BY <1>1, <1>2, <1>3 DEF Serves
<1>4. CASE grants' = left /\ UNCHANGED uses
  BY <1>1, <1>2, <1>4, CountNone DEF Serves, IInv, TypeOK
<1> QED BY <1>2, <1>3, <1>4

LEMMA BeginServes ==
  ASSUME IInv, NEW c \in Command, Begin(c) PROVE Serves
<1>1. /\ Count(grants) /\ grants' = grants \ Once(grants)
      /\ UNCHANGED <<age, lifetime>>
  BY DEF Begin
<1> QED BY <1>1 DEF Serves, Once

LEMMA MountsInTree ==
  ASSUME TypeOK, NEW c \in Command
  PROVE  Mounted(grants, Cwd[c]) \in SUBSET Path
<1>1. /\ ExtraRw \subseteq Path /\ Cwd[c] \subseteq Path
      /\ Allowed \subseteq Path /\ GrantedRw(grants) \subseteq Path
  BY ConstantsAssumption DEF TypeOK, Allowed, GrantedRw
<1>2. \A S : S \subseteq Path => AtAny(S) \subseteq Path
  BY ConstantsAssumption DEF AtAny
<1> QED BY <1>1, <1>2 DEF Mounted

LEMMA InvStep == IInv /\ [Next]_vars => IInv'
<1> SUFFICES ASSUME IInv, [Next]_vars PROVE IInv'
  OBVIOUS
<1> USE DEF IInv
<1>1. ASSUME NEW r \in Request, Requested(r) PROVE IInv'
  <2>1. TypeOK'
    BY <1>1 DEF Requested, TypeOK, ceilings, store, commands
  <2>2. GrantsApproved' /\ Answers' /\ Ages'
    BY <1>1 DEF Requested, TypeOK, GrantsApproved, Answers, Ages, Aged,
                Refused, store
  <2> QED BY <2>1, <2>2
<1>2. ASSUME NEW r \in Request, NEW reply \in Reply, Answered(r, reply)
      PROVE  IInv'
  <2>1. /\ asked[r] = "asked" /\ asked' = [asked EXCEPT ![r] = "done"]
        /\ UNCHANGED <<readOnly, scope, ceilings, uses, commands>>
    BY <1>2 DEF Answered
  <2>2. CASE UNCHANGED store
    BY <2>1, <2>2 DEF TypeOK, GrantsApproved, Answers, Ages, Aged, Refused,
                      store, ceilings, commands
  <2>3. CASE LifetimeOf(reply) # "none"
    <3> DEFINE n == 1 + Cardinality(Aged)
    <3>1. /\ grants' = grants \cup {r}
          /\ age' = [age EXCEPT ![r] = n]
          /\ lifetime' = [lifetime EXCEPT ![r] = LifetimeOf(reply)]
      BY <1>2, <2>3 DEF Answered, Aged
    <3>2. LifetimeOf(reply) \in {"once", "session"}
      BY <2>3 DEF LifetimeOf, Reply
    <3>3. /\ Cardinality(Aged) \in Nat /\ r \notin Aged
          /\ ~Refused(r) /\ lifetime[r] = "none" /\ uses[r] = 0
      BY <2>1, FS_CardinalityType DEF Ages, Aged, Answers
    <3>4. n \in Nat /\ n > 0
      BY <3>3
    <3> HIDE DEF n
    <3>5. Aged' = Aged \cup {r}
      BY <3>1, <3>3, <3>4 DEF Aged, TypeOK
    <3>6. TypeOK'
      BY <2>1, <3>1, <3>2, <3>4 DEF TypeOK, ceilings, commands
    <3>7. Ages'
      BY <3>3, <3>5, FS_AddElement DEF Ages
    <3>8. GrantsApproved'
      BY <2>1, <3>1, <3>2, <3>3 DEF TypeOK, GrantsApproved, Refused
    <3>9. Answers'
      BY <2>1, <3>1, <3>2, <3>3 DEF TypeOK, Answers, Refused
    <3> QED BY <3>6, <3>7, <3>8, <3>9
  <2> QED BY <1>2, <2>2, <2>3 DEF Answered
<1>3. ASSUME Serves, TypeOK', UNCHANGED <<readOnly, scope, ceilings, asked>>
      PROVE  IInv'
  BY <1>3, InvServes DEF Serves
<1>4. ASSUME NEW p \in Path, Read(p) \/ Write(p) PROVE IInv'
  <2>1. Serves /\ UNCHANGED <<readOnly, scope, ceilings, asked, commands>>
    BY <1>4, ReadServes, WriteServes DEF Read, Write
  <2> QED BY <1>3, <2>1, CountType DEF Serves, TypeOK, ceilings, commands
<1>5. ASSUME NEW p \in Path, NEW q \in Path, Move(p, q) PROVE IInv'
  <2>1. Serves /\ UNCHANGED <<readOnly, scope, ceilings, asked, commands>>
    BY <1>5, MoveServes DEF Move
  <2> QED BY <1>3, <2>1, CountType DEF Serves, TypeOK, ceilings, commands
<1>6. ASSUME NEW c \in Command, Begin(c) PROVE IInv'
  <2>1. Serves /\ UNCHANGED <<readOnly, scope, ceilings, asked>>
    BY <1>6, BeginServes DEF Begin
  <2>2. /\ pc' = [pc EXCEPT ![c] = "started"]
        /\ mounts' = [mounts EXCEPT ![c] = Mounted(grants, Cwd[c])]
        /\ Mounted(grants, Cwd[c]) \in SUBSET Path
    BY <1>6, MountsInTree DEF Begin
  <2> QED BY <1>3, <2>1, <2>2, CountType DEF Serves, TypeOK, ceilings
<1>7. ASSUME UNCHANGED <<readOnly, asked, store, uses>>, TypeOK'
      PROVE  IInv'
  BY <1>7 DEF GrantsApproved, Answers, Ages, Aged, Refused, store
<1>8. ASSUME NEW S \in Scopes, RestrictPaths(S) PROVE IInv'
  <2>1. S \in SUBSET (At[Ceiling] \ (Excluded \cup SystemDirs))
    BY <1>8 DEF RestrictPaths, UnderCeiling, InCeiling, NoSystemDir,
                NotExcluded
  <2> QED BY <1>7, <1>8, <2>1
          DEF RestrictPaths, TypeOK, ceilings, store, commands
<1>9. CASE AskRoots \/ RootsAnswered
  BY <1>7, <1>9, ConstantsAssumption
  DEF AskRoots, RootsAnswered, TypeOK, store, commands
<1>10. ASSUME NEW c \in Command, Call(c) \/ End(c) PROVE IInv'
  BY <1>7, <1>10 DEF Call, End, TypeOK, ceilings, store
<1>11. CASE UNCHANGED vars
  BY <1>7, <1>11 DEF vars, TypeOK, store
<1> QED
  BY <1>1, <1>2, <1>4, <1>5, <1>6, <1>8, <1>9, <1>10, <1>11 DEF Next

LEMMA Invariant == Spec => []IInv
  BY InvInit, InvStep, PTL DEF Spec

\* Every variable keeps its type; in particular the active scope never leaves
\* the ceiling nor enters an excluded or a system directory.
\* (_finish_under_ceiling, which restrict_paths sends every path through)
THEOREM TypeCorrect == Spec => []TypeOK
  BY Invariant, PTL DEF IInv

-----------------------------------------------------------------------------
\* The two layers.

\* A path that a grant covers, seen from the mounts and from the file tools.
LEMMA GrantedTree ==
  ASSUME NEW p, NEW G
  PROVE  p \in AtAny(GrantedRw(G)) <=> Covering(G, p, TRUE) # {}
  BY DEF AtAny, GrantedRw, Covering

\* What is at or under a path of the scope is in the ceiling.
LEMMA ScopeInCeiling ==
  ASSUME TypeOK, NEW p \in AtAny(scope)
  PROVE  InCeiling(p)
<1>1. PICK q \in scope : p \in At[q]
  BY DEF AtAny
<1>2. q \in At[Ceiling] /\ q \in Path /\ Ceiling \in Path
  BY <1>1, ConstantsAssumption DEF TypeOK
<1>3. \A a, b \in Path : b \in At[a] => At[b] \subseteq At[a]
  BY ConstantsAssumption
<1> QED BY <1>1, <1>2, <1>3 DEF InCeiling

LEMMA Agreement ==
  ASSUME IInv, runnerCeiling = Ceiling \/ scope # {},
         NEW p \in Path \ (AtAny(ExtraRw) \cup Git \cup SystemDirs)
  PROVE  p \in Mounted(grants, {}) <=> MayWrite(p) \/ GrantedInside(p)
<1> DEFINE granted == Covering(grants, p, TRUE) # {}
           allowed == p \in AtAny(Allowed)
<1>1. p \in Mounted(grants, {}) <=>
        (allowed \/ granted) /\ p \notin Protected /\ p \notin Excluded
  <2>1. p \in AtAny(ExtraRw \cup Allowed \cup GrantedRw(grants)) <=>
            allowed \/ p \in AtAny(GrantedRw(grants))
    BY DEF AtAny
  <2> QED BY <2>1, GrantedTree DEF Mounted
<1>2. granted => ~readOnly
  BY DEF IInv, GrantsApproved, Covering, Refused
<1>3. CASE InCeiling(p)
  <2>1. allowed <=> ~readOnly /\ (scope = {} \/ p \in AtAny(scope))
    <3>1. CASE readOnly
      BY <3>1 DEF Allowed, AtAny
    <3>2. CASE ~readOnly /\ scope = {}
      <4>1. Allowed = {Ceiling}
        BY <3>2 DEF Allowed
      <4> QED BY <1>3, <3>2, <4>1 DEF AtAny, InCeiling
    <3>3. CASE ~readOnly /\ scope # {}
      BY <3>3 DEF Allowed
    <3> QED BY <3>1, <3>2, <3>3 DEF IInv, TypeOK
  <2>2. MayWrite(p) <=>
          /\ ~readOnly
          /\ p \notin Excluded /\ p \notin Protected
          /\ scope = {} \/ p \in AtAny(scope)
    BY <1>3 DEF MayWrite, Resolves, UnderCeiling, UnderScope, NoSystemDir,
                NotExcluded, NotProtected
  <2>3. GrantedInside(p) <=>
          granted /\ p \notin Excluded /\ p \notin Protected
    BY <1>3 DEF GrantedInside, TargetOk, CeilingOk, NoForbiddenSegment,
                NoSystemDir, NotExcluded, NotProtected
  <2> HIDE DEF granted, allowed
  <2> QED BY <1>1, <2>1, <2>2, <2>3
<1>4. CASE ~InCeiling(p)
  <2>1. p \notin Protected /\ p \notin Excluded
    BY <1>4, ConstantsAssumption DEF InCeiling
  <2>2. ~allowed
    <3>1. CASE readOnly
      BY <3>1 DEF Allowed, AtAny
    <3>2. CASE ~readOnly /\ scope = {}
      <4>1. Allowed = {Ceiling}
        BY <3>2 DEF Allowed
      <4> QED BY <1>4, <4>1 DEF AtAny, InCeiling
    <3>3. CASE ~readOnly /\ scope # {}
      <4>1. Allowed = scope
        BY <3>3 DEF Allowed
      <4> QED BY <1>4, <4>1, ScopeInCeiling DEF IInv
    <3> QED BY <3>1, <3>2, <3>3 DEF IInv, TypeOK
  <2>3. MayWrite(p) <=> ~readOnly /\ granted
    BY <1>4, <2>1
    DEF MayWrite, Resolves, UnderScope, TargetOk, CeilingOk,
        NoForbiddenSegment, NoSystemDir, NotExcluded, NotProtected
  <2>4. ~GrantedInside(p)
    BY <1>4 DEF GrantedInside
  <2> HIDE DEF granted, allowed
  <2> QED BY <1>1, <1>2, <2>1, <2>2, <2>3, <2>4
<1> QED BY <1>3, <1>4

\* In every tree, with any ceiling, lists, narrowing, grants and read-only
\* mode, a command that starts can modify just what a file operation may,
\* save in the places that LayersAgree names.
\* (_apply_grant_mounts and build_bwrap_argv against FileOperations._resolve)
THEOREM LayersAlwaysAgree == Spec => []LayersAgree
<1>1. IInv => LayersAgree
  BY Agreement DEF LayersAgree
<1> QED BY <1>1, Invariant, PTL

-----------------------------------------------------------------------------
\* The action property.

LEMMA OnlyBeginStarts ==
  ASSUME TypeOK, [Next]_vars, NEW c \in Command, pc[c] = "waiting",
         pc'[c] = "started"
  PROVE  Begin(c)
<1>1. ASSUME UNCHANGED pc PROVE FALSE
  BY <1>1
<1>2. ASSUME NEW d \in Command, Call(d) \/ Begin(d) \/ End(d)
      PROVE  Begin(c)
  <2>1. CASE Call(d)
    BY <2>1 DEF Call, TypeOK
  <2>2. CASE Begin(d)
    BY <2>2 DEF Begin, TypeOK
  <2>3. CASE End(d)
    BY <2>3 DEF End, TypeOK
  <2> QED BY <1>2, <2>1, <2>2, <2>3
<1>3. CASE Next
  BY <1>1, <1>2, <1>3
  DEF Next, Requested, Answered, Read, Write, Move, RestrictPaths, AskRoots,
      RootsAnswered, commands
<1>4. CASE UNCHANGED vars
  BY <1>1, <1>4 DEF vars
<1> QED BY <1>3, <1>4

LEMMA SpentMounted ==
  ASSUME TypeOK, [Next]_vars, NEW c \in Command, NEW r \in grants \ grants',
         pc[c] = "waiting", pc'[c] = "started", Mode[r] = "rw"
  PROVE  At[Root[r]] \ (Protected \cup Excluded) \subseteq mounts'[c]
<1>1. mounts'[c] = Mounted(grants, Cwd[c])
  BY OnlyBeginStarts DEF Begin, TypeOK
<1>2. At[Root[r]] \subseteq AtAny(GrantedRw(grants))
  BY DEF AtAny, GrantedRw
<1> QED BY <1>1, <1>2 DEF Mounted, AtAny

\* A once grant that goes away as a command starts has been mounted for that
\* very command, whatever has happened while it waited.
\* (the mounts and consume_all_once, both after the wait, in Runner)
THEOREM SpentAlwaysMounted == Spec => SpentGrantsAreMounted
<1>1. TypeOK /\ [Next]_vars =>
        [\A c \in Command, r \in grants \ grants' :
            pc[c] = "waiting" /\ pc'[c] = "started" /\ Mode[r] = "rw" =>
              At[Root[r]] \ (Protected \cup Excluded) \subseteq mounts'[c]]_vars
  BY SpentMounted
<1> QED BY <1>1, TypeCorrect, PTL DEF Spec, SpentGrantsAreMounted

-----------------------------------------------------------------------------
\* Refinement: the store implements the permissions.

LEMMA PermissionInit == Init => Permission!Init
  BY DEF Init, Permission!Init

\* What is served has been approved, and if approved once, not served before.
LEMMA ServesPermitted ==
  ASSUME IInv, Serves
  PROVE  Permission!Next
<1>1. PICK R \in SUBSET grants : Count(R) /\ UNCHANGED lifetime
  BY DEF Serves
<1>2. R \in SUBSET Request
  BY DEF IInv, TypeOK
<1>3. \A r \in R : Permission!MayServe(r)
  BY DEF IInv, TypeOK, GrantsApproved, Permission!MayServe
<1>4. Permission!Serve(R)
  BY <1>1, <1>3 DEF Permission!Serve, Count
<1> QED BY <1>2, <1>4 DEF Permission!Next

LEMMA PermissionStep ==
  ASSUME IInv, [Next]_vars
  PROVE  [Permission!Next]_<<lifetime, uses>>
<1>1. ASSUME NEW r \in Request, NEW reply \in Reply, Answered(r, reply)
      PROVE  [Permission!Next]_<<lifetime, uses>>
  <2>1. CASE UNCHANGED <<store, uses>>
    BY <2>1 DEF store
  <2>2. CASE lifetime' = [lifetime EXCEPT ![r] = LifetimeOf(reply)]
             /\ LifetimeOf(reply) # "none" /\ UNCHANGED uses
    <3>1. LifetimeOf(reply) \in {"once", "session"}
      BY <2>2 DEF LifetimeOf, Reply
    <3>2. lifetime[r] = "none"
      BY <1>1 DEF Answered, IInv, Answers
    <3>3. Permission!Approve(r, LifetimeOf(reply))
      BY <2>2, <3>2 DEF Permission!Approve
    <3> QED BY <3>1, <3>3 DEF Permission!Next
  <2> QED BY <1>1, <2>1, <2>2 DEF Answered
<1>2. ASSUME Serves PROVE [Permission!Next]_<<lifetime, uses>>
  BY <1>2, ServesPermitted
<1>3. ASSUME NEW p \in Path, Read(p) \/ Write(p)
      PROVE  [Permission!Next]_<<lifetime, uses>>
  BY <1>2, <1>3, ReadServes, WriteServes
<1>4. ASSUME NEW p \in Path, NEW q \in Path, Move(p, q)
      PROVE  [Permission!Next]_<<lifetime, uses>>
  BY <1>2, <1>4, MoveServes
<1>5. ASSUME NEW c \in Command, Begin(c)
      PROVE  [Permission!Next]_<<lifetime, uses>>
  BY <1>2, <1>5, BeginServes
<1>6. ASSUME \/ \E r \in Request : Requested(r)
             \/ \E S \in Scopes : RestrictPaths(S)
             \/ AskRoots \/ RootsAnswered
             \/ \E c \in Command : Call(c) \/ End(c)
             \/ UNCHANGED vars
      PROVE  UNCHANGED <<lifetime, uses>>
  BY <1>6 DEF Requested, RestrictPaths, AskRoots, RootsAnswered, Call, End,
              store, vars
<1> QED BY <1>1, <1>3, <1>4, <1>5, <1>6 DEF Next

\* However requests, file operations and waiting commands interleave, a grant
\* serves nobody before it is approved, and one approved once serves one
\* operation.  (GrantStore: add, find_covering, consume_once,
\* consume_all_once)
THEOREM GrantsArePermissions == Spec => ImplementsPermission
<1>1. IInv /\ [Next]_vars => [Permission!Next]_(Permission!vars)
  BY PermissionStep DEF Permission!vars
<1> QED
  BY <1>1, PermissionInit, Invariant, PTL
  DEF Spec, ImplementsPermission, Permission!Spec
=============================================================================
