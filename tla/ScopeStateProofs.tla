-------------------------- MODULE ScopeStateProofs --------------------------
(***************************************************************************)
(* Proofs about ScopeState, for any agents, paths and inodes and any       *)
(* number of calls, deaths, losses of power and errors.                    *)
(***************************************************************************)
EXTENDS ScopeState, TLAPS

-----------------------------------------------------------------------------
\* What a start would recover from directory d with contents c.
LoadOf(c, i) == IF i = None THEN Torn ELSE c[i]

RecoveredOf(d, c) ==
    LET wal == LoadOf(c, d.wal)
        main == LoadOf(c, d.main)
    IN  IF wal # Torn /\ (main = Torn \/ wal.seq > main.seq) THEN wal
        ELSE IF main # Torn THEN main
        ELSE EmptyScope

\* The contents that a loss of power may leave of ca in the page cache and di
\* on stable storage.
ContentsOf(ca, di) ==
    {c \in [Inode -> Scope \cup {Torn}] :
        \A i \in Inode : \/ c[i] = ca[i]
                         \/ ca[i] # di[i] /\ c[i] \in {di[i], Torn}}

Contents == ContentsOf(cache, disk)

-----------------------------------------------------------------------------
\* The inductive invariant.

\* Whatever failed before, the save in progress works on a tmp file that is
\* not the state file, and leaves the new scope in the state file.
Files ==
    /\ dir \in durable
    /\ \A d \in durable : d.main # None => d.main # d.wal
    /\ pc \in {"write", "fsync", "rename"} => dir.wal # None
    /\ pc \in {"fsync", "rename"} => cache[dir.wal] = mem
    /\ pc \in {"dirsync", "notify"} =>
          dir.wal = None /\ dir.main # None /\ cache[dir.main] = mem

\* As long as no call fails and the secret stays, what a restart would load
\* is the scope in memory, or its predecessor until the tmp file is whole.
Saves ==
    /\ pc \in {"idle", "open"} => dir.wal = None
    /\ pc \in {"idle", "fsync", "rename"} => Recovered = mem
    /\ pc \in {"open", "write"} => mem.seq = Recovered.seq + 1
    /\ pc = "write" => cache[dir.wal] = Torn
    /\ pc = "idle" => runner = mem.paths

\* No reply has a later number than S, and one with its number shows S.
AheadOf(o, v, S) ==
    /\ o <= S.seq
    /\ \A a \in Agent :
        /\ v[a].seq <= S.seq
        /\ v[a].seq = S.seq => v[a] = S

Ahead(S) == AheadOf(observed, view, S)

\* Nor does one have the number of S.
Beyond(S) == observed < S.seq /\ \A a \in Agent : view[a].seq < S.seq

\* The same of what a restart would load; a scope that is being saved has a
\* number nobody has seen.
Seen ==
    /\ Ahead(Recovered)
    /\ pc \notin {"idle", "down"} => Beyond(mem)

\* The same of what may be left by a loss of power, as long as nothing else
\* happens.  Until the tmp file is written that is one scope ...
Spread == \A d \in durable, c \in Contents : Ahead(RecoveredOf(d, c))

Settled ==
    pc \in {"idle", "open", "write"} =>
        \A d \in durable, c \in Contents : RecoveredOf(d, c) = Recovered

\* ... then the tmp file is in no other directory, and it is synced before it
\* gets the name of the state file.
Synced ==
    /\ pc \in {"write", "fsync", "rename"} =>
          \A d \in durable : /\ d.main # dir.wal
                             /\ d.wal = dir.wal => d.main = dir.main
    /\ pc = "write" => disk[dir.wal] = Torn
    /\ pc = "rename" => disk[dir.wal] = cache[dir.wal]
    /\ pc \in {"dirsync", "notify"} => disk[dir.main] = cache[dir.main]
    /\ pc = "notify" => durable = {dir}
    /\ pc = "down" => durable = {dir} /\ disk = cache

\* No call failed and the secret stayed; the process did not die either.
Calm == faults.error = 0 /\ faults.rotation = 0
Undying == Calm /\ faults.death = 0

IInv ==
    /\ TypeOK
    /\ Files
    /\ Calm => Saves
    /\ OneKindOfCrash => Seen
    /\ Undying => Spread /\ Settled /\ Synced

-----------------------------------------------------------------------------
\* Types.

LEMMA Bounds ==
  /\ MaxSeq \in Nat /\ MaxDeaths \in Nat /\ MaxPowerLoss \in Nat
  /\ MaxErrors \in Nat /\ MaxRotations \in Nat
  BY ConstantsAssumption

LEMMA TornIsNoScope == Torn \notin Scope /\ None \notin Inode
<1>1. \A s \in Scope : s \in [seq : Nat, paths : SUBSET Path]
  BY Bounds DEF Scope
<1> QED BY <1>1, ConstantsAssumption

LEMMA EmptyIsScope == EmptyScope \in Scope
  BY Bounds DEF EmptyScope, Scope

LEMMA RecoveredIs == Recovered = RecoveredOf(dir, cache)
  BY DEF Recovered, RecoveredOf, WalWins, Newer, Load, LoadOf

LEMMA LoadType ==
  ASSUME NEW c \in [Inode -> Scope \cup {Torn}], NEW i \in Inode \cup {None}
  PROVE  LoadOf(c, i) \in Scope \cup {Torn}
  BY DEF LoadOf

LEMMA RecoveredOfType ==
  ASSUME NEW c \in [Inode -> Scope \cup {Torn}], NEW d \in Dir
  PROVE  RecoveredOf(d, c) \in Scope
<1>1. d.wal \in Inode \cup {None} /\ d.main \in Inode \cup {None}
  BY DEF Dir
<1>2. /\ LoadOf(c, d.wal) \in Scope \cup {Torn}
      /\ LoadOf(c, d.main) \in Scope \cup {Torn}
  BY <1>1, LoadType
<1> QED BY <1>2, EmptyIsScope DEF RecoveredOf

LEMMA RecoveredType == TypeOK => Recovered \in Scope
  BY RecoveredIs, RecoveredOfType DEF TypeOK

LEMMA LaterIs ==
  ASSUME NEW m \in Nat, NEW n \in Nat
  PROVE  /\ Later(m, n) \in {m, n}
         /\ Later(m, n) >= m /\ Later(m, n) >= n
  BY DEF Later

\* A new tmp file is one that no directory names.
LEMMA FreshIs ==
  ASSUME TypeOK, \E i \in Inode : i \notin InUse
  PROVE  /\ Fresh \in Inode /\ Fresh # None
         /\ \A d \in durable \cup {dir} : d.main # Fresh /\ d.wal # Fresh
<1>1. Fresh \in Inode /\ Fresh \notin InUse
  BY DEF Fresh
<1> QED BY <1>1, TornIsNoScope DEF InUse

LEMMA TypeInit == Init => TypeOK
<1> SUFFICES ASSUME Init PROVE TypeOK
  OBVIOUS
<1>1. observed \in 0 .. MaxSeq /\ EmptyScope \in Scope
  BY Bounds, EmptyIsScope DEF Init
<1>2. dir \in Dir /\ durable \in SUBSET Dir
  BY DEF Init, Dir
<1>3. faults \in [death : 0 .. MaxDeaths, power : 0 .. MaxPowerLoss,
                  error : 0 .. MaxErrors, rotation : 0 .. MaxRotations]
  BY Bounds DEF Init
<1> QED BY <1>1, <1>2, <1>3 DEF Init, TypeOK, Phase

\* One more fault, while there may be one.
LEMMA FaultTypes ==
  ASSUME TypeOK
  PROVE  /\ IOError => faults' \in [death : 0 .. MaxDeaths,
               power : 0 .. MaxPowerLoss, error : 0 .. MaxErrors,
               rotation : 0 .. MaxRotations]
         /\ Die => faults' \in [death : 0 .. MaxDeaths,
               power : 0 .. MaxPowerLoss, error : 0 .. MaxErrors,
               rotation : 0 .. MaxRotations]
         /\ PowerLoss => faults' \in [death : 0 .. MaxDeaths,
               power : 0 .. MaxPowerLoss, error : 0 .. MaxErrors,
               rotation : 0 .. MaxRotations]
         /\ RotateSecret => faults' \in [death : 0 .. MaxDeaths,
               power : 0 .. MaxPowerLoss, error : 0 .. MaxErrors,
               rotation : 0 .. MaxRotations]
<1>1. faults \in [death : 0 .. MaxDeaths, power : 0 .. MaxPowerLoss,
                  error : 0 .. MaxErrors, rotation : 0 .. MaxRotations]
  BY DEF TypeOK
<1>2. /\ faults.death \in Nat /\ faults.power \in Nat
      /\ faults.error \in Nat /\ faults.rotation \in Nat
  BY <1>1, Bounds
<1> QED BY <1>1, <1>2, Bounds DEF IOError, Die, PowerLoss, RotateSecret

LEMMA StepTypes ==
  ASSUME TypeOK
  PROVE  /\ \A P \in SUBSET Path : mem.seq < MaxSeq =>
               [seq |-> mem.seq + 1, paths |-> P] \in Scope
         /\ mem.seq \in 0 .. MaxSeq
         /\ Later(mem.seq, observed) \in 0 .. MaxSeq
         /\ dir.main \in Inode \cup {None} /\ dir.wal \in Inode \cup {None}
         /\ Recovered \in Scope
         /\ Recovered.paths \in SUBSET Path /\ mem.paths \in SUBSET Path
<1>1. mem.seq \in 0 .. MaxSeq /\ observed \in 0 .. MaxSeq
  BY DEF TypeOK, Scope
<1>2. Later(mem.seq, observed) \in 0 .. MaxSeq
  BY <1>1, Bounds, LaterIs
<1>3. \A P \in SUBSET Path : mem.seq < MaxSeq =>
         [seq |-> mem.seq + 1, paths |-> P] \in Scope
  BY <1>1, Bounds DEF Scope
<1>4. Recovered \in Scope
  BY RecoveredType
<1> QED BY <1>1, <1>2, <1>3, <1>4 DEF TypeOK, Dir, Scope

LEMMA NewDirs ==
  ASSUME TypeOK
  PROVE  /\ \A i \in Inode : [dir EXCEPT !.wal = i] \in Dir
         /\ dir.wal \in Inode => [main |-> dir.wal, wal |-> None] \in Dir
         /\ [main |-> IF WalWins THEN dir.wal ELSE dir.main, wal |-> None]
               \in Dir
  BY StepTypes DEF TypeOK, Dir

LEMMA TypeStep == IInv /\ [Next]_vars => TypeOK'
<1> SUFFICES ASSUME IInv, [Next]_vars PROVE TypeOK'
  OBVIOUS
<1> DEFINE Faults == [death : 0 .. MaxDeaths, power : 0 .. MaxPowerLoss,
                      error : 0 .. MaxErrors, rotation : 0 .. MaxRotations]
<1>1. TypeOK /\ Files
  BY DEF IInv
<1>2. /\ IOError => faults' \in Faults
      /\ Die => faults' \in Faults
      /\ PowerLoss => faults' \in Faults
      /\ RotateSecret => faults' \in Faults
  BY <1>1, FaultTypes
<1>3. TypeOK <=> /\ mem \in Scope /\ runner \in SUBSET Path /\ pc \in Phase
                 /\ caller \in Agent /\ view \in [Agent -> Scope]
                 /\ observed \in 0 .. MaxSeq
                 /\ cache \in [Inode -> Scope \cup {Torn}]
                 /\ disk \in [Inode -> Scope \cup {Torn}]
                 /\ dir \in Dir /\ durable \in SUBSET Dir
                 /\ faults \in Faults
  BY DEF TypeOK
<1>4. TypeOK' <=> /\ mem' \in Scope /\ runner' \in SUBSET Path
                  /\ pc' \in Phase /\ caller' \in Agent
                  /\ view' \in [Agent -> Scope] /\ observed' \in 0 .. MaxSeq
                  /\ cache' \in [Inode -> Scope \cup {Torn}]
                  /\ disk' \in [Inode -> Scope \cup {Torn}]
                  /\ dir' \in Dir /\ durable' \in SUBSET Dir
                  /\ faults' \in Faults
  BY DEF TypeOK
<1> HIDE DEF Faults
<1> USE DEF Goto, Phase, replies, files, SetDir
<1>5. ASSUME NEW a \in Agent, GetActivePaths(a) \/ RestrictMismatch(a)
      PROVE  TypeOK'
  BY <1>1, <1>3, <1>4, <1>5, StepTypes DEF GetActivePaths, RestrictMismatch
<1>6. ASSUME NEW a \in Agent, NEW P \in SUBSET Path, NEW expected,
             RestrictPaths(a, P, expected)
      PROVE  TypeOK'
  BY <1>1, <1>3, <1>4, <1>6, StepTypes DEF RestrictPaths
<1>7. CASE Notify
  BY <1>1, <1>3, <1>4, <1>7, StepTypes DEF Notify
<1>8. CASE OpenTmp
  <2> DEFINE i == IF dir.wal = None THEN Fresh ELSE dir.wal
  <2>1. i \in Inode
    BY <1>1, <1>8, StepTypes, FreshIs DEF OpenTmp
  <2>2. /\ cache' = [cache EXCEPT ![i] = Torn]
        /\ disk' = IF dir.wal = None THEN [disk EXCEPT ![i] = Torn] ELSE disk
        /\ SetDir([dir EXCEPT !.wal = i])
        /\ pc' = "write"
        /\ UNCHANGED <<mem, runner, caller, replies, faults>>
    BY <1>8 DEF OpenTmp
  <2> HIDE DEF i
  <2>3. dir' \in Dir /\ durable' \in SUBSET Dir
    BY <1>1, <1>3, <2>1, <2>2, NewDirs
  <2>4. /\ cache' \in [Inode -> Scope \cup {Torn}]
        /\ disk' \in [Inode -> Scope \cup {Torn}]
    BY <1>1, <1>3, <2>1, <2>2
  <2> QED BY <1>1, <1>3, <1>4, <2>2, <2>3, <2>4
<1>9. CASE WriteTmp \/ FsyncTmp
  <2>1. dir.wal \in Inode
    BY <1>1, <1>9, StepTypes DEF Files, WriteTmp, FsyncTmp
  <2>2. CASE WriteTmp
    BY <1>1, <1>3, <1>4, <2>1, <2>2 DEF WriteTmp
  <2>3. CASE FsyncTmp
    BY <1>1, <1>3, <1>4, <2>1, <2>3 DEF FsyncTmp
  <2> QED BY <1>9, <2>2, <2>3
<1>10. CASE Rename
  <2>1. dir.wal \in Inode
    BY <1>1, <1>10, StepTypes DEF Files, Rename
  <2>2. dir' \in Dir /\ durable' \in SUBSET Dir
    BY <1>1, <1>3, <1>10, <2>1, NewDirs DEF Rename
  <2> QED BY <1>1, <1>3, <1>4, <1>10, <2>2 DEF Rename
<1>11. CASE SyncDir
  BY <1>1, <1>3, <1>4, <1>11 DEF SyncDir
<1>12. CASE SaveFails \/ SyncFails
  BY <1>1, <1>2, <1>3, <1>4, <1>12 DEF SaveFails, SyncFails
<1>13. CASE Die
  BY <1>1, <1>2, <1>3, <1>4, <1>13 DEF Die
<1>14. CASE PowerLoss
  <2>1. /\ cache' \in [Inode -> Scope \cup {Torn}] /\ disk' = cache'
        /\ dir' \in durable /\ durable' = {dir'} /\ pc' = "down"
        /\ UNCHANGED <<mem, runner, caller, replies>>
    BY <1>1, <1>3, <1>14 DEF PowerLoss
  <2> QED BY <1>1, <1>2, <1>3, <1>4, <1>14, <2>1
<1>15. CASE RotateSecret
  BY <1>1, <1>2, <1>3, <1>4, <1>15 DEF RotateSecret
<1>16. CASE Start
  <2>1. dir' \in Dir /\ durable' \in SUBSET Dir
    BY <1>1, <1>3, <1>16, NewDirs DEF Start
  <2> QED BY <1>1, <1>3, <1>4, <1>16, <2>1, StepTypes DEF Start
<1>17. CASE StartFails
  BY <1>1, <1>2, <1>3, <1>4, <1>17, StepTypes DEF StartFails
<1>18. CASE UNCHANGED vars
  BY <1>1, <1>3, <1>4, <1>18 DEF vars
<1>19. CASE StartUnread
  <2>1. PICK main \in Scope \cup {Torn}, wal \in Scope \cup {Torn} :
          mem' = IF Newer(wal, main) THEN wal
                 ELSE IF main # Torn THEN main ELSE EmptyScope
    <3>1. Load(dir.main) \in Scope \cup {Torn}
      BY <1>1, <1>3, StepTypes DEF Load
    <3>2. Load(dir.wal) \in Scope \cup {Torn}
      BY <1>1, <1>3, StepTypes DEF Load
    <3> QED BY <1>19, <3>1, <3>2 DEF StartUnread
  <2>2. mem' \in Scope /\ runner' \in SUBSET Path
    <3>1. mem' \in Scope
      BY <2>1, EmptyIsScope DEF Newer
    <3> QED BY <1>19, <3>1 DEF StartUnread, Scope
  <2>3. dir' \in Dir /\ durable' \in SUBSET Dir
    <3>1. PICK m \in {dir.main, dir.wal} : SetDir([main |-> m, wal |-> None])
      BY <1>19 DEF StartUnread
    <3>2. [main |-> m, wal |-> None] \in Dir
      BY <1>1, <1>3, StepTypes, <3>1 DEF Dir
    <3> QED BY <1>1, <1>3, <3>1, <3>2
  <2> QED BY <1>1, <1>2, <1>3, <1>4, <1>19, <2>2, <2>3 DEF StartUnread
<1> QED
  BY <1>5, <1>6, <1>7, <1>8, <1>9, <1>10, <1>11, <1>12, <1>13, <1>14, <1>15,
     <1>16, <1>17, <1>18, <1>19 DEF Next

-----------------------------------------------------------------------------
\* What is on file, whatever failed.

LEMMA FilesInit == Init => Files
  BY DEF Init, Files

LEMMA FilesStep == IInv /\ [Next]_vars => Files'
<1> SUFFICES ASSUME IInv, [Next]_vars PROVE Files'
  OBVIOUS
<1>1. TypeOK /\ Files /\ TypeOK'
  BY TypeStep DEF IInv
<1> USE DEF Goto, SetDir, files, replies, Files
<1>2. ASSUME NEW a \in Agent, GetActivePaths(a) \/ RestrictMismatch(a)
      PROVE  Files'
  BY <1>1, <1>2 DEF GetActivePaths, RestrictMismatch
<1>3. ASSUME NEW a \in Agent, NEW P \in SUBSET Path, NEW expected,
             RestrictPaths(a, P, expected)
      PROVE  Files'
  BY <1>1, <1>3 DEF RestrictPaths
<1>4. CASE Notify
  BY <1>1, <1>4 DEF Notify
<1>5. CASE OpenTmp
  <2> DEFINE i == IF dir.wal = None THEN Fresh ELSE dir.wal
  <2>1. i # None /\ (dir.main # None => dir.main # i)
    BY <1>1, <1>5, FreshIs DEF OpenTmp
  <2>2. dir' = [dir EXCEPT !.wal = i] /\ durable' = durable \cup {dir'}
        /\ pc' = "write"
    BY <1>5 DEF OpenTmp
  <2> HIDE DEF i
  <2>3. dir'.wal = i /\ dir'.main = dir.main
    BY <1>1, <2>2 DEF TypeOK, Dir
  <2> QED BY <1>1, <2>1, <2>2, <2>3
<1>6. CASE WriteTmp
  <2>1. dir.wal \in Inode /\ cache \in [Inode -> Scope \cup {Torn}]
    BY <1>1, <1>6, StepTypes DEF WriteTmp, TypeOK
  <2>2. cache'[dir.wal] = mem
    BY <1>6, <2>1 DEF WriteTmp
  <2> QED BY <1>1, <1>6, <2>2 DEF WriteTmp
<1>7. CASE FsyncTmp
  BY <1>1, <1>7 DEF FsyncTmp
<1>8. CASE Rename
  BY <1>1, <1>8, TornIsNoScope DEF Rename
<1>9. CASE SyncDir
  BY <1>1, <1>9 DEF SyncDir
<1>10. CASE SaveFails
  BY <1>1, <1>10 DEF SaveFails
<1>11. CASE SyncFails
  BY <1>1, <1>11 DEF SyncFails
<1>12. CASE Die
  BY <1>1, <1>12 DEF Die
<1>13. CASE RotateSecret
  BY <1>1, <1>13 DEF RotateSecret
<1>14. CASE StartFails
  BY <1>1, <1>14 DEF StartFails
<1>15. CASE Start
  BY <1>1, <1>15 DEF Start
<1>16. CASE UNCHANGED vars
  BY <1>1, <1>16 DEF vars
<1>17. CASE PowerLoss
  <2>1. durable' = {dir'} /\ pc' = "down" /\ dir' \in durable
    BY <1>17 DEF PowerLoss
  <2> QED BY <1>1, <2>1
<1>18. CASE StartUnread
  <2>1. pc' = "idle" /\ durable' = durable \cup {dir'} /\ dir'.wal = None
    BY <1>18 DEF StartUnread
  <2> QED BY <1>1, <2>1
<1> QED
  BY <1>2, <1>3, <1>4, <1>5, <1>6, <1>7, <1>8, <1>9, <1>10, <1>11, <1>12,
     <1>13, <1>14, <1>15, <1>16, <1>17, <1>18 DEF Next

\* What a restart would load depends on the named files alone.
LEMMA SameRecovered ==
  ASSUME NEW c, NEW e, NEW d, NEW f,
         LoadOf(c, d.wal) = LoadOf(e, f.wal),
         LoadOf(c, d.main) = LoadOf(e, f.main)
  PROVE  RecoveredOf(d, c) = RecoveredOf(f, e)
  BY DEF RecoveredOf

LEMMA RecoveredNext == Recovered' = RecoveredOf(dir', cache')
  BY DEF Recovered, RecoveredOf, WalWins, Newer, Load, LoadOf

LEMMA RecoveredKept ==
  ASSUME UNCHANGED <<cache, dir>>
  PROVE  Recovered' = Recovered
  BY RecoveredIs, RecoveredNext

\* A torn tmp file changes nothing, nor does its creation.
LEMMA TornWal ==
  ASSUME NEW c, NEW d, LoadOf(c, d.wal) = Torn
  PROVE  RecoveredOf(d, c) = IF LoadOf(c, d.main) = Torn THEN EmptyScope
                             ELSE LoadOf(c, d.main)
  BY DEF RecoveredOf

LEMMA OpenRecovers ==
  ASSUME TypeOK, Files, OpenTmp, dir.wal = None
  PROVE  /\ Recovered' = Recovered
         /\ dir'.wal = Fresh /\ dir'.main = dir.main
         /\ Fresh \in Inode /\ Fresh # None
         /\ \A d \in durable : d.main # Fresh /\ d.wal # Fresh
         /\ cache'[Fresh] = Torn /\ disk'[Fresh] = Torn
         /\ \A i \in Inode \ {Fresh} :
               cache'[i] = cache[i] /\ disk'[i] = disk[i]
         /\ durable' = durable \cup {dir'}
<1>1. /\ Fresh \in Inode /\ Fresh # None
      /\ \A d \in durable \cup {dir} : d.main # Fresh /\ d.wal # Fresh
  BY FreshIs DEF OpenTmp
<1>2. /\ cache' = [cache EXCEPT ![Fresh] = Torn]
      /\ disk' = [disk EXCEPT ![Fresh] = Torn]
      /\ dir' = [dir EXCEPT !.wal = Fresh]
      /\ durable' = durable \cup {dir'}
  BY DEF OpenTmp, SetDir
<1>3. dir'.wal = Fresh /\ dir'.main = dir.main
  BY <1>2 DEF TypeOK, Dir
<1>4. /\ cache'[Fresh] = Torn /\ disk'[Fresh] = Torn
      /\ \A i \in Inode \ {Fresh} : cache'[i] = cache[i] /\ disk'[i] = disk[i]
  BY <1>1, <1>2 DEF TypeOK
<1>5. LoadOf(cache', dir'.wal) = Torn /\ LoadOf(cache, dir.wal) = Torn
  BY <1>1, <1>3, <1>4 DEF LoadOf
<1>6. LoadOf(cache', dir'.main) = LoadOf(cache, dir.main)
  BY <1>1, <1>3, <1>4, StepTypes DEF LoadOf
<1>7. Recovered' = Recovered
  <2>1. Recovered' = RecoveredOf(dir', cache')
    BY RecoveredNext
  <2>2. Recovered = RecoveredOf(dir, cache)
    BY RecoveredIs
  <2> QED BY <1>5, <1>6, <2>1, <2>2, SameRecovered
<1> QED BY <1>1, <1>2, <1>3, <1>4, <1>7

\* A whole tmp file with a later number than the state file wins.
LEMMA LaterWalWins ==
  ASSUME NEW c, NEW d, NEW s \in Scope, LoadOf(c, d.wal) = s,
         NEW r, LoadOf(c, d.main) # Torn => LoadOf(c, d.main) = r,
         s.seq > r.seq
  PROVE  RecoveredOf(d, c) = s
  BY TornIsNoScope DEF RecoveredOf

LEMMA WriteRecovers ==
  ASSUME TypeOK, Files, Saves, WriteTmp
  PROVE  /\ Recovered' = mem /\ mem' = mem
         /\ dir.wal \in Inode /\ cache'[dir.wal] = mem
         /\ \A i \in Inode \ {dir.wal} : cache'[i] = cache[i]
         /\ UNCHANGED <<disk, dir, durable>>
         /\ cache[dir.wal] = Torn /\ mem.seq = Recovered.seq + 1
<1>1. /\ dir.wal \in Inode /\ cache[dir.wal] = Torn
      /\ mem.seq = Recovered.seq + 1
      /\ dir.main # None => dir.main # dir.wal
      /\ mem \in Scope /\ mem' = mem
      /\ UNCHANGED <<disk, dir, durable>>
  BY StepTypes DEF Files, Saves, WriteTmp, TypeOK
<1>2. cache'[dir.wal] = mem /\ \A i \in Inode \ {dir.wal} : cache'[i] = cache[i]
  BY <1>1 DEF WriteTmp, TypeOK
<1>3. /\ LoadOf(cache', dir'.wal) = mem /\ LoadOf(cache, dir.wal) = Torn
      /\ LoadOf(cache', dir'.main) = LoadOf(cache, dir.main)
  BY <1>1, <1>2, StepTypes, TornIsNoScope DEF LoadOf
<1>4. LoadOf(cache, dir.main) # Torn => LoadOf(cache, dir.main) = Recovered
  BY <1>3, TornWal, RecoveredIs
<1>5. mem.seq > Recovered.seq
  BY <1>1, StepTypes, RecoveredType, Bounds DEF Scope
<1>6. RecoveredOf(dir', cache') = mem
  BY <1>1, <1>3, <1>4, <1>5, LaterWalWins
<1> QED BY <1>1, <1>2, <1>6, RecoveredNext

LEMMA RenameRecovers ==
  ASSUME TypeOK, Files, Rename
  PROVE  /\ Recovered' = mem /\ mem' = mem
         /\ dir.wal \in Inode /\ cache[dir.wal] = mem
         /\ dir' = [main |-> dir.wal, wal |-> None]
         /\ UNCHANGED <<cache, disk>> /\ durable' = durable \cup {dir'}
<1>1. /\ dir.wal \in Inode /\ cache[dir.wal] = mem /\ mem \in Scope
      /\ dir' = [main |-> dir.wal, wal |-> None]
      /\ UNCHANGED <<cache, disk, mem>> /\ durable' = durable \cup {dir'}
  BY StepTypes DEF Files, Rename, SetDir, TypeOK
<1>2. LoadOf(cache', dir'.wal) = Torn /\ LoadOf(cache', dir'.main) = mem
  BY <1>1, TornIsNoScope DEF LoadOf
<1>3. RecoveredOf(dir', cache') = mem
  BY <1>1, <1>2, TornWal, TornIsNoScope
<1> QED BY <1>1, <1>3, RecoveredNext

\* A start changes nothing about what the next one would load.
LEMMA CommitRecovers ==
  ASSUME NEW c, NEW d,
         NEW e, e = [main |-> IF /\ LoadOf(c, d.wal) # Torn
                                 /\ \/ LoadOf(c, d.main) = Torn
                                    \/ LoadOf(c, d.wal).seq
                                         > LoadOf(c, d.main).seq
                              THEN d.wal ELSE d.main,
                     wal |-> None]
  PROVE  RecoveredOf(e, c) = RecoveredOf(d, c)
<1>1. LoadOf(c, e.wal) = Torn
  BY DEF LoadOf
<1>2. RecoveredOf(e, c) = IF LoadOf(c, e.main) = Torn THEN EmptyScope
                          ELSE LoadOf(c, e.main)
  BY <1>1, TornWal
<1> QED BY <1>2 DEF RecoveredOf

LEMMA StartRecovers ==
  ASSUME Start
  PROVE  /\ Recovered' = Recovered /\ mem' = Recovered /\ dir'.wal = None
         /\ RecoveredOf(dir', cache) = RecoveredOf(dir, cache)
         /\ UNCHANGED <<cache, disk>> /\ durable' = durable \cup {dir'}
<1>1. /\ dir' = [main |-> IF WalWins THEN dir.wal ELSE dir.main, wal |-> None]
      /\ UNCHANGED <<cache, disk>> /\ mem' = Recovered
      /\ durable' = durable \cup {dir'}
  BY DEF Start, SetDir
<1>2. WalWins <=> /\ LoadOf(cache, dir.wal) # Torn
                  /\ \/ LoadOf(cache, dir.main) = Torn
                     \/ LoadOf(cache, dir.wal).seq > LoadOf(cache, dir.main).seq
  BY DEF WalWins, Newer, Load, LoadOf
<1>3. RecoveredOf(dir', cache) = RecoveredOf(dir, cache)
  BY <1>1, <1>2, CommitRecovers
<1> QED BY <1>1, <1>3, RecoveredIs, RecoveredNext

-----------------------------------------------------------------------------
\* What the scope in memory has to do with the one on file.

LEMMA FaultKinds ==
  ASSUME TypeOK
  PROVE  /\ IOError => ~Calm'
         /\ RotateSecret => ~Calm'
         /\ Die => /\ Calm' => Calm
                   /\ ~Undying'
                   /\ OneKindOfCrash' => OneKindOfCrash
         /\ PowerLoss => /\ Calm' => Calm
                         /\ OneKindOfCrash' => Undying /\ OneKindOfCrash
                         /\ Undying' => Undying
         /\ faults' = faults => /\ Calm' <=> Calm
                                /\ Undying' <=> Undying
                                /\ OneKindOfCrash' <=> OneKindOfCrash
<1>1. /\ faults \in [death : 0 .. MaxDeaths, power : 0 .. MaxPowerLoss,
                     error : 0 .. MaxErrors, rotation : 0 .. MaxRotations]
      /\ faults.death \in Nat /\ faults.power \in Nat
      /\ faults.error \in Nat /\ faults.rotation \in Nat
  BY Bounds DEF TypeOK
<1> USE DEF Calm, Undying, OneKindOfCrash
<1>2. CASE IOError
  <2>1. faults'.error = faults.error + 1
    BY <1>1, <1>2 DEF IOError
  <2>2. ~Calm'
    BY <2>1, <1>1
  <2>3. ~RotateSecret /\ ~Die /\ ~PowerLoss /\ faults' # faults
    BY <2>1, <1>1 DEF RotateSecret, Die, PowerLoss
  <2> QED BY <2>2, <2>3
<1>3. CASE RotateSecret
  <2>1. faults'.rotation = faults.rotation + 1
    BY <1>1, <1>3 DEF RotateSecret
  <2>2. ~Calm'
    BY <2>1, <1>1
  <2>3. ~Die /\ ~PowerLoss /\ faults' # faults
    BY <2>1, <1>1 DEF Die, PowerLoss
  <2> QED BY <2>2, <2>3
<1>4. CASE Die
  <2>1. faults' = [faults EXCEPT !.death = @ + 1]
    BY <1>4 DEF Die
  <2>2. /\ faults'.death = faults.death + 1 /\ faults'.power = faults.power
        /\ faults'.error = faults.error /\ faults'.rotation = faults.rotation
    BY <2>1, <1>1
  <2>3. /\ Calm' => Calm
        /\ ~Undying'
        /\ OneKindOfCrash' => OneKindOfCrash
    BY <2>2, <1>1
  <2>4. ~IOError /\ ~RotateSecret /\ ~PowerLoss /\ faults' # faults
    BY <2>2, <1>1 DEF IOError, RotateSecret, PowerLoss
  <2> QED BY <2>3, <2>4
<1>5. CASE PowerLoss
  <2>1. faults' = [faults EXCEPT !.power = @ + 1]
    BY <1>5 DEF PowerLoss
  <2>2. /\ faults'.power = faults.power + 1 /\ faults'.death = faults.death
        /\ faults'.error = faults.error /\ faults'.rotation = faults.rotation
    BY <2>1, <1>1
  <2>3. /\ Calm' => Calm
        /\ OneKindOfCrash' => Undying /\ OneKindOfCrash
        /\ Undying' => Undying
    BY <2>2, <1>1
  <2>4. ~IOError /\ ~RotateSecret /\ ~Die /\ faults' # faults
    BY <2>2, <1>1 DEF IOError, RotateSecret, Die
  <2> QED BY <2>3, <2>4
<1>6. CASE faults' = faults
  <2>1. ~IOError /\ ~RotateSecret /\ ~Die /\ ~PowerLoss
    BY <1>1, <1>6 DEF IOError, RotateSecret, Die, PowerLoss
  <2> QED BY <2>1, <1>6
<1> QED BY <1>2, <1>3, <1>4, <1>5, <1>6

LEMMA SavesInit == Init => Saves
  BY DEF Init, Saves, Recovered, WalWins, Newer, Load, EmptyScope

LEMMA SavesStep == IInv /\ [Next]_vars => (Calm' => Saves')
<1> SUFFICES ASSUME IInv, [Next]_vars, Calm' PROVE Saves'
  OBVIOUS
<1>1. TypeOK /\ Files /\ ~IOError /\ ~RotateSecret
  BY FaultKinds DEF IInv
<1>2. Saves
  <2>1. Die \/ PowerLoss \/ faults' = faults
    BY <1>1 DEF Next, vars, GetActivePaths, RestrictMismatch, RestrictPaths,
       OpenTmp, WriteTmp, FsyncTmp, Rename, SyncDir, Notify, SaveFails,
       SyncFails, Start, StartFails, StartUnread
  <2> QED BY <2>1, <1>1, FaultKinds DEF IInv
<1> USE DEF Goto, files, replies, Saves
<1>3. ASSUME NEW a \in Agent, GetActivePaths(a) \/ RestrictMismatch(a)
      PROVE  Saves'
  BY <1>2, <1>3, RecoveredKept DEF GetActivePaths, RestrictMismatch
<1>4. ASSUME NEW a \in Agent, NEW P \in SUBSET Path, NEW expected,
             RestrictPaths(a, P, expected)
      PROVE  Saves'
  <2>1. Recovered' = Recovered /\ mem'.seq = mem.seq + 1
    BY <1>4, RecoveredKept DEF RestrictPaths
  <2> QED BY <1>2, <1>4, <2>1 DEF RestrictPaths
<1>5. CASE Notify
  <2>1. Recovered = mem
    <3>1. /\ LoadOf(cache, dir.wal) = Torn /\ LoadOf(cache, dir.main) = mem
          /\ mem # Torn
      BY <1>1, <1>5, TornIsNoScope DEF Notify, Files, LoadOf, TypeOK
    <3> QED BY <3>1, TornWal, RecoveredIs
  <2> QED BY <1>1, <1>5, <2>1, RecoveredKept DEF Notify, Files
<1>6. CASE OpenTmp
  <2>1. dir.wal = None
    BY <1>2, <1>6 DEF OpenTmp
  <2>2. Recovered' = Recovered /\ cache'[dir'.wal] = Torn
    BY <1>1, <1>6, <2>1, OpenRecovers
  <2> QED BY <1>2, <1>6, <2>2 DEF OpenTmp
<1>7. CASE WriteTmp
  <2>1. Recovered' = mem /\ mem' = mem
    BY <1>1, <1>2, <1>7, WriteRecovers
  <2> QED BY <1>7, <2>1 DEF WriteTmp
<1>8. CASE FsyncTmp
  BY <1>2, <1>8, RecoveredKept DEF FsyncTmp
<1>9. CASE Rename
  BY <1>9 DEF Rename
<1>10. CASE SyncDir
  BY <1>10 DEF SyncDir
<1>11. CASE Die \/ PowerLoss
  BY <1>11 DEF Die, PowerLoss
<1>12. CASE Start
  <2>1. Recovered' = Recovered /\ mem' = Recovered /\ dir'.wal = None
    BY <1>12, StartRecovers
  <2> QED BY <1>12, <2>1 DEF Start
<1>13. CASE UNCHANGED vars
  <2>1. Recovered' = Recovered
    BY <1>13, RecoveredKept DEF vars
  <2> QED BY <1>2, <1>13, <2>1 DEF vars
<1> QED
  BY <1>1, <1>3, <1>4, <1>5, <1>6, <1>7, <1>8, <1>9, <1>10, <1>11, <1>12,
     <1>13 DEF Next, SaveFails, SyncFails, StartFails,
     StartUnread

-----------------------------------------------------------------------------
\* What the callers have seen.

LEMMA SeenInit == Init => Seen
  BY DEF Init, Seen, Ahead, AheadOf, Recovered, WalWins, Newer, Load, EmptyScope

\* A reply with scope mem, or a refusal with its number, keeps S ahead.
LEMMA AheadReplied ==
  ASSUME TypeOK, NEW STATE S, S \in Scope, NEW a \in Agent, Ahead(S), mem = S,
         view' = view \/ view' = [view EXCEPT ![a] = mem],
         observed' = Later(mem.seq, observed)
  PROVE  AheadOf(observed', view', S)
<1>1. S.seq \in Nat /\ observed \in Nat
  BY Bounds DEF TypeOK, Scope
<1>2. observed' <= S.seq
  BY <1>1, LaterIs DEF Ahead, AheadOf
<1>3. \A b \in Agent : view'[b] = view[b] \/ view'[b] = S
  BY DEF TypeOK
<1> QED BY <1>1, <1>2, <1>3 DEF Ahead, AheadOf

LEMMA BeyondIsAhead ==
  ASSUME TypeOK, NEW STATE S, S \in Scope, Beyond(S)
  PROVE  Ahead(S)
<1>1. S.seq \in Nat /\ observed \in Nat /\ \A a \in Agent : view[a].seq \in Nat
  BY Bounds DEF TypeOK, Scope
<1> QED BY <1>1 DEF Beyond, Ahead, AheadOf

LEMMA NotifyRecovers ==
  ASSUME TypeOK, Files, pc = "notify"
  PROVE  Recovered = mem
<1>1. LoadOf(cache, dir.wal) = Torn /\ LoadOf(cache, dir.main) = mem
      /\ mem # Torn
  BY TornIsNoScope DEF Files, LoadOf, TypeOK
<1> QED BY <1>1, TornWal, RecoveredIs

\* A loss of power leaves one of the contents and of the directories.
LEMMA PowerLeaves ==
  ASSUME TypeOK, PowerLoss
  PROVE  /\ cache' \in Contents /\ dir' \in durable /\ durable' = {dir'}
         /\ disk' = cache' /\ pc' = "down"
         /\ UNCHANGED <<mem, runner, caller, view, observed>>
<1>1. PICK new \in SUBSET Unsynced, torn \in SUBSET Unsynced :
         cache' = [i \in Inode |-> IF i \in torn THEN Torn
                                 ELSE IF i \in new THEN cache[i] ELSE disk[i]]
  BY DEF PowerLoss
<1>2. \A i \in Inode : \/ cache'[i] = cache[i]
                       \/ /\ cache[i] # disk[i]
                          /\ cache'[i] \in {disk[i], Torn}
  BY <1>1 DEF Unsynced
<1>3. cache' \in [Inode -> Scope \cup {Torn}]
  BY <1>1 DEF TypeOK
<1> QED BY <1>2, <1>3 DEF Contents, ContentsOf, PowerLoss, Goto, replies

\* What the calm steps are, and that they find the invariant.
LEMMA CalmSteps ==
  ASSUME IInv, [Next]_vars, OneKindOfCrash'
  PROVE  /\ TypeOK /\ Files /\ Saves /\ Seen
         /\ ~IOError /\ ~RotateSecret
         /\ PowerLoss => Spread
<1>1. TypeOK /\ Calm' /\ ~IOError /\ ~RotateSecret
  BY FaultKinds DEF IInv, OneKindOfCrash, Calm
<1>2. Die \/ PowerLoss \/ faults' = faults
  BY <1>1 DEF Next, vars, GetActivePaths, RestrictMismatch, RestrictPaths,
     OpenTmp, WriteTmp, FsyncTmp, Rename, SyncDir, Notify, SaveFails,
     SyncFails, Start, StartFails, StartUnread
<1>3. Calm /\ OneKindOfCrash
  BY <1>1, <1>2, FaultKinds
<1>4. PowerLoss => Undying
  BY <1>1, FaultKinds
<1> QED BY <1>1, <1>3, <1>4 DEF IInv

LEMMA SeenStep == IInv /\ [Next]_vars => (OneKindOfCrash' => Seen')
<1> SUFFICES ASSUME IInv, [Next]_vars, OneKindOfCrash' PROVE Seen'
  OBVIOUS
<1>1. /\ TypeOK /\ Files /\ Saves /\ Seen
      /\ ~IOError /\ ~RotateSecret
      /\ PowerLoss => Spread
  BY CalmSteps
<1>2. Recovered \in Scope /\ mem \in Scope /\ caller \in Agent
  BY <1>1, RecoveredType DEF TypeOK
<1>3. Seen' <=> /\ AheadOf(observed', view', Recovered')
                /\ pc' \notin {"idle", "down"} =>
                      /\ observed' < mem'.seq
                      /\ \A a \in Agent : view'[a].seq < mem'.seq
  BY DEF Seen, Ahead, Beyond
<1>4. /\ AheadOf(observed, view, Recovered)
      /\ pc \notin {"idle", "down"} =>
            /\ AheadOf(observed, view, mem)
            /\ observed < mem.seq
            /\ \A a \in Agent : view[a].seq < mem.seq
  BY <1>1, <1>2, BeyondIsAhead DEF Seen, Ahead, Beyond
<1> USE DEF Goto, files, replies
<1>5. ASSUME NEW a \in Agent, GetActivePaths(a) \/ RestrictMismatch(a)
      PROVE  Seen'
  <2>1. Recovered' = Recovered /\ mem = Recovered /\ pc' = "idle"
    BY <1>1, <1>5, RecoveredKept DEF GetActivePaths, RestrictMismatch, Saves
  <2>2. /\ view' = view \/ view' = [view EXCEPT ![a] = mem]
        /\ observed' = Later(mem.seq, observed)
    BY <1>5 DEF GetActivePaths, RestrictMismatch
  <2>3. AheadOf(observed', view', Recovered)
    BY <1>1, <1>2, <2>1, <2>2, AheadReplied DEF Seen
  <2> QED BY <1>3, <2>1, <2>3
<1>6. ASSUME NEW a \in Agent, NEW P \in SUBSET Path, NEW expected,
             RestrictPaths(a, P, expected)
      PROVE  Seen'
  <2>1. /\ Recovered' = Recovered /\ mem = Recovered
        /\ mem'.seq = mem.seq + 1
        /\ observed' = observed /\ view' = view
    BY <1>1, <1>6, RecoveredKept DEF RestrictPaths, Saves
  <2>2. /\ mem.seq \in Nat /\ observed \in Nat
        /\ \A b \in Agent : view[b].seq \in Nat
    BY <1>1, Bounds DEF TypeOK, Scope
  <2>3. observed < mem'.seq /\ \A b \in Agent : view[b].seq < mem'.seq
    BY <2>1, <2>2, <1>4 DEF AheadOf
  <2> QED BY <1>3, <1>4, <2>1, <2>3
<1>7. CASE Notify
  <2>1. Recovered' = Recovered /\ Recovered = mem /\ pc' = "idle"
    BY <1>1, <1>7, RecoveredKept, NotifyRecovers DEF Notify
  <2>2. /\ view' = [view EXCEPT ![caller] = mem]
        /\ observed' = Later(mem.seq, observed)
    BY <1>7 DEF Notify
  <2>3. PICK b \in Agent : b = caller
    BY <1>2
  <2>4. AheadOf(observed', view', Recovered)
    BY <1>1, <1>2, <2>1, <2>2, <2>3, AheadReplied DEF Seen
  <2> QED BY <1>3, <2>1, <2>4
<1>8. CASE OpenTmp
  <2>1. dir.wal = None
    BY <1>1, <1>8 DEF OpenTmp, Saves
  <2>2. Recovered' = Recovered
    BY <1>1, <1>8, <2>1, OpenRecovers
  <2> QED BY <1>3, <1>4, <1>8, <2>2 DEF OpenTmp
<1>9. CASE WriteTmp
  <2>1. Recovered' = mem /\ mem' = mem
    BY <1>1, <1>9, WriteRecovers
  <2> QED BY <1>3, <1>4, <1>9, <2>1 DEF WriteTmp
<1>10. CASE FsyncTmp
  BY <1>3, <1>4, <1>10, RecoveredKept DEF FsyncTmp
<1>11. CASE Rename
  <2>1. Recovered' = mem /\ mem' = mem
    BY <1>1, <1>11, RenameRecovers
  <2> QED BY <1>3, <1>4, <1>11, <2>1 DEF Rename
<1>12. CASE SyncDir
  BY <1>3, <1>4, <1>12, RecoveredKept DEF SyncDir
<1>13. CASE Die
  BY <1>3, <1>4, <1>13, RecoveredKept DEF Die
<1>14. CASE PowerLoss
  <2>1. /\ cache' \in Contents /\ dir' \in durable /\ pc' = "down"
        /\ observed' = observed /\ view' = view
    BY <1>1, <1>14, PowerLeaves
  <2>2. AheadOf(observed, view, RecoveredOf(dir', cache'))
    BY <1>1, <1>14, <2>1 DEF Spread, Ahead
  <2> QED BY <1>3, <2>1, <2>2, RecoveredNext
<1>15. CASE Start
  <2>1. Recovered' = Recovered
    BY <1>15, StartRecovers
  <2> QED BY <1>3, <1>4, <1>15, <2>1 DEF Start
<1>16. CASE UNCHANGED vars
  BY <1>3, <1>4, <1>16, RecoveredKept DEF vars
<1> QED
  BY <1>1, <1>5, <1>6, <1>7, <1>8, <1>9, <1>10, <1>11, <1>12, <1>13, <1>14,
     <1>15, <1>16 DEF Next, SaveFails, SyncFails, StartFails,
     StartUnread

-----------------------------------------------------------------------------
\* What a loss of power may leave.

LEMMA OutcomesInit == Init => Spread /\ Settled /\ Synced
<1> SUFFICES ASSUME Init PROVE Spread /\ Settled /\ Synced
  OBVIOUS
<1>1. \A c : \A d \in durable : RecoveredOf(d, c) = EmptyScope
  BY TornWal DEF Init, LoadOf
<1>2. Recovered = EmptyScope
  BY <1>1, RecoveredIs DEF Init
<1>3. Seen
  BY SeenInit
<1> QED BY <1>1, <1>2, <1>3 DEF Init, Spread, Settled, Synced, Seen

\* Contents that differ in one inode at most are the same for a directory that
\* does not name it.
LEMMA OtherInode ==
  ASSUME TypeOK, NEW i \in Inode,
         \A j \in Inode \ {i} : cache'[j] = cache[j] /\ disk'[j] = disk[j],
         NEW c \in ContentsOf(cache', disk')
  PROVE  LET e == [c EXCEPT ![i] = cache[i]]
         IN  /\ e \in Contents /\ e[i] = cache[i]
             /\ \A j \in Inode \ {i} : e[j] = c[j]
             /\ \A d : d.main # i /\ d.wal # i /\ d \in Dir =>
                   RecoveredOf(d, e) = RecoveredOf(d, c)
<1> DEFINE e == [c EXCEPT ![i] = cache[i]]
<1>1. /\ c \in [Inode -> Scope \cup {Torn}]
      /\ cache \in [Inode -> Scope \cup {Torn}]
  BY DEF ContentsOf, TypeOK
<1>2. /\ e \in [Inode -> Scope \cup {Torn}] /\ e[i] = cache[i]
      /\ \A j \in Inode \ {i} : e[j] = c[j]
  BY <1>1
<1> HIDE DEF e
<1>3. e \in Contents
  BY <1>2 DEF Contents, ContentsOf
<1>4. \A d : d.main # i /\ d.wal # i /\ d \in Dir =>
         RecoveredOf(d, e) = RecoveredOf(d, c)
  <2> SUFFICES ASSUME NEW d \in Dir, d.main # i, d.wal # i
               PROVE  RecoveredOf(d, e) = RecoveredOf(d, c)
    OBVIOUS
  <2>1. /\ LoadOf(e, d.wal) = LoadOf(c, d.wal)
        /\ LoadOf(e, d.main) = LoadOf(c, d.main)
    BY <1>2 DEF LoadOf, Dir
  <2> QED BY <2>1, SameRecovered
<1> QED BY <1>2, <1>3, <1>4 DEF e

\* Synced files come back as they are.
LEMMA SyncedContents ==
  ASSUME NEW ca, NEW di, NEW c \in ContentsOf(ca, di)
  PROVE  /\ \A i \in Inode : ca[i] = di[i] => c[i] = ca[i]
         /\ ca = di /\ ca \in [Inode -> Scope \cup {Torn}] => c = ca
<1>1. \A i \in Inode : ca[i] = di[i] => c[i] = ca[i]
  BY DEF ContentsOf
<1>2. c \in [Inode -> Scope \cup {Torn}]
  BY DEF ContentsOf
<1> QED BY <1>1, <1>2

LEMMA WriteSpreads ==
  ASSUME TypeOK, Files, Saves, Seen, Spread, Settled, Synced, WriteTmp
  PROVE  Spread'
<1> DEFINE w == dir.wal
<1>1. /\ w \in Inode /\ cache'[w] = mem /\ cache[w] = Torn /\ disk[w] = Torn
      /\ \A i \in Inode \ {w} : cache'[i] = cache[i]
      /\ UNCHANGED <<disk, dir, durable, observed, view>>
      /\ mem.seq = Recovered.seq + 1 /\ pc = "write"
  BY WriteRecovers DEF WriteTmp, Synced, replies
<1>2. Ahead(mem) /\ mem \in Scope
  BY <1>1, BeyondIsAhead DEF Seen, TypeOK
<1>3. ASSUME NEW d \in durable, NEW c \in ContentsOf(cache', disk')
      PROVE  Ahead(RecoveredOf(d, c))
  <2> DEFINE e == [c EXCEPT ![w] = cache[w]]
  <2>1. /\ e \in Contents /\ e[w] = Torn
        /\ \A j \in Inode \ {w} : e[j] = c[j]
        /\ d.main # w /\ d.wal # w => RecoveredOf(d, e) = RecoveredOf(d, c)
        /\ d \in Dir
    BY <1>1, <1>3, OtherInode DEF TypeOK
  <2>2. RecoveredOf(d, e) = Recovered /\ Ahead(RecoveredOf(d, e))
        /\ d.main # w /\ (d.wal = w => d.main = dir.main)
    BY <1>1, <2>1 DEF Spread, Settled, Synced
  <2> HIDE DEF e
  <2>3. CASE d.wal # w
    BY <2>1, <2>2, <2>3
  <2>4. CASE d.wal = w
    <3>1. c[w] = Torn \/ c[w] = mem
      BY <1>1, <1>3 DEF ContentsOf
    <3>2. /\ LoadOf(c, d.wal) = c[w] /\ LoadOf(e, d.wal) = Torn
          /\ LoadOf(c, d.main) = LoadOf(e, d.main)
      BY <1>1, <2>1, <2>2, <2>4, TornIsNoScope DEF LoadOf, Dir
    <3>3. CASE c[w] = Torn
      <4>1. RecoveredOf(d, c) = RecoveredOf(d, e)
        BY <3>2, <3>3, SameRecovered
      <4> QED BY <4>1, <2>2
    <3>4. CASE c[w] = mem
      <4>1. LoadOf(c, d.main) # Torn => LoadOf(c, d.main) = Recovered
        BY <3>2, <2>2, TornWal
      <4>2. mem.seq > Recovered.seq
        BY <1>1, RecoveredType, Bounds DEF Scope
      <4>3. RecoveredOf(d, c) = mem
        BY <1>2, <3>2, <3>4, <4>1, <4>2, LaterWalWins
      <4> QED BY <4>3, <1>2
    <3> QED BY <3>1, <3>3, <3>4
  <2> QED BY <2>3, <2>4
<1> QED BY <1>1, <1>3 DEF Spread, Contents, Ahead

LEMMA OpenSettles ==
  ASSUME TypeOK, Files, Saves, Settled, OpenTmp
  PROVE  Settled' /\ Synced'
<1>1. dir.wal = None /\ pc = "open" /\ pc' = "write"
  BY DEF OpenTmp, Saves, Goto
<1>2. /\ Recovered' = Recovered
      /\ dir'.wal = Fresh /\ dir'.main = dir.main
      /\ Fresh \in Inode /\ Fresh # None
      /\ \A d \in durable : d.main # Fresh /\ d.wal # Fresh
      /\ cache'[Fresh] = Torn /\ disk'[Fresh] = Torn
      /\ \A i \in Inode \ {Fresh} : cache'[i] = cache[i] /\ disk'[i] = disk[i]
      /\ durable' = durable \cup {dir'}
  BY <1>1, OpenRecovers
<1>3. ASSUME NEW d \in durable', NEW c \in ContentsOf(cache', disk')
      PROVE  RecoveredOf(d, c) = Recovered
  <2> DEFINE e == [c EXCEPT ![Fresh] = cache[Fresh]]
  <2>1. /\ e \in Contents
        /\ \A j \in Inode \ {Fresh} : e[j] = c[j]
        /\ \A f \in durable : RecoveredOf(f, e) = RecoveredOf(f, c)
    <3>1. /\ e \in Contents
          /\ \A j \in Inode \ {Fresh} : e[j] = c[j]
          /\ \A f : f.main # Fresh /\ f.wal # Fresh /\ f \in Dir =>
                RecoveredOf(f, e) = RecoveredOf(f, c)
      <4>1. \A j \in Inode \ {Fresh} :
               cache'[j] = cache[j] /\ disk'[j] = disk[j]
        BY <1>2
      <4>2. Fresh \in Inode
        BY <1>2
      <4> QED BY <1>3, <4>1, <4>2, OtherInode
    <3> HIDE DEF e
    <3>2. ASSUME NEW f \in durable PROVE RecoveredOf(f, e) = RecoveredOf(f, c)
      BY <1>2, <3>1, <3>2 DEF TypeOK
    <3> QED BY <3>1, <3>2
  <2>2. \A f \in durable : RecoveredOf(f, e) = Recovered
    BY <1>1, <2>1 DEF Settled
  <2>3. dir \in durable /\ dir \in Dir
    BY DEF Files, TypeOK
  <2> HIDE DEF e
  <2>4. CASE d = dir'
    <3>1. c[Fresh] = Torn
      BY <1>2, <1>3, SyncedContents
    <3>2. LoadOf(c, d.wal) = Torn /\ LoadOf(c, dir.wal) = Torn
          /\ LoadOf(c, d.main) = LoadOf(c, dir.main)
      BY <1>1, <1>2, <2>4, <3>1 DEF LoadOf
    <3>3. RecoveredOf(d, c) = RecoveredOf(dir, c)
      BY <3>2, SameRecovered
    <3> QED BY <3>3, <2>1, <2>2, <2>3
  <2> QED BY <1>2, <2>1, <2>2, <2>4
<1>4. Settled'
  BY <1>2, <1>3 DEF Settled, Contents
<1>5. Synced'
  <2>1. dir \in durable
    BY DEF Files
  <2>2. \A d \in durable' : /\ d.main # dir'.wal
                            /\ d.wal = dir'.wal => d.main = dir'.main
    BY <1>2, <2>1
  <2>3. disk'[dir'.wal] = Torn
    BY <1>2
  <2> QED BY <1>1, <2>2, <2>3 DEF Synced
<1> QED BY <1>4, <1>5

LEMMA SpreadFromSeen ==
  ASSUME Seen', Settled', pc' \in {"idle", "open", "write"}
  PROVE  Spread'
  BY DEF Seen, Settled, Spread

\* No error and no death: what the steps are, and that they find the
\* invariant.
LEMMA UndyingSteps ==
  ASSUME IInv, [Next]_vars, Undying'
  PROVE  /\ TypeOK /\ Files /\ Saves /\ Seen
         /\ Spread /\ Settled /\ Synced /\ Seen'
         /\ ~IOError /\ ~RotateSecret /\ ~Die
<1>1. OneKindOfCrash' /\ TypeOK
  BY DEF Undying, Calm, OneKindOfCrash, IInv
<1>2. ~IOError /\ ~RotateSecret /\ ~Die
  BY <1>1, FaultKinds DEF Undying
<1>3. PowerLoss \/ faults' = faults
  BY <1>2 DEF Next, vars, GetActivePaths, RestrictMismatch, RestrictPaths,
     OpenTmp, WriteTmp, FsyncTmp, Rename, SyncDir, Notify, SaveFails,
     SyncFails, Start, StartFails, StartUnread
<1>4. Undying
  BY <1>1, <1>3, FaultKinds
<1> QED BY <1>1, <1>2, <1>4, CalmSteps, SeenStep DEF IInv

LEMMA OutcomesStep ==
  IInv /\ [Next]_vars => (Undying' => (Spread /\ Settled /\ Synced)')
<1> SUFFICES ASSUME IInv, [Next]_vars, Undying'
             PROVE  (Spread /\ Settled /\ Synced)'
  OBVIOUS
<1>1. /\ TypeOK /\ Files /\ Saves /\ Seen
      /\ Spread /\ Settled /\ Synced /\ Seen'
      /\ ~IOError /\ ~RotateSecret /\ ~Die
  BY UndyingSteps
<1> USE DEF Goto, files, replies
<1>2. ASSUME UNCHANGED <<cache, disk, dir, durable>>,
             pc \in {"idle", "open", "write"},
             pc' \in {"idle", "open"}
      PROVE  (Spread /\ Settled /\ Synced)'
  <2>1. Settled'
    BY <1>1, <1>2, RecoveredKept DEF Settled, Contents
  <2> QED BY <1>1, <1>2, <2>1, SpreadFromSeen DEF Synced
<1>3. ASSUME NEW a \in Agent, GetActivePaths(a) \/ RestrictMismatch(a)
      PROVE  (Spread /\ Settled /\ Synced)'
  BY <1>2, <1>3 DEF GetActivePaths, RestrictMismatch
<1>4. ASSUME NEW a \in Agent, NEW P \in SUBSET Path, NEW expected,
             RestrictPaths(a, P, expected)
      PROVE  (Spread /\ Settled /\ Synced)'
  BY <1>2, <1>4 DEF RestrictPaths
<1>5. CASE Notify
  <2>1. /\ durable = {dir} /\ dir.wal = None /\ dir.main # None
        /\ disk[dir.main] = cache[dir.main] /\ pc' = "idle"
        /\ UNCHANGED <<cache, disk, dir, durable>> /\ dir.main \in Inode
    BY <1>1, <1>5, StepTypes DEF Notify, Files, Synced
  <2>2. ASSUME NEW c \in Contents PROVE RecoveredOf(dir, c) = Recovered
    <3>1. c[dir.main] = cache[dir.main]
      BY <2>1, <2>2, SyncedContents DEF Contents
    <3>2. /\ LoadOf(c, dir.wal) = LoadOf(cache, dir.wal)
          /\ LoadOf(c, dir.main) = LoadOf(cache, dir.main)
      BY <2>1, <3>1 DEF LoadOf
    <3> QED BY <3>2, SameRecovered, RecoveredIs
  <2>3. Settled'
    BY <2>1, <2>2, RecoveredKept DEF Settled, Contents
  <2> QED BY <1>1, <2>1, <2>3, SpreadFromSeen DEF Synced
<1>6. CASE OpenTmp
  <2>1. Settled' /\ Synced'
    BY <1>1, <1>6, OpenSettles
  <2> QED BY <1>1, <1>6, <2>1, SpreadFromSeen DEF OpenTmp
<1>7. CASE WriteTmp
  <2>1. Spread'
    BY <1>1, <1>7, WriteSpreads
  <2> QED BY <1>1, <1>7, <2>1 DEF WriteTmp, Settled, Synced
<1>8. CASE FsyncTmp
  <2>1. /\ dir.wal \in Inode /\ disk'[dir.wal] = cache[dir.wal]
        /\ \A i \in Inode \ {dir.wal} : disk'[i] = disk[i]
        /\ UNCHANGED <<cache, dir, durable, observed, view>>
        /\ pc = "fsync" /\ pc' = "rename"
    BY <1>1, <1>8, StepTypes DEF FsyncTmp, Files, TypeOK
  <2>2. \A c \in ContentsOf(cache', disk') : c \in Contents
    BY <2>1 DEF Contents, ContentsOf
  <2>3. Spread'
    BY <1>1, <2>1, <2>2 DEF Spread, Ahead, Contents
  <2> QED BY <1>1, <2>1, <2>3 DEF Settled, Synced
<1>9. CASE Rename
  <2>1. /\ dir.wal \in Inode /\ cache[dir.wal] = mem /\ mem' = mem
        /\ dir' = [main |-> dir.wal, wal |-> None]
        /\ UNCHANGED <<cache, disk, observed, view>>
        /\ durable' = durable \cup {dir'}
        /\ pc = "rename" /\ pc' = "dirsync"
        /\ disk[dir.wal] = cache[dir.wal] /\ mem \in Scope
    BY <1>1, <1>9, RenameRecovers DEF Rename, Synced, TypeOK
  <2>2. Ahead(mem)
    BY <1>1, <2>1, BeyondIsAhead DEF Seen
  <2>3. ASSUME NEW c \in Contents PROVE RecoveredOf(dir', c) = mem
    <3>1. c[dir.wal] = mem
      BY <2>1, <2>3, SyncedContents DEF Contents
    <3>2. LoadOf(c, dir'.wal) = Torn /\ LoadOf(c, dir'.main) = mem
      BY <2>1, <3>1, TornIsNoScope DEF LoadOf
    <3> QED BY <2>1, <3>2, TornWal, TornIsNoScope
  <2>4. \A d \in durable', c \in Contents : Ahead(RecoveredOf(d, c))
    BY <1>1, <2>1, <2>2, <2>3 DEF Spread
  <2>5. Spread'
    BY <2>1, <2>4 DEF Spread, Ahead, Contents
  <2> QED BY <1>1, <2>1, <2>5 DEF Settled, Synced
<1>10. CASE SyncDir
  <2>1. durable' = {dir} /\ dir \in durable
        /\ UNCHANGED <<cache, disk, dir, observed, view>>
        /\ pc = "dirsync" /\ pc' = "notify"
    BY <1>1, <1>10 DEF SyncDir, Files
  <2>2. Spread'
    BY <1>1, <2>1 DEF Spread, Ahead, Contents
  <2> QED BY <1>1, <2>1, <2>2 DEF Settled, Synced
<1>11. CASE PowerLoss
  <2>1. /\ durable' = {dir'} /\ disk' = cache' /\ pc' = "down"
        /\ cache' \in [Inode -> Scope \cup {Torn}]
    BY <1>1, <1>11, PowerLeaves DEF Contents, ContentsOf
  <2>2. \A c \in ContentsOf(cache', disk') : c = cache'
    BY <2>1, SyncedContents
  <2>3. Spread'
    <3>1. \A d \in durable', c \in ContentsOf(cache', disk') :
             RecoveredOf(d, c) = Recovered'
      BY <2>1, <2>2, RecoveredNext
    <3> QED BY <1>1, <3>1 DEF Spread, Seen, Contents
  <2> QED BY <2>1, <2>3 DEF Settled, Synced
<1>12. CASE Start
  <2>1. /\ Recovered' = Recovered /\ pc = "down" /\ pc' = "idle"
        /\ RecoveredOf(dir', cache) = RecoveredOf(dir, cache)
        /\ UNCHANGED <<cache, disk>> /\ durable' = durable \cup {dir'}
    BY <1>12, StartRecovers DEF Start
  <2>2. durable = {dir} /\ disk = cache
    BY <1>1, <2>1 DEF Synced
  <2>3. \A c \in ContentsOf(cache', disk') : c = cache
    BY <1>1, <2>1, <2>2, SyncedContents DEF TypeOK
  <2>4. \A d \in durable', c \in ContentsOf(cache', disk') :
           RecoveredOf(d, c) = Recovered'
    BY <2>1, <2>2, <2>3, RecoveredIs
  <2>5. Settled'
    BY <2>4 DEF Settled, Contents
  <2> QED BY <1>1, <2>1, <2>5, SpreadFromSeen DEF Synced
<1>13. CASE UNCHANGED vars
  <2>1. /\ UNCHANGED <<cache, disk, dir, durable, observed, view, pc>>
        /\ Recovered' = Recovered
    BY <1>13, RecoveredKept DEF vars
  <2> QED BY <1>1, <2>1 DEF Spread, Settled, Synced, Contents, Ahead
<1> QED
  BY <1>1, <1>3, <1>4, <1>5, <1>6, <1>7, <1>8, <1>9, <1>10, <1>11, <1>12,
     <1>13 DEF Next, SaveFails, SyncFails, StartFails,
     StartUnread

-----------------------------------------------------------------------------
\* The theorems.

LEMMA InvInit == Init => IInv
  BY TypeInit, FilesInit, SavesInit, SeenInit, OutcomesInit DEF IInv

LEMMA InvStep == IInv /\ [Next]_vars => IInv'
  BY TypeStep, FilesStep, SavesStep, SeenStep, OutcomesStep DEF IInv

LEMMA Invariance == Spec => []IInv
<1> QED BY InvInit, InvStep, PTL DEF Spec

\* Every variable keeps its type: the number never leaves 0 .. MaxSeq and the
\* directory names inodes only (fs/state.py, fs/tools.py).
THEOREM TypeCorrect == Spec => []TypeOK
<1>1. IInv => TypeOK
  BY DEF IInv
<1> QED BY <1>1, Invariance, PTL

\* When restrict_paths is about to reply, a restart would load the scope of
\* the reply (ScopeStateStore.set and _save), after any deaths, losses of
\* power, failed saves, syncs and starts, and changes of the secret.
THEOREM ReplySaved == Spec => []ReplyIsSaved
<1>1. IInv => ReplyIsSaved
  BY NotifyRecovers DEF IInv, ReplyIsSaved
<1> QED BY <1>1, Invariance, PTL

LEMMA CrashesFound ==
  IInv /\ OneKindOfCrash => ObservedNeverRolledBack /\ SwapSeesWhatItReplaces
<1> SUFFICES ASSUME IInv, OneKindOfCrash, pc = "idle"
             PROVE  /\ mem.seq >= observed
                    /\ \A a \in Agent : view[a].seq = mem.seq => view[a] = mem
  BY DEF ObservedNeverRolledBack, SwapSeesWhatItReplaces
<1>1. TypeOK /\ Saves /\ Seen
  BY DEF IInv, OneKindOfCrash, Calm
<1>2. Recovered = mem
  BY <1>1 DEF Saves
<1>3. mem.seq \in Nat /\ observed \in Nat
  BY <1>1, Bounds DEF TypeOK, Scope
<1> QED BY <1>1, <1>2, <1>3 DEF Seen, Ahead, AheadOf

\* With any number of deaths alone, or of losses of power alone, between any
\* two steps of a save or of a start, no number of a reply is taken back or
\* used again (ScopeStateStore._save, _load_or_default).
THEOREM CrashesSurvived == Spec => []ScopeSurvivesCrashes
<1>1. IInv => ScopeSurvivesCrashes
  BY CrashesFound DEF ScopeSurvivesCrashes
<1> QED BY <1>1, Invariance, PTL

\* Where the bounds allow one kind of crash at most and no error.
LEMMA CrashesBounded ==
  ASSUME MaxErrors = 0, MaxRotations = 0, MaxDeaths = 0 \/ MaxPowerLoss = 0
  PROVE  IInv => OneKindOfCrash
<1> SUFFICES ASSUME TypeOK PROVE OneKindOfCrash
  BY DEF IInv
<1>1. /\ faults.death \in 0 .. MaxDeaths /\ faults.power \in 0 .. MaxPowerLoss
      /\ faults.error = 0 /\ faults.rotation = 0
  BY DEF TypeOK
<1> QED BY <1>1 DEF OneKindOfCrash

\* With one kind of crash, a running instance never reports a lower number
\* than one it reported before (fs/state.py:36).
THEOREM NeverRolledBack ==
  ASSUME MaxErrors = 0, MaxRotations = 0, MaxDeaths = 0 \/ MaxPowerLoss = 0
  PROVE  Spec => []ObservedNeverRolledBack
<1>1. IInv => ObservedNeverRolledBack
  BY CrashesFound, CrashesBounded
<1> QED BY <1>1, Invariance, PTL

\* With one kind of crash, a compare-and-swap that succeeds replaces the scope
\* its caller has seen, also across restarts (fs/tools.py:95).
THEOREM SwapsAreSafe ==
  ASSUME MaxErrors = 0, MaxRotations = 0, MaxDeaths = 0 \/ MaxPowerLoss = 0
  PROVE  Spec => []SwapSeesWhatItReplaces
<1>1. IInv => SwapSeesWhatItReplaces
  BY CrashesFound, CrashesBounded
<1> QED BY <1>1, Invariance, PTL

-----------------------------------------------------------------------------
\* The two layers.  Only a save that fails comes between them: the store has
\* assigned the scope, and on_change is not reached.

LayersInv == pc = "idle" => runner = mem.paths

LEMMA LayersStep ==
  ASSUME MaxErrors = 0
  PROVE  TypeOK /\ LayersInv /\ [Next]_vars => LayersInv'
<1> SUFFICES ASSUME TypeOK, LayersInv, [Next]_vars PROVE LayersInv'
  OBVIOUS
<1>1. ~IOError
  BY DEF TypeOK, IOError
<1> USE DEF LayersInv, Goto
<1>2. ASSUME NEW a \in Agent, GetActivePaths(a) \/ RestrictMismatch(a)
      PROVE  LayersInv'
  BY <1>2 DEF GetActivePaths, RestrictMismatch
<1>3. ASSUME NEW a \in Agent, NEW P \in SUBSET Path, NEW expected,
             RestrictPaths(a, P, expected)
      PROVE  LayersInv'
  BY <1>3 DEF RestrictPaths
<1>4. CASE OpenTmp \/ WriteTmp \/ FsyncTmp \/ Rename \/ SyncDir
  BY <1>4 DEF OpenTmp, WriteTmp, FsyncTmp, Rename, SyncDir
<1>5. CASE Notify
  BY <1>5 DEF Notify
<1>6. CASE Die \/ PowerLoss \/ RotateSecret
  BY <1>6 DEF Die, PowerLoss, RotateSecret
<1>7. CASE Start
  BY <1>7 DEF Start
<1>8. CASE UNCHANGED vars
  BY <1>8 DEF vars
<1> QED
  BY <1>1, <1>2, <1>3, <1>4, <1>5, <1>6, <1>7, <1>8
  DEF Next, SaveFails, SyncFails, StartFails,
     StartUnread

\* As long as no write or rename fails, fs writes and the read-write binds of
\* a command narrow together (combined/server.py:16), through any deaths,
\* losses of power and changes of the secret.
THEOREM LayersTogether ==
  ASSUME MaxErrors = 0
  PROVE  Spec => []LayersNarrowTogether
<1>1. Init => LayersInv
  BY DEF Init, LayersInv, EmptyScope
<1>2. TypeOK /\ LayersInv /\ [Next]_vars => LayersInv'
  BY LayersStep
<1>3. LayersInv => LayersNarrowTogether
  BY DEF LayersInv, LayersNarrowTogether, FsWritable, Mounted
<1> QED BY <1>1, <1>2, <1>3, TypeCorrect, PTL DEF Spec

-----------------------------------------------------------------------------
\* The refinement.  Without errors and losses of power the register holds
\* what a restart would load, and only the write of the tmp file moves it.

Held == IF pc \in {"idle", "notify"} THEN mem ELSE Recovered

LEMMA HeldIs == IInv /\ Calm => Held = Recovered
  BY NotifyRecovers DEF IInv, Saves, Held

LEMMA RegisterInit == Init => Held = [seq |-> 0, paths |-> {}]
  BY DEF Init, Held, EmptyScope

LEMMA RegisterStep ==
  ASSUME IInv, [Next]_vars, ~IOError, ~RotateSecret, ~PowerLoss, Saves
  PROVE  \/ Recovered' = Recovered
         \/ \E P \in SUBSET Path :
               Recovered' = [seq |-> Recovered.seq + 1, paths |-> P]
<1>1. TypeOK /\ Files
  BY DEF IInv
<1> USE DEF Goto, files
<1>2. ASSUME NEW a \in Agent, GetActivePaths(a) \/ RestrictMismatch(a)
      PROVE  Recovered' = Recovered
  BY <1>2, RecoveredKept DEF GetActivePaths, RestrictMismatch
<1>3. ASSUME NEW a \in Agent, NEW P \in SUBSET Path, NEW expected,
             RestrictPaths(a, P, expected)
      PROVE  Recovered' = Recovered
  BY <1>3, RecoveredKept DEF RestrictPaths
<1>4. CASE OpenTmp
  <2>1. dir.wal = None
    BY <1>4 DEF OpenTmp, Saves
  <2> QED BY <1>1, <1>4, <2>1, OpenRecovers
<1>5. CASE WriteTmp
  <2>1. Recovered' = mem /\ mem.seq = Recovered.seq + 1
    BY <1>1, <1>5, WriteRecovers
  <2>2. mem = [seq |-> mem.seq, paths |-> mem.paths]
        /\ mem.paths \in SUBSET Path
    BY <1>1 DEF TypeOK, Scope
  <2> QED BY <2>1, <2>2
<1>6. CASE FsyncTmp \/ SyncDir \/ Notify \/ Die
  BY <1>6, RecoveredKept DEF FsyncTmp, SyncDir, Notify, Die
<1>7. CASE Rename
  <2>1. Recovered' = mem /\ pc = "rename"
    BY <1>1, <1>7, RenameRecovers DEF Rename
  <2> QED BY <2>1 DEF Saves
<1>8. CASE Start
  BY <1>8, StartRecovers
<1>9. CASE UNCHANGED vars
  BY <1>9, RecoveredKept DEF vars
<1> QED
  BY <1>2, <1>3, <1>4, <1>5, <1>6, <1>7, <1>8, <1>9
  DEF Next, SaveFails, SyncFails, StartFails,
     StartUnread

LEMMA RegisterNext ==
  ASSUME MaxPowerLoss = 0, MaxErrors = 0, MaxRotations = 0
  PROVE  IInv /\ IInv' /\ [Next]_vars =>
            \/ Held' = Held
            \/ \E P \in SUBSET Path :
                  Held' = [seq |-> Held.seq + 1, paths |-> P]
<1> SUFFICES ASSUME IInv, IInv', [Next]_vars
             PROVE  \/ Held' = Held
                    \/ \E P \in SUBSET Path :
                          Held' = [seq |-> Held.seq + 1, paths |-> P]
  OBVIOUS
<1>1. Calm /\ Calm' /\ Saves
  BY DEF IInv, TypeOK, Calm
<1>2. ~IOError /\ ~RotateSecret /\ ~PowerLoss
  BY DEF IInv, TypeOK, IOError, RotateSecret, PowerLoss
<1>3. Held = Recovered /\ Held' = Recovered'
  <2>1. (IInv /\ Calm => Held = Recovered)'
    BY HeldIs, PTL
  <2> QED BY <1>1, <2>1, HeldIs
<1> QED BY <1>1, <1>2, <1>3, RegisterStep

\* With any number of deaths, and no error and no loss of power, the store
\* with its files is a register that never forgets: a restart is invisible,
\* and a replacement takes effect at the write of the tmp file
\* (ScopeStateStore.set, _save, _load_or_default).
THEOREM StoreIsRegister ==
  ASSUME MaxPowerLoss = 0, MaxErrors = 0, MaxRotations = 0
  PROVE  Spec => ImplementsRegister
<1>1. Init => Register!Init
  BY RegisterInit DEF Register!Init, Held
<1>2. IInv /\ IInv' /\ [Next]_vars => [Register!Next]_Held
  BY RegisterNext DEF Register!Next, Register!Replace, Held
<1> QED
  BY <1>1, <1>2, Invariance, PTL
  DEF Spec, ImplementsRegister, Register!Spec, Held
=============================================================================
