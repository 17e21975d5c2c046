-------------------------- MODULE MigrationProofs --------------------------
(***************************************************************************)
(* What holds of the migration lock and of the runner inside it for every  *)
(* number of replicas, every image and every value of the timing constants. *)
(*                                                                         *)
(* The lock: TypeOK and BreaksStale are inductive without any assumption    *)
(* on time: a run about to delete the document it read found it stale, and *)
(* clocks only move forward.  Punctual adds that the refreshes of a live   *)
(* holder are never that old on anybody's clock, so the document deleted   *)
(* is never a live holder's: HolderOwns is inductive, and exclusion follows *)
(* because the document has one owner.                                     *)
(*                                                                         *)
(* The runner: with exclusion, and rollbacks that run alone, one run at a   *)
(* time is between an effect and its record, so the copy of the state it   *)
(* writes back is the state.  MigrationInv says this of every run, and what *)
(* the data then are.                                                      *)
(***************************************************************************)
EXTENDS MigrationRunner, FiniteSetTheorems, SequenceTheorems, TLAPS

USE DEF Clock, Working, Goto, Missing, Owner, Stamp, Document

(* Init establishes the types. *)
LEMMA TypeInit == Init => TypeOK
<1> USE OwnersAssumption, TimesAssumption
<1>1. -1 \in Stamp /\ 0 \in Nat
  OBVIOUS
<1> QED BY <1>1 DEF Init, TypeOK, Places, NoDocument

(* Each step keeps every variable in its set of values. *)
LEMMA TypeStep == TypeOK /\ [Next]_vars => TypeOK'
<1> SUFFICES ASSUME TypeOK, [Next]_vars PROVE TypeOK'
  OBVIOUS
<1> USE OwnersAssumption, TimesAssumption DEF TypeOK, Places, Asking, Ended
<1>1. ASSUME NEW r \in Run, Start(r) PROVE TypeOK'
  BY <1>1 DEF Start
<1>2. ASSUME NEW r \in Run, AcquireStep(r) PROVE TypeOK'
  BY <1>2 DEF AcquireStep, Acquire, AcquireUnanswered, Insert
<1>3. ASSUME NEW r \in Run, AskStep(r) PROVE TypeOK'
  <2>1. CASE Occupied(r) BY <2>1 DEF Occupied
  <2>2. CASE Look(r)     BY <2>2 DEF Look
  <2>3. CASE Judge(r)    BY <2>3 DEF Judge
  <2>4. CASE StampOld(r) BY <2>4 DEF StampOld
  <2>5. CASE Break(r)    BY <2>5 DEF Break
  <2>6. CASE Sleep(r)    BY <2>6 DEF Sleep
  <2> QED BY <1>3, <2>1, <2>2, <2>3, <2>4, <2>5, <2>6 DEF AskStep
<1>4. ASSUME NEW r \in Run, BeatStep(r) PROVE TypeOK'
  BY <1>4 DEF BeatStep, Heartbeat, MissedBeat
<1>5. ASSUME NEW r \in Run, Release(r) PROVE TypeOK'
  BY <1>5 DEF Release
<1>6. ASSUME NEW r \in Run, Fault(r) PROVE TypeOK'
  BY <1>6 DEF Fault, DbError, Crash
<1>7. ASSUME NEW r \in Run, Finish(r) PROVE TypeOK'
  BY <1>7 DEF Finish
<1>8. CASE Tick
  BY <1>8 DEF Tick
<1>9. CASE UNCHANGED vars
  BY <1>9 DEF vars
<1> QED
  BY <1>1, <1>2, <1>3, <1>4, <1>5, <1>6, <1>7, <1>8, <1>9 DEF Next, LockStep, Over

(* Every variable keeps its type: in particular the lock document is owned *)
(* by one run, by an older release, or by nobody (acquireLock, releaseLock).*)
THEOREM TypeCorrect == Spec => []TypeOK
  BY TypeInit, TypeStep, PTL DEF Spec

-----------------------------------------------------------------------------
(* A document judged stale on a run's clock is stale on it ever after. *)
LEMMA StaleStep == TypeOK /\ BreaksStale /\ [Next]_vars => BreaksStale'
<1> SUFFICES ASSUME TypeOK, BreaksStale, [Next]_vars, NEW w \in Run,
                    pc'[w] = "break"
             PROVE  seen'[w].acquiredAt # Missing /\ IsStale(w, seen[w])'
  BY DEF BreaksStale
<1> USE OwnersAssumption, TimesAssumption DEF TypeOK, BreaksStale, IsStale
<1>1. ASSUME NEW r \in Run, Start(r) \/ AcquireStep(r) \/ BeatStep(r) \/ Release(r)
                            \/ Fault(r) \/ Finish(r)
      PROVE  pc[w] = "break" /\ now' = now /\ seen' = seen
  BY <1>1 DEF Start, AcquireStep, Acquire, AcquireUnanswered, Insert, BeatStep,
              Heartbeat, MissedBeat, Release, Fault, DbError, Crash, Finish
<1>2. ASSUME NEW r \in Run, Occupied(r) \/ Look(r) \/ StampOld(r) \/ Break(r) \/ Sleep(r)
      PROVE  pc[w] = "break" /\ now' = now /\ seen'[w] = seen[w]
  BY <1>2 DEF Occupied, Look, StampOld, Break, Sleep
<1>3. ASSUME NEW r \in Run, Judge(r), pc[w] # "break"
      PROVE  now' = now /\ seen' = seen /\ seen[w].acquiredAt # Missing /\ IsStale(w, seen[w])
  BY <1>3 DEF Judge
<1>4. ASSUME NEW r \in Run, Judge(r), pc[w] = "break"
      PROVE  now' = now /\ seen' = seen
  BY <1>4 DEF Judge
<1>5. ASSUME Tick PROVE pc[w] = "break" /\ now' = now + 1 /\ seen' = seen
  BY <1>5 DEF Tick
<1>6. ASSUME UNCHANGED vars PROVE pc[w] = "break" /\ now' = now /\ seen' = seen
  BY <1>6 DEF vars
<1> QED
  BY <1>1, <1>2, <1>3, <1>4, <1>5, <1>6 DEF Next, LockStep, AskStep, Over

(* With punctual refreshes a run about to delete what it read does not find *)
(* a live holder's document: the two readings of the clock contradict.      *)
LEMMA LiveIsNotDeleted ==
    ASSUME Punctual, TypeOK, HolderOwns, BreaksStale,
           NEW w \in Run, NEW r \in Run, pc[w] = "break", Working(r)
    PROVE  ~ Unchanged(w)
<1> USE TimesAssumption DEF TypeOK
<1>1. owner = r /\ now + Skew[r] - acquiredAt <= MaxGap /\ acquiredAt \in Int
  BY DEF HolderOwns, Gap
<1>2. now + Skew[w] - seen[w].acquiredAt > Stale
  BY DEF BreaksStale, IsStale
<1>3. MaxGap + Skew[w] - Skew[r] <= Stale
  BY DEF Punctual
<1>4. Skew[w] \in Int /\ Skew[r] \in Int /\ now \in Int /\ Stale \in Int /\ MaxGap \in Int
  OBVIOUS
<1>5. seen[w].acquiredAt # acquiredAt
  BY <1>1, <1>2, <1>3, <1>4
<1> QED BY <1>5 DEF Unchanged

(* A working run keeps its document, and a run starts to work only by       *)
(* inserting one while there is none.                                       *)
LEMMA HolderStep ==
    ASSUME Punctual, TypeOK, HolderOwns, BreaksStale, [Next]_vars
    PROVE  HolderOwns'
<1> SUFFICES ASSUME NEW h \in Run, Working(h)'
             PROVE  owner' = h /\ acquiredAt' # Missing /\ Gap(h)' <= MaxGap
  BY DEF HolderOwns
<1> USE OwnersAssumption, TimesAssumption DEF TypeOK, HolderOwns, Gap
<1>1. ASSUME NEW r \in Run, Start(r) \/ Fault(r) \/ Finish(r) \/ Occupied(r) \/ Look(r)
                            \/ Judge(r) \/ Sleep(r) \/ MissedBeat(r)
      PROVE  Working(h) /\ UNCHANGED <<owner, acquiredAt, now>>
  BY <1>1 DEF Start, Fault, DbError, Crash, Finish, Occupied, Look, Judge, Sleep, MissedBeat
<1>2. ASSUME NEW r \in Run, AcquireStep(r)
      PROVE  owner' = h /\ acquiredAt' # Missing /\ Gap(h)' <= MaxGap
  <2>1. PICK d \in 0..Latency : Acquire(r, d) \/ AcquireUnanswered(r, d)
    BY <1>2 DEF AcquireStep
  <2>2. ~ Working(h)
    BY <2>1 DEF Acquire, AcquireUnanswered, Insert
  <2>3. h = r /\ Acquire(r, d)
    BY <2>1, <2>2 DEF Acquire, AcquireUnanswered
  <2>4. owner' = h /\ acquiredAt' = now + Skew[h] - d /\ now' = now /\ now + Skew[h] >= d
    BY <2>3 DEF Acquire, Insert
  <2> QED BY <2>4 DEF Punctual
<1>3. ASSUME NEW r \in Run, StampOld(r)
      PROVE  Working(h) /\ UNCHANGED <<owner, acquiredAt, now>>
  BY <1>3 DEF StampOld
<1>4. ASSUME NEW r \in Run, Break(r)
      PROVE  Working(h) /\ UNCHANGED <<owner, acquiredAt, now>>
  <2>1. pc[r] = "break" /\ Working(h)
    BY <1>4 DEF Break
  <2>2. ~ Unchanged(r)
    BY <2>1, LiveIsNotDeleted
  <2> QED BY <1>4, <2>1, <2>2 DEF Break
<1>5. ASSUME NEW r \in Run, NEW d \in 0..Latency, Heartbeat(r, d)
      PROVE  owner' = h /\ acquiredAt' # Missing /\ Gap(h)' <= MaxGap
  <2>1. r = h /\ owner' = h /\ now' = now /\ acquiredAt' = now + Skew[h] - d /\ now + Skew[h] >= d
    BY <1>5 DEF Heartbeat
  <2> QED BY <2>1 DEF Punctual
<1>6. ASSUME NEW r \in Run, Release(r)
      PROVE  Working(h) /\ UNCHANGED <<owner, acquiredAt, now>>
  BY <1>6 DEF Release
<1>7. ASSUME Tick
      PROVE  owner' = h /\ acquiredAt' # Missing /\ Gap(h)' <= MaxGap
  <2>1. Working(h) /\ owner = h /\ UNCHANGED <<owner, acquiredAt>> /\ now' = now + 1
    BY <1>7 DEF Tick
  <2>2. now + Skew[h] - acquiredAt < MaxGap
    BY <1>7, <2>1 DEF Tick
  <2> QED BY <2>1, <2>2
<1>8. ASSUME UNCHANGED vars
      PROVE  Working(h) /\ UNCHANGED <<owner, acquiredAt, now>>
  BY <1>8 DEF vars
<1>9. ASSUME Working(h), UNCHANGED <<owner, acquiredAt, now>>
      PROVE  owner' = h /\ acquiredAt' # Missing /\ Gap(h)' <= MaxGap
  BY <1>9
<1> QED
  BY <1>1, <1>2, <1>3, <1>4, <1>5, <1>6, <1>7, <1>8, <1>9 DEF Next, LockStep, AskStep, BeatStep, Over

(* The inductive invariant holds in every state. *)
THEOREM SafetyCorrect == ASSUME Punctual PROVE Spec => []SafetyInv
<1>1. Init => HolderOwns /\ BreaksStale
  BY DEF Init, HolderOwns, BreaksStale
<1>2. SafetyInv /\ [Next]_vars => SafetyInv'
  BY TypeStep, StaleStep, HolderStep DEF SafetyInv
<1> QED
  BY <1>1, <1>2, TypeInit, PTL DEF Spec, SafetyInv

(* withMigrationLock keeps its promise: under punctual heartbeats at most   *)
(* one replica is inside the protected function, for every number of        *)
(* replicas, with crashes, failed requests and takeovers.                   *)
THEOREM ExclusionCorrect == ASSUME Punctual PROVE Spec => []MutualExclusion
<1>1. SafetyInv => MutualExclusion
  BY DEF SafetyInv, HolderOwns, MutualExclusion
<1> QED BY <1>1, SafetyCorrect, PTL

(* The comment of startLockHeartbeat, with its condition made explicit: when *)
(* heartbeats are punctual, no step takes the lock from a run that works.    *)
THEOREM NeverTakenCorrect == ASSUME Punctual PROVE Spec => NeverTakenFromLive
<1>1. ASSUME SafetyInv, SafetyInv', [Next]_vars, NEW h \in Run, Working(h), owner = h
      PROVE  owner' = h
  <2>1. CASE Working(h)'
    BY <1>1, <2>1 DEF SafetyInv, HolderOwns
  <2>2. CASE ~ Working(h)'
    <3>1. Finish(h) \/ Crash(h)
      <4> USE OwnersAssumption DEF SafetyInv, TypeOK
      <4>1. ASSUME NEW r \in Run, LockStep(r), ~ Crash(h) PROVE Working(h)'
        BY <1>1, <4>1 DEF LockStep, Start, AcquireStep, Acquire, AcquireUnanswered, Insert,
             AskStep, Occupied, Look, Judge, StampOld, Break, Sleep, BeatStep, Heartbeat,
             MissedBeat, Release, Fault, DbError, Crash, Asking
      <4>2. ASSUME NEW r \in Run, Finish(r), ~ Finish(h) PROVE Working(h)'
        BY <1>1, <4>2 DEF Finish
      <4> QED BY <1>1, <2>2, <4>1, <4>2 DEF Next, Tick, Over, vars
    <3> QED BY <1>1, <3>1 DEF Finish, Crash
  <2> QED BY <2>1, <2>2
<1>2. SafetyInv /\ SafetyInv' /\ [Next]_vars
        => \A r \in Run : Working(r) /\ owner = r => owner' = r
  BY <1>1
<1> QED BY <1>2, SafetyCorrect, PTL DEF Spec, NeverTakenFromLive

(* releaseLock and the takeover delete only the caller's own document or    *)
(* one that is stale when it goes, with no assumption on heartbeats at all. *)
THEOREM RemovalCorrect == Spec => RemovedByOwnerOrStale
<1> DEFINE Entitled == \/ owner \in Run /\ pc[owner] = "release"
                       \/ acquiredAt # Missing /\ \E r \in Run : /\ pc[r] = "break"
                                                                 /\ Clock(r) - acquiredAt > Stale
<1>1. ASSUME TypeOK, BreaksStale, [Next]_vars, owner # Nobody, owner' # owner
      PROVE  Entitled
  <2>1. ASSUME NEW r \in Run, Release(r) PROVE Entitled
    BY <1>1, <2>1 DEF Release
  <2>2. ASSUME NEW r \in Run, Break(r) PROVE Entitled
    <3>1. Unchanged(r) /\ pc[r] = "break"
      BY <1>1, <2>2 DEF Break
    <3>2. acquiredAt = seen[r].acquiredAt
      BY <3>1 DEF Unchanged
    <3> QED BY <1>1, <3>1, <3>2 DEF BreaksStale, IsStale
  <2>3. ASSUME NEW r \in Run, LockStep(r) PROVE Release(r) \/ Break(r)
    BY <1>1, <2>3 DEF LockStep, Start, AcquireStep, Acquire, AcquireUnanswered, Insert,
         AskStep, Occupied, Look, Judge, StampOld, Sleep, BeatStep, Heartbeat,
         MissedBeat, Fault, DbError, Crash
  <2>4. ASSUME NEW r \in Run, Finish(r) PROVE FALSE
    BY <1>1, <2>4 DEF Finish
  <2> QED BY <1>1, <2>1, <2>2, <2>3, <2>4 DEF Next, Tick, Over, vars
<1>2. Init => TypeOK /\ BreaksStale
  BY TypeInit DEF Init, BreaksStale
<1>3. TypeOK /\ BreaksStale /\ [Next]_vars => (TypeOK /\ BreaksStale)'
  BY TypeStep, StaleStep
<1> QED BY <1>1, <1>2, <1>3, PTL DEF Spec, RemovedByOwnerOrStale

-----------------------------------------------------------------------------
HIDE DEF Clock, Working, Goto, Missing, Owner, Stamp, Document

(* The runner (MigrationRunner), for any number of replicas, images and      *)
(* migrations, rolled back only while nothing else runs.                   *)

(* What is true of each run: where it may be, and that a run which executes *)
(* migrations still has before it exactly what of its image is not recorded *)
(* (a rollback: the migration recorded last).                              *)
UpPlaces   == {"load", "up", "reload", "save", "returned", "threw", "lost"}
DownPlaces == {"load", "down", "saveDown", "returned", "threw", "lost", "crashed"}
MidPlaces  == {"up", "reload", "save", "down", "saveDown"}

PlaceOK(r) == IF Kind[r] = "up"
              THEN at[r] \in UpPlaces /\ (at[r] # "load" => pc[r] \in {"hold", "release"} \cup Ended)
              ELSE at[r] \in DownPlaces

Apart(files) == \A i, j \in DOMAIN files : files[i].id = files[j].id => i = j

TodoOK(r) == at[r] \in MidPlaces => todo[r] \in Seq(loadMigrationFiles(r)) \ {<<>>} /\ Apart(todo[r])

AheadOK(r) == Executing(r) => IF Kind[r] = "up" THEN Ids(todo[r]) = PresentIds(r) \ Ids(recorded)
                              ELSE recorded # <<>> /\ Current(r).id = Last(recorded).id

CopyOK(r) == Executing(r) /\ at[r] \in {"save", "down", "saveDown"} => copy[r] = recorded

RunsInv == \A r \in Run : PlaceOK(r) /\ TodoOK(r) /\ AheadOK(r) /\ CopyOK(r)

(* The data: a migration is in effect if it is recorded, or if a run has   *)
(* applied it and not yet saved; not if a run has rolled it back and not   *)
(* yet saved.  Exactly so until a run ends in between, and then never more *)
(* than so, but for the migrations such runs tore.                         *)
UnderWay(m) == \E r \in Unfinished : Current(r).id = m
Times(m)    == IF m \in Ids(recorded) <=> ~ UnderWay(m) THEN 1 ELSE 0
Clean       == \A r \in Run : at[r] \notin {"lost", "crashed"} /\ ~ EndedUnrecorded(r)

DataInv == \A m \in Id : /\ m \in Torn \/ applied[m] <= Times(m)
                         /\ Clean /\ m \notin Ids(Recorded0) => applied[m] = Times(m)

(* No migration is recorded twice (older releases may have left some). *)
OnceInv == \A i, j \in DOMAIN recorded :
              recorded[i].id = recorded[j].id => i = j \/ recorded[i].id \in Ids(Recorded0)

StateTypes ==
    /\ recorded \in Seq(Title) /\ Ids(recorded) \subseteq Id
    /\ applied \in [Id -> Int]
    /\ at \in [Run -> UpPlaces \cup DownPlaces]
    /\ todo \in [Run -> Seq(File)]
    /\ copy \in [Run -> Seq(Title)]

StateInv     == StateTypes /\ RunsInv /\ DataInv /\ OnceInv
MigrationInv == Alone /\ StateInv

-----------------------------------------------------------------------------
(* Sequences of files and titles *)

OneId(files) == \A f, g \in files : f.id = g.id => f = g

(* Name order exists: a file stands where its rank says. *)
LEMMA InOrderIs ==
    ASSUME NEW files \in SUBSET File, IsFiniteSet(files), OneId(files)
    PROVE  /\ InOrder(files) \in Seq(files)
           /\ Apart(InOrder(files))
           /\ Ids(InOrder(files)) = {f.id : f \in files}
<1> DEFINE n == Cardinality(files)
           Before(f) == {g \in files : g.id < f.id}
           rank == [f \in files |-> Cardinality(Before(f)) + 1]
           at0 == [i \in 1..n |-> CHOOSE f \in files : rank[f] = i]
<1>1. n \in Nat
  BY FS_CardinalityType
<1>2. \A f \in files : f.id \in Nat
  BY DEF File
<1>3. ASSUME NEW f \in files PROVE /\ IsFiniteSet(Before(f)) /\ Cardinality(Before(f)) \in Nat /\ Cardinality(Before(f)) < n
  <2>1. IsFiniteSet(files \ {f}) /\ Cardinality(files \ {f}) = n - 1
    BY FS_RemoveElement
  <2>2. Before(f) \in SUBSET (files \ {f})
    BY <1>2, <1>3
  <2>3. IsFiniteSet(Before(f)) /\ Cardinality(Before(f)) <= Cardinality(files \ {f})
    BY <2>1, <2>2, FS_Subset
  <2>4. Cardinality(Before(f)) \in Nat
    BY <2>3, FS_CardinalityType
  <2> QED BY <2>1, <2>3, <2>4, <1>1
<1>4. ASSUME NEW f \in files, NEW g \in files, f.id < g.id PROVE rank[f] < rank[g]
  <2>1. IsFiniteSet(Before(f) \cup {f}) /\ Cardinality(Before(f) \cup {f}) = Cardinality(Before(f)) + 1
    <3>1. f \notin Before(f)
      BY <1>2
    <3> QED BY <1>3, <3>1, FS_AddElement
  <2>2. Before(f) \cup {f} \in SUBSET Before(g)
    BY <1>2, <1>4
  <2>3. Cardinality(Before(f) \cup {f}) <= Cardinality(Before(g))
    BY <1>3, <2>2, FS_Subset
  <2>4. Cardinality(Before(f)) \in Nat /\ Cardinality(Before(g)) \in Nat
    BY <1>3
  <2> HIDE DEF Before
  <2>5. Cardinality(Before(f)) + 1 < Cardinality(Before(g)) + 1
    BY <2>1, <2>3, <2>4
  <2> QED BY <2>5
<1> HIDE DEF Before
<1>5. rank \in [files -> 1..n]
  BY <1>1, <1>3
<1>6. \A f, g \in files : rank[f] = rank[g] => f = g
  <2> SUFFICES ASSUME NEW f \in files, NEW g \in files, rank[f] = rank[g] PROVE f = g
    OBVIOUS
  <2>1. rank[f] \in Int /\ rank[g] \in Int
    BY <1>5, <1>1
  <2>2. ~ f.id < g.id /\ ~ g.id < f.id
    BY <1>4, <2>1
  <2>3. f.id = g.id
    BY <1>2, <2>2
  <2> QED BY <2>3 DEF OneId
<1> HIDE DEF rank
<1>7. \A i \in 1..n : \E f \in files : rank[f] = i
  <2>1. rank \in Injection(files, 1..n)
    BY <1>5, <1>6 DEF Injection, IsInjective
  <2>2. IsFiniteSet(1..n) /\ Cardinality(1..n) = n
    BY <1>1, FS_Interval
  <2>3. rank \in Surjection(files, 1..n)
    BY <2>1, <2>2, FS_Injection
  <2> QED BY <2>3 DEF Surjection
<1>8. \A i \in 1..n : at0[i] \in files /\ rank[at0[i]] = i
  BY <1>7
<1>9. \A f \in files : at0[rank[f]] = f
  BY <1>5, <1>6, <1>8
<1> HIDE DEF at0
<1>10. \A i, j \in DOMAIN at0 : i < j => at0[i].id < at0[j].id
  <2>1. DOMAIN at0 = 1..n
    BY DEF at0
  <2> SUFFICES ASSUME NEW i \in 1..n, NEW j \in 1..n, i < j PROVE at0[i].id < at0[j].id
    BY <2>1
  <2>2. ~ at0[j].id < at0[i].id
    BY <1>1, <1>4, <1>8
  <2>3. at0[i].id # at0[j].id
    BY <1>1, <1>8 DEF OneId
  <2> QED BY <1>2, <1>8, <2>2, <2>3
<1>11. at0 \in SetToSeqs(files)
  <2>1. at0 \in [1..n -> files]
    BY <1>8 DEF at0
  <2> QED BY <1>8, <2>1 DEF SetToSeqs
<1> DEFINE s == InOrder(files)
<1>12. s \in SetToSeqs(files)
  BY <1>10, <1>11 DEF InOrder
<1> HIDE DEF s
<1>13. s \in [1..n -> files] /\ \A i, j \in 1..n : i # j => s[i] # s[j]
  BY <1>12 DEF SetToSeqs
<1>14. s \in Seq(files) /\ DOMAIN s = 1..n
  BY <1>1, <1>13
<1>15. Apart(s)
  BY <1>13, <1>14 DEF Apart, OneId
<1>16. \A f \in files : \E i \in 1..n : s[i] = f
  <2>1. s \in Injection(1..n, files)
    BY <1>13 DEF Injection, IsInjective
  <2>2. IsFiniteSet(1..n) /\ Cardinality(1..n) = n
    BY <1>1, FS_Interval
  <2>3. s \in Surjection(1..n, files)
    BY <2>1, <2>2, FS_Injection
  <2> QED BY <2>3 DEF Surjection
<1>17. Ids(s) = {f.id : f \in files}
  BY <1>13, <1>14, <1>16 DEF Ids
<1> QED BY <1>14, <1>15, <1>17 DEF s

(* What is loaded has one file per id, and so has every part of it. *)
LEMMA LoadedIs == ASSUME NEW r \in Run
                  PROVE  /\ loadMigrationFiles(r) \subseteq Files[r] /\ Files[r] \subseteq File
                         /\ IsFiniteSet(loadMigrationFiles(r))
                         /\ OneId(loadMigrationFiles(r))
<1>1. Directory(Files[r]) /\ loadMigrationFiles(r) \subseteq Files[r]
  BY RunnerAssumption DEF loadMigrationFiles
<1>2. IsFiniteSet(loadMigrationFiles(r))
  BY <1>1, FS_Subset DEF Directory
<1>3. OneId(loadMigrationFiles(r))
  BY <1>1 DEF OneId, Directory, loadMigrationFiles, TitleOf, File
<1> QED BY <1>1, <1>2, <1>3 DEF Directory

LEMMA PendingIs == ASSUME NEW r \in Run, NEW titles
                   PROVE  /\ Pending(r, titles) \in Seq(loadMigrationFiles(r))
                          /\ Apart(Pending(r, titles))
                          /\ Ids(Pending(r, titles)) = PresentIds(r) \ Ids(titles)
<1> DEFINE files == {f \in loadMigrationFiles(r) : f.id \notin Ids(titles)}
<1>1. files \in SUBSET File /\ IsFiniteSet(files) /\ OneId(files)
  BY LoadedIs, FS_Subset DEF OneId
<1>2. {f.id : f \in files} = PresentIds(r) \ Ids(titles)
  BY DEF PresentIds
<1> HIDE DEF files
<1>3. InOrder(files) \in Seq(loadMigrationFiles(r))
  <2>1. files \subseteq loadMigrationFiles(r)
    BY DEF files
  <2>2. InOrder(files) \in Seq(files)
    BY <1>1, InOrderIs
  <2> QED BY <2>1, <2>2
<1>4. Pending(r, titles) = InOrder(files)
  BY DEF Pending, files
<1> QED BY <1>1, <1>2, <1>3, <1>4, InOrderIs

LEMMA EmptyIds == ASSUME NEW S, NEW s \in Seq(S) PROVE Ids(s) = {} <=> s = <<>>
<1>1. DOMAIN s = 1..Len(s) /\ Len(s) \in Nat /\ (s = <<>> <=> Len(s) = 0)
  OBVIOUS
<1>2. Ids(s) = {} <=> 1..Len(s) = {}
  BY <1>1 DEF Ids
<1>3. Len(s) # 0 => 1 \in 1..Len(s)
  BY <1>1
<1>4. Len(s) = 0 => 1..Len(s) = {}
  BY <1>1
<1> QED BY <1>1, <1>2, <1>3, <1>4

LEMMA IdsOfTail == ASSUME NEW S, NEW s \in Seq(S) \ {<<>>}, Apart(s)
                   PROVE  /\ Tail(s) \in Seq(S) /\ Apart(Tail(s))
                          /\ Ids(Tail(s)) = Ids(s) \ {Head(s).id}
                          /\ Len(s) = 1 <=> Tail(s) = <<>>
<1>1. Tail(s) \in Seq(S) /\ Len(Tail(s)) = Len(s) - 1 /\ Head(s) = s[1]
      /\ \A i \in 1..Len(Tail(s)) : Tail(s)[i] = s[i + 1]
  OBVIOUS
<1>2. Len(s) \in Nat \ {0} /\ DOMAIN s = 1..Len(s) /\ DOMAIN Tail(s) = 1..(Len(s) - 1)
  BY <1>1
<1>3. Apart(Tail(s))
  BY <1>1, <1>2 DEF Apart
<1>4. Ids(Tail(s)) \subseteq Ids(s) \ {Head(s).id}
  BY <1>1, <1>2 DEF Apart, Ids
<1>5. ASSUME NEW i \in DOMAIN s, s[i].id # Head(s).id PROVE s[i].id \in Ids(Tail(s))
  <2>1. i - 1 \in DOMAIN Tail(s) /\ Tail(s)[i - 1] = s[i]
    BY <1>1, <1>2, <1>5
  <2> QED BY <2>1 DEF Ids
<1>6. Ids(Tail(s)) = Ids(s) \ {Head(s).id}
  BY <1>4, <1>5 DEF Ids
<1>7. Len(s) = 1 <=> Tail(s) = <<>>
  <2>1. Tail(s) = <<>> <=> Len(Tail(s)) = 0
    BY <1>1
  <2> QED BY <1>1, <1>2, <2>1
<1> QED BY <1>1, <1>3, <1>6, <1>7

LEMMA IdsOfAppend == ASSUME NEW S, NEW s \in Seq(S), NEW e \in S
                     PROVE  Append(s, e) \in Seq(S) /\ Ids(Append(s, e)) = Ids(s) \cup {e.id}
<1>1. Append(s, e) \in Seq(S) /\ DOMAIN Append(s, e) = 1..(Len(s) + 1) /\ DOMAIN s = 1..Len(s)
      /\ Append(s, e)[Len(s) + 1] = e /\ \A i \in 1..Len(s) : Append(s, e)[i] = s[i]
  OBVIOUS
<1>2. Len(s) \in Nat
  OBVIOUS
<1>3. Ids(Append(s, e)) \subseteq Ids(s) \cup {e.id}
  BY <1>1, <1>2 DEF Ids
<1>4. Ids(s) \cup {e.id} \subseteq Ids(Append(s, e))
  BY <1>1, <1>2 DEF Ids
<1> QED BY <1>1, <1>3, <1>4

LEMMA IdsOfFront == ASSUME NEW S, NEW s \in Seq(S) \ {<<>>}
                    PROVE  /\ Front(s) \in Seq(S) /\ Last(s) \in S
                           /\ Ids(s) = Ids(Front(s)) \cup {Last(s).id}
                           /\ Len(Front(s)) = Len(s) - 1 /\ \A i \in 1..(Len(s) - 1) : Front(s)[i] = s[i]
<1>1. Len(s) \in Nat \ {0} /\ DOMAIN s = 1..Len(s)
  OBVIOUS
<1>2. Front(s) \in Seq(S) /\ Len(Front(s)) = Len(s) - 1 /\ \A i \in 1..(Len(s) - 1) : Front(s)[i] = s[i]
  BY <1>1 DEF Front
<1>3. DOMAIN Front(s) = 1..(Len(s) - 1)
  BY <1>2, <1>1
<1>4. Last(s) = s[Len(s)] /\ Last(s) \in S
  BY <1>1 DEF Last
<1>5. Ids(s) \subseteq Ids(Front(s)) \cup {Last(s).id}
  BY <1>1, <1>2, <1>3, <1>4 DEF Ids
<1>6. Ids(Front(s)) \cup {Last(s).id} \subseteq Ids(s)
  BY <1>1, <1>2, <1>3, <1>4 DEF Ids
<1> QED BY <1>2, <1>4, <1>5, <1>6

-----------------------------------------------------------------------------
(* The runner around its lock: what it takes from MutualExclusion *)

LEMMA RunnerLocks == ASSUME [RunnerNext]_allVars PROVE [Next]_vars
<1>1. CASE UNCHANGED allVars
  BY <1>1 DEF allVars
<1>2. ASSUME NEW r \in Run, RunnerStep(r) PROVE [Next]_vars
  BY <1>2 DEF RunnerStep, LoadState, MigrationUp, MigrationThrows, ReloadState, SaveState, StateError, LoadError,
              LoadForDown, MigrationDown, SaveDown, DownError, KillDown, Within
<1>3. ASSUME NEW r \in Run, LockedStep(r) PROVE [Next]_vars
  BY <1>3 DEF LockedStep, Next
<1>4. CASE (Tick \/ Over) /\ UNCHANGED runnerVars
  BY <1>4 DEF Next
<1> QED BY <1>1, <1>2, <1>3, <1>4 DEF RunnerNext

(* Of all runs at most one executes migrations: a rollback runs alone, and *)
(* two that migrate up are both inside the lock.                           *)
LEMMA OneExecutes == ASSUME MutualExclusion, Alone, NEW q \in Run, NEW r \in Run, Executing(q), Executing(r)
                     PROVE  q = r
<1>1. Busy(q) /\ Busy(r)
  BY DEF Executing, Busy
<1>2. q = r \/ (Kind[q] = "up" /\ Kind[r] = "up")
  BY <1>1 DEF Alone
<1> QED BY <1>2 DEF Executing, Runs, MutualExclusion

(* What a run has to itself is not touched by others, as long as what is   *)
(* recorded is not, or it does not execute.                                *)
LEMMA RunKept == ASSUME RunsInv, NEW q \in Run, at'[q] = at[q], todo'[q] = todo[q], copy'[q] = copy[q], pc'[q] = pc[q],
                        recorded' = recorded \/ ~ Executing(q)
                 PROVE  PlaceOK(q)' /\ TodoOK(q)' /\ AheadOK(q)' /\ CopyOK(q)'
<1>1. Runs(q)' = Runs(q) /\ Executing(q)' = Executing(q)
  BY DEF Runs, Working, Executing
<1>2. PlaceOK(q)' /\ TodoOK(q)'
  BY DEF RunsInv, PlaceOK, TodoOK, Apart
<1>3. AheadOK(q)'
  BY <1>1 DEF RunsInv, AheadOK, Current
<1>4. CopyOK(q)'
  BY <1>1 DEF RunsInv, CopyOK
<1> QED BY <1>2, <1>3, <1>4

(* A step of a run that executes: nobody else is between an effect and its *)
(* record, and nobody else starts or stops to be torn.                     *)
LEMMA Mover ==
    ASSUME MutualExclusion, Alone, RunsInv, StateTypes, UNCHANGED vars,
           NEW r \in Run, Executing(r), NEW place, at' = [at EXCEPT ![r] = place], PlaceOK(r)',
           \A q \in Run \ {r} : todo'[q] = todo[q]
    PROVE  /\ Unfinished = IF at[r] \in {"reload", "save", "saveDown"} THEN {r} ELSE {}
           /\ Unfinished' = IF place \in {"reload", "save", "saveDown"} THEN {r} ELSE {}
           /\ \A m : UnderWay(m) <=> at[r] \in {"reload", "save", "saveDown"} /\ Current(r).id = m
           /\ \A m : UnderWay(m)' <=> place \in {"reload", "save", "saveDown"} /\ Current(r)'.id = m
           /\ \A m : m \in Torn' <=> m \in Torn \/ (place = "lost" /\ Current(r)'.id = m)
           /\ Clean' <=> Clean /\ place \notin {"lost", "crashed"}
<1>1. at'[r] = place /\ \A q \in Run \ {r} : at'[q] = at[q]
  BY DEF StateTypes
<1>2. \A q \in Run \ {r} : ~ Executing(q) /\ (Runs(q)' <=> Runs(q)) /\ ~ Executing(q)'
  BY <1>1, OneExecutes DEF Executing, Runs, Working, vars
<1>3. \A q \in Run \ {r} : (EndedUnrecorded(q)' <=> EndedUnrecorded(q)) /\ Current(q)' = Current(q)
  BY <1>1, <1>2 DEF EndedUnrecorded, Current
<1>4. Runs(r) /\ ~ EndedUnrecorded(r)
  BY DEF Executing, EndedUnrecorded
<1>5. place \in {"reload", "save", "saveDown"} => Runs(r)'
  BY <1>1, <1>4 DEF Runs, Working, vars, PlaceOK, UpPlaces
<1>6. EndedUnrecorded(r)' <=> place = "lost"
  BY <1>1, <1>5 DEF EndedUnrecorded
<1>7. \A q \in Run : q \in Unfinished <=> q = r /\ at[r] \in {"reload", "save", "saveDown"}
  BY <1>2, <1>4 DEF Unfinished, Executing
<1>8. \A q \in Run : q \in Unfinished' <=> q = r /\ place \in {"reload", "save", "saveDown"}
  BY <1>1, <1>2, <1>5 DEF Unfinished, Executing
<1>9. Unfinished \subseteq Run /\ Unfinished' \subseteq Run
  BY DEF Unfinished
<1>10. \A m : UnderWay(m) <=> at[r] \in {"reload", "save", "saveDown"} /\ Current(r).id = m
  BY <1>7, <1>9 DEF UnderWay
<1>11. \A m : UnderWay(m)' <=> place \in {"reload", "save", "saveDown"} /\ Current(r)'.id = m
  BY <1>8, <1>9 DEF UnderWay
<1>12. \A m : m \in Torn' <=> m \in Torn \/ (place = "lost" /\ Current(r)'.id = m)
  BY <1>3, <1>4, <1>6 DEF Torn
<1>13. at[r] \notin {"lost", "crashed"}
  BY DEF Executing
<1>14. Clean' <=> Clean /\ place \notin {"lost", "crashed"}
  BY <1>1, <1>3, <1>4, <1>6, <1>13 DEF Clean
<1> QED BY <1>7, <1>8, <1>9, <1>10, <1>11, <1>12, <1>14

(* A step that neither runs a migration nor records one. *)
LEMMA DataKept == ASSUME DataInv, UNCHANGED <<applied, recorded>>, Torn \subseteq Torn', Clean' => Clean,
                         \A m \in Id : UnderWay(m)' <=> UnderWay(m)
                  PROVE  DataInv'
<1>1. ASSUME NEW m \in Id PROVE Times(m)' = Times(m)
  <2>1. (UnderWay(m)' <=> UnderWay(m)) /\ Ids(recorded)' = Ids(recorded)
    OBVIOUS
  <2> QED BY <2>1 DEF Times
<1> QED BY <1>1 DEF DataInv

(* A run moves from one place to another, between no effect and its record. *)
LEMMA QuietMove ==
    ASSUME StateTypes, DataInv, UNCHANGED <<pc, applied, recorded>>,
           NEW r \in Run, NEW place, at' = [at EXCEPT ![r] = place],
           at[r] \notin {"reload", "save", "saveDown", "lost", "crashed"}, place \notin {"reload", "save", "saveDown", "lost"},
           \A q \in Run \ {r} : todo'[q] = todo[q]
    PROVE  DataInv' /\ Unfinished' = Unfinished
<1>1. at'[r] = place /\ \A q \in Run \ {r} : at'[q] = at[q]
  BY DEF StateTypes
<1>2. \A q \in Run \ {r} : /\ Runs(q)' <=> Runs(q)
                           /\ q \in Unfinished' <=> q \in Unfinished
                           /\ EndedUnrecorded(q)' <=> EndedUnrecorded(q)
                           /\ Current(q)' = Current(q)
  BY <1>1 DEF Runs, Working, Unfinished, EndedUnrecorded, Current
<1>3. r \notin Unfinished /\ ~ EndedUnrecorded(r) /\ r \notin Unfinished' /\ ~ EndedUnrecorded(r)'
  BY <1>1 DEF Unfinished, EndedUnrecorded
<1>4. Unfinished \subseteq Run /\ Unfinished' \subseteq Run
  BY DEF Unfinished
<1>5. \A m \in Id : UnderWay(m)' <=> UnderWay(m)
  BY <1>2, <1>3, <1>4 DEF UnderWay
<1>6. Torn \subseteq Torn'
  BY <1>2, <1>3 DEF Torn
<1>7. Clean' => Clean
  BY <1>1, <1>2, <1>3 DEF Clean
<1>8. Unfinished' = Unfinished
  BY <1>2, <1>3, <1>4
<1> QED BY <1>5, <1>6, <1>7, <1>8, DataKept

LEMMA OnceKept == ASSUME OnceInv, UNCHANGED recorded PROVE OnceInv'
  BY DEF OnceInv

LEMMA IdOfFile == ASSUME NEW r \in Run, NEW f \in loadMigrationFiles(r)
                  PROVE  f \in File /\ f.id \in Id /\ TitleOf(f) \in Title /\ TitleOf(f).id = f.id
<1>1. f \in Files[r] /\ f \in File
  BY LoadedIs
<1>2. f.id \in {g.id : g \in Files[r]}
  BY <1>1
<1> QED BY <1>1, <1>2 DEF Id, TitleOf, Title, File

LEMMA CurrentIs == ASSUME RunsInv, NEW r \in Run, at[r] \in MidPlaces
                   PROVE  /\ Current(r) \in loadMigrationFiles(r) /\ Current(r).id \in Id /\ Current(r).id \in Ids(todo[r])
                          /\ Current(r) \in File /\ TitleOf(Current(r)) \in Title /\ TitleOf(Current(r)).id = Current(r).id
<1>1. todo[r] \in Seq(loadMigrationFiles(r)) /\ todo[r] # <<>>
  BY DEF RunsInv, TodoOK
<1>2. Current(r) = todo[r][1] /\ 1 \in DOMAIN todo[r] /\ Current(r) \in loadMigrationFiles(r)
  BY <1>1 DEF Current
<1> QED BY <1>2, IdOfFile DEF Ids

LEMMA LoadStep == ASSUME TypeOK, MigrationInv, NEW r \in Run, LoadState(r) \/ LoadError(r) \/ LoadForDown(r)
                  PROVE  StateInv'
<1> USE DEF MigrationInv, StateInv
<1>1. /\ UNCHANGED <<pc, applied, recorded>> /\ UNCHANGED vars
      /\ at[r] = "load" /\ Runs(r)
      /\ at \in [Run -> UpPlaces \cup DownPlaces] /\ todo \in [Run -> Seq(File)] /\ copy \in [Run -> Seq(Title)]
  BY DEF LoadState, LoadError, LoadForDown, Within, vars, StateTypes
<1>2. PICK place \in {"returned", "threw", "up", "down"} :
         /\ at' = [at EXCEPT ![r] = place]
         /\ place = "up" => /\ Kind[r] = "up" /\ todo' = [todo EXCEPT ![r] = Pending(r, recorded)]
                            /\ Pending(r, recorded) # <<>>
         /\ place = "down" => /\ Kind[r] = "down" /\ recorded # <<>> /\ copy' = [copy EXCEPT ![r] = recorded]
                              /\ \E f \in ToRollBack(r) : todo' = [todo EXCEPT ![r] = <<f>>]
         /\ place \in {"returned", "threw"} => \/ UNCHANGED todo
                                               \/ todo' = [todo EXCEPT ![r] = Pending(r, recorded)]
         /\ UNCHANGED copy \/ copy' = [copy EXCEPT ![r] = recorded]
  <2>1. CASE LoadState(r)
    BY <2>1 DEF LoadState, Advance
  <2>2. CASE LoadError(r)
    BY <2>2 DEF LoadError, Advance
  <2>3. CASE LoadForDown(r)
    BY <2>3 DEF LoadForDown, Advance
  <2> QED BY <2>1, <2>2, <2>3
<1>3. /\ at'[r] = place /\ at' \in [Run -> UpPlaces \cup DownPlaces]
      /\ \A q \in Run \ {r} : at'[q] = at[q] /\ todo'[q] = todo[q] /\ copy'[q] = copy[q]
  BY <1>1, <1>2 DEF UpPlaces, DownPlaces
<1>4. copy' \in [Run -> Seq(Title)]
  BY <1>1, <1>2 DEF StateTypes
<1>5. Pending(r, recorded) \in Seq(loadMigrationFiles(r)) /\ loadMigrationFiles(r) \subseteq File
  BY PendingIs, LoadedIs
<1>6. Pending(r, recorded) \in Seq(File)
  BY <1>5
<1>7. ASSUME NEW f \in ToRollBack(r)
      PROVE  <<f>> \in Seq(loadMigrationFiles(r)) /\ <<f>> \in Seq(File) /\ f.id = Last(recorded).id
  BY <1>5 DEF ToRollBack
<1>8. todo' \in [Run -> Seq(File)]
  BY <1>1, <1>2, <1>6, <1>7
<1>9. StateTypes'
  BY <1>1, <1>3, <1>4, <1>8 DEF StateTypes
<1>10. PlaceOK(r)'
  <2>1. Kind[r] = "up" => pc[r] = "hold"
    BY <1>1 DEF Runs, Working
  <2>2. Kind[r] = "up" => place # "down"
    BY <1>2
  <2>3. Kind[r] # "up" => place # "up"
    BY <1>2
  <2> QED BY <1>1, <1>3, <2>1, <2>2, <2>3 DEF PlaceOK, UpPlaces, DownPlaces
<1>11. ASSUME place = "up" PROVE TodoOK(r)' /\ AheadOK(r)' /\ CopyOK(r)'
  <2>1. todo'[r] = Pending(r, recorded) /\ Pending(r, recorded) # <<>> /\ Kind[r] = "up"
    BY <1>1, <1>2, <1>11
  <2>2. TodoOK(r)'
    <3>1. Apart(todo[r])' <=> Apart(todo'[r])
      BY DEF Apart
    <3> QED BY <2>1, <3>1, PendingIs DEF TodoOK
  <2>3. Ids(todo'[r]) = PresentIds(r) \ Ids(recorded')
    BY <1>1, <2>1, PendingIs
  <2>4. AheadOK(r)'
    BY <2>1, <2>3 DEF AheadOK, Ids
  <2>5. CopyOK(r)'
    BY <1>3, <1>11 DEF CopyOK
  <2> QED BY <2>2, <2>4, <2>5
<1>12. ASSUME place = "down" PROVE TodoOK(r)' /\ AheadOK(r)' /\ CopyOK(r)'
  <2>1. PICK f \in ToRollBack(r) : todo' = [todo EXCEPT ![r] = <<f>>]
    BY <1>2, <1>12
  <2>2. /\ todo'[r] = <<f>> /\ Kind[r] = "down" /\ recorded' # <<>> /\ copy'[r] = recorded'
        /\ <<f>> \in Seq(loadMigrationFiles(r)) /\ f.id = Last(recorded').id
    BY <1>1, <1>2, <1>7, <1>12, <2>1
  <2>3. TodoOK(r)'
    BY <2>2 DEF TodoOK, Apart
  <2>4. AheadOK(r)'
    BY <2>2 DEF AheadOK, Current
  <2>5. CopyOK(r)'
    BY <2>2 DEF CopyOK
  <2> QED BY <2>3, <2>4, <2>5
<1>13. ASSUME place \in {"returned", "threw"} PROVE TodoOK(r)' /\ AheadOK(r)' /\ CopyOK(r)'
  BY <1>3, <1>13 DEF TodoOK, AheadOK, CopyOK, Executing, MidPlaces
<1>14. RunsInv'
  <2>1. \A q \in Run \ {r} : PlaceOK(q)' /\ TodoOK(q)' /\ AheadOK(q)' /\ CopyOK(q)'
    BY <1>1, <1>3, RunKept
  <2> QED BY <1>10, <1>11, <1>12, <1>13, <2>1 DEF RunsInv
<1>15. DataInv'
  BY <1>1, <1>2, <1>3, QuietMove
<1> QED BY <1>1, <1>9, <1>14, <1>15, OnceKept

(* The id of the current migration is recorded when it is rolled back, and *)
(* not when it is run.                                                     *)
LEMMA CurrentRecorded == ASSUME StateTypes, RunsInv, NEW r \in Run, Executing(r)
                         PROVE  Current(r).id \in Ids(recorded) <=> Kind[r] # "up"
<1>1. at[r] \in MidPlaces
  BY DEF Executing, MidPlaces
<1>2. AheadOK(r)
  BY DEF RunsInv
<1>3. CASE Kind[r] = "up"
  BY <1>1, <1>2, <1>3, CurrentIs DEF AheadOK
<1>4. CASE Kind[r] # "up"
  <2>1. recorded \in Seq(Title) \ {<<>>} /\ Current(r).id = Last(recorded).id
    BY <1>2, <1>4 DEF AheadOK, StateTypes
  <2> QED BY <2>1, <1>4, IdsOfFront
<1> QED BY <1>3, <1>4

(* The run takes effect: it is under way, or torn. *)
LEMMA Effects ==
    ASSUME MutualExclusion, MigrationInv, UNCHANGED vars, UNCHANGED <<recorded, todo>>,
           NEW r \in Run, Executing(r), at[r] \in {"up", "down"}, PlaceOK(r)',
           NEW place \in {"reload", "saveDown", "lost"}, at' = [at EXCEPT ![r] = place],
           Effect(r, IF Kind[r] = "up" THEN 1 ELSE -1)
    PROVE  DataInv'
<1> DEFINE mine == Current(r).id
           by == IF Kind[r] = "up" THEN 1 ELSE -1
<1>1. StateTypes /\ RunsInv /\ DataInv /\ Alone /\ Current(r)' = Current(r)
  BY DEF MigrationInv, StateInv, Current
<1>2. /\ \A m : ~ UnderWay(m)
      /\ \A m : UnderWay(m)' <=> place # "lost" /\ mine = m
      /\ \A m : m \in Torn' <=> m \in Torn \/ (place = "lost" /\ mine = m)
      /\ Clean' => Clean /\ place # "lost"
  BY <1>1, Mover
<1>3. mine \in Ids(recorded) <=> Kind[r] # "up"
  BY <1>1, CurrentRecorded
<1>4. applied \in [Id -> Int] /\ applied' = [applied EXCEPT ![mine] = @ + by]
  BY <1>1 DEF StateTypes, Effect
<1> HIDE DEF mine
<1> SUFFICES ASSUME NEW m \in Id
             PROVE  /\ m \in Torn' \/ applied'[m] <= Times(m)'
                    /\ Clean' /\ m \notin Ids(Recorded0) => applied'[m] = Times(m)'
  BY DEF DataInv
<1>5. /\ m \in Torn \/ applied[m] <= Times(m)
      /\ Clean /\ m \notin Ids(Recorded0) => applied[m] = Times(m)
  BY <1>1 DEF DataInv
<1>6. Ids(recorded)' = Ids(recorded)
  OBVIOUS
<1>7. CASE m # mine
  <2>1. applied'[m] = applied[m] /\ Times(m)' = Times(m)
    BY <1>2, <1>4, <1>6, <1>7 DEF Times
  <2> QED BY <1>2, <1>5, <2>1
<1>8. CASE m = mine
  <2>1. applied'[m] = applied[m] + by /\ applied[m] \in Int
    BY <1>4, <1>8
  <2>2. Times(m) = IF Kind[r] = "up" THEN 0 ELSE 1
    BY <1>2, <1>3, <1>8 DEF Times
  <2>3. place # "lost" => Times(m)' = IF Kind[r] = "up" THEN 1 ELSE 0
    BY <1>2, <1>3, <1>6, <1>8 DEF Times
  <2>4. place = "lost" => m \in Torn' /\ ~ Clean'
    BY <1>2, <1>8
  <2>5. m \in Torn => m \in Torn'
    BY <1>2
  <2> HIDE DEF Times
  <2>6. CASE place # "lost"
    BY <1>2, <1>5, <2>1, <2>2, <2>3, <2>5, <2>6
  <2> QED BY <2>4, <2>6
<1> QED BY <1>7, <1>8

(* The run gives up between an effect and its record. *)
LEMMA Abandons ==
    ASSUME MutualExclusion, MigrationInv, UNCHANGED vars, UNCHANGED <<recorded, applied, todo>>,
           NEW r \in Run, Executing(r), PlaceOK(r)',
           NEW place \in {"lost", "crashed"}, at' = [at EXCEPT ![r] = place], place = "crashed" => Kind[r] # "up"
    PROVE  DataInv'
<1> DEFINE mine == Current(r).id
<1>1. StateTypes /\ RunsInv /\ DataInv /\ Alone /\ Current(r)' = Current(r)
  BY DEF MigrationInv, StateInv, Current
<1>2. /\ \A m : UnderWay(m) => mine = m
      /\ \A m : ~ UnderWay(m)'
      /\ \A m : m \in Torn' <=> m \in Torn \/ (place = "lost" /\ mine = m)
      /\ ~ Clean'
  BY <1>1, Mover
<1>3. mine \in Ids(recorded) <=> Kind[r] # "up"
  BY <1>1, CurrentRecorded
<1> HIDE DEF mine
<1> SUFFICES ASSUME NEW m \in Id, m \notin Torn' PROVE applied'[m] <= Times(m)'
  BY <1>2 DEF DataInv
<1>4. applied[m] <= Times(m) /\ applied[m] \in Int
  BY <1>1, <1>2 DEF DataInv, StateTypes
<1>5. Ids(recorded)' = Ids(recorded)
  OBVIOUS
<1>6. Times(m) \in {0, 1} /\ Times(m)' \in {0, 1}
  BY DEF Times
<1>7. Times(m) = 1 => Times(m)' = 1
  BY <1>2, <1>3, <1>5 DEF Times
<1> QED BY <1>4, <1>6, <1>7

(* The run records its migration, or that it is rolled back. *)
LEMMA Records ==
    ASSUME MutualExclusion, MigrationInv, UNCHANGED vars, UNCHANGED applied,
           NEW r \in Run, Executing(r), at[r] \in {"save", "saveDown"}, PlaceOK(r)',
           NEW place \in {"returned", "threw", "up"}, at' = [at EXCEPT ![r] = place],
           \A q \in Run \ {r} : todo'[q] = todo[q],
           IF Kind[r] = "up" THEN Store(r) ELSE recorded' = Front(copy[r])
    PROVE  /\ DataInv' /\ OnceInv'
           /\ recorded' \in Seq(Title) /\ Ids(recorded') \subseteq Id
           /\ Kind[r] = "up" => Ids(recorded') = Ids(recorded) \cup {Current(r).id}
<1> DEFINE mine == Current(r).id
           title == TitleOf(Current(r))
<1>1. StateTypes /\ RunsInv /\ DataInv /\ OnceInv /\ Alone
  BY DEF MigrationInv, StateInv
<1>2. /\ \A m : UnderWay(m) <=> mine = m
      /\ \A m : ~ UnderWay(m)'
      /\ \A m : m \in Torn' <=> m \in Torn
      /\ Clean' <=> Clean
  BY <1>1, Mover
<1>3. mine \in Ids(recorded) <=> Kind[r] # "up"
  BY <1>1, CurrentRecorded
<1>4. copy[r] = recorded /\ recorded \in Seq(Title) /\ Ids(recorded) \subseteq Id
  BY <1>1 DEF RunsInv, CopyOK, StateTypes
<1>5. mine \in Id /\ title \in Title /\ title.id = mine
  BY <1>1, CurrentIs DEF MidPlaces
<1>6. Kind[r] # "up" => recorded # <<>> /\ mine = Last(recorded).id
  BY <1>1 DEF RunsInv, AheadOK
<1>7. Kind[r] = "up" => recorded' = Append(recorded, title)
  BY <1>4 DEF Store
<1>8. Kind[r] # "up" => recorded' = Front(recorded)
  BY <1>4
<1> HIDE DEF mine, title
<1>9. Kind[r] = "up" => recorded' \in Seq(Title) /\ Ids(recorded') = Ids(recorded) \cup {mine}
  <2>1. Append(recorded, title) \in Seq(Title) /\ Ids(Append(recorded, title)) = Ids(recorded) \cup {title.id}
    BY <1>4, <1>5, IdsOfAppend
  <2> QED BY <1>5, <1>7, <2>1
<1>10. Kind[r] # "up" => /\ recorded' \in Seq(Title) /\ Ids(recorded) = Ids(recorded') \cup {mine}
                         /\ Len(recorded') = Len(recorded) - 1
                         /\ \A i \in 1..Len(recorded') : recorded'[i] = recorded[i]
  BY <1>4, <1>6, <1>8, IdsOfFront
<1>11. recorded' \in Seq(Title) /\ Ids(recorded') \subseteq Id
  BY <1>4, <1>5, <1>9, <1>10
<1>12. OnceInv'
  <2>1. CASE Kind[r] = "up"
    <3>1. /\ DOMAIN recorded' = 1..(Len(recorded) + 1) /\ DOMAIN recorded = 1..Len(recorded) /\ Len(recorded) \in Nat
          /\ recorded'[Len(recorded) + 1].id = mine
          /\ \A i \in 1..Len(recorded) : recorded'[i] = recorded[i]
      BY <1>4, <1>5, <1>7, <2>1
    <3>2. \A i \in DOMAIN recorded : recorded[i].id # mine
      BY <1>3, <2>1 DEF Ids
    <3> QED BY <1>1, <3>1, <3>2 DEF OnceInv
  <2>2. CASE Kind[r] # "up"
    <3>1. /\ DOMAIN recorded' = 1..(Len(recorded) - 1) /\ DOMAIN recorded = 1..Len(recorded) /\ Len(recorded) \in Nat
          /\ \A i \in 1..(Len(recorded) - 1) : recorded'[i] = recorded[i]
      BY <1>4, <1>10, <2>2
    <3> QED BY <1>1, <3>1 DEF OnceInv
  <2> QED BY <2>1, <2>2
<1>13. ASSUME Kind[r] # "up", mine \in Ids(recorded') PROVE mine \in Ids(Recorded0)
  <2>1. PICK i \in DOMAIN recorded' : recorded'[i].id = mine
    BY <1>13 DEF Ids
  <2>2. Len(recorded) \in Nat /\ i \in 1..(Len(recorded) - 1) /\ recorded[i].id = mine
    BY <1>4, <1>10, <1>11, <1>13, <2>1
  <2>3. recorded[Len(recorded)].id = mine /\ Len(recorded) \in DOMAIN recorded /\ i \in DOMAIN recorded /\ i # Len(recorded)
    BY <1>4, <1>6, <1>13, <2>2 DEF Last
  <2> QED BY <1>1, <2>2, <2>3 DEF OnceInv
<1>14. DataInv'
  <2> SUFFICES ASSUME NEW m \in Id
               PROVE  /\ m \in Torn' \/ applied'[m] <= Times(m)'
                      /\ Clean' /\ m \notin Ids(Recorded0) => applied'[m] = Times(m)'
    BY DEF DataInv
  <2>1. /\ m \in Torn \/ applied[m] <= Times(m)
        /\ Clean /\ m \notin Ids(Recorded0) => applied[m] = Times(m)
        /\ applied[m] \in Int
    BY <1>1 DEF DataInv, StateTypes
  <2>2. Times(m) \in {0, 1} /\ Times(m)' \in {0, 1}
    BY DEF Times
  <2>3. ASSUME m # mine \/ Kind[r] = "up" \/ mine \notin Ids(recorded') PROVE Times(m)' = Times(m)
    <3>1. m \in Ids(recorded') <=> (m \in Ids(recorded) <=> m # mine)
      BY <1>3, <1>9, <1>10, <2>3
    <3> QED BY <1>2, <3>1 DEF Times
  <2>4. ASSUME m = mine, Kind[r] # "up" PROVE Times(m) = 0
    BY <1>2, <1>3, <2>4 DEF Times
  <2> QED BY <1>2, <1>13, <2>1, <2>2, <2>3, <2>4
<1> QED BY <1>9, <1>11, <1>12, <1>14 DEF mine

LEMMA UpStep ==
    ASSUME TypeOK, MutualExclusion, MigrationInv, NEW r \in Run,
           MigrationUp(r) \/ MigrationThrows(r) \/ ReloadState(r) \/ SaveState(r) \/ StateError(r)
    PROVE  StateInv'
<1>1. /\ Alone /\ StateTypes /\ RunsInv /\ DataInv /\ OnceInv
      /\ at \in [Run -> UpPlaces \cup DownPlaces] /\ todo \in [Run -> Seq(File)] /\ copy \in [Run -> Seq(Title)]
      /\ applied \in [Id -> Int]
  BY DEF MigrationInv, StateInv, StateTypes
<1>2. UNCHANGED vars /\ UNCHANGED pc /\ Runs(r) /\ at[r] \in {"up", "reload", "save"}
  BY DEF MigrationUp, MigrationThrows, ReloadState, SaveState, StateError, Within, vars
<1>3. /\ Kind[r] = "up" /\ Executing(r) /\ pc[r] = "hold" /\ at[r] \in MidPlaces
  BY <1>1, <1>2 DEF RunsInv, PlaceOK, DownPlaces, Executing, Runs, Working, MidPlaces
<1>4. todo[r] \in Seq(loadMigrationFiles(r)) \ {<<>>} /\ Apart(todo[r]) /\ Ids(todo[r]) = PresentIds(r) \ Ids(recorded)
  BY <1>1, <1>3 DEF RunsInv, TodoOK, AheadOK
<1>5. ASSUME NEW place \in UpPlaces, at' = [at EXCEPT ![r] = place]
      PROVE  /\ at'[r] = place /\ at' \in [Run -> UpPlaces \cup DownPlaces] /\ PlaceOK(r)'
             /\ \A q \in Run \ {r} : at'[q] = at[q]
  BY <1>1, <1>2, <1>3, <1>5 DEF PlaceOK
<1>6. ASSUME \A q \in Run \ {r} : at'[q] = at[q] /\ todo'[q] = todo[q] /\ copy'[q] = copy[q]
      PROVE  \A q \in Run \ {r} : PlaceOK(q)' /\ TodoOK(q)' /\ AheadOK(q)' /\ CopyOK(q)'
  <2>1. ASSUME NEW q \in Run \ {r}, Executing(q) PROVE FALSE
    BY <1>1, <1>3, <2>1, OneExecutes
  <2> QED BY <1>1, <1>2, <1>6, <2>1, RunKept
<1>7. ASSUME NEW place \in {"reload", "save", "lost", "threw"}, at' = [at EXCEPT ![r] = place],
             UNCHANGED <<recorded, todo>>,
             IF place = "save" THEN copy' = [copy EXCEPT ![r] = recorded] ELSE UNCHANGED copy,
             applied' \in [Id -> Int], DataInv'
      PROVE  StateInv'
  <2>1. place \in UpPlaces
    BY DEF UpPlaces
  <2>2. /\ at'[r] = place /\ at' \in [Run -> UpPlaces \cup DownPlaces] /\ PlaceOK(r)'
        /\ \A q \in Run \ {r} : at'[q] = at[q]
    BY <1>5, <1>7, <2>1
  <2>3. copy' \in [Run -> Seq(Title)] /\ (\A q \in Run \ {r} : copy'[q] = copy[q]) /\ (place = "save" => copy'[r] = recorded)
    BY <1>1, <1>7 DEF StateTypes
  <2>4. StateTypes'
    BY <1>1, <1>7, <2>2, <2>3 DEF StateTypes
  <2>5. TodoOK(r)'
    BY <1>4, <1>7 DEF TodoOK, Apart
  <2>6. AheadOK(r)'
    <3>1. Ids(todo'[r]) = PresentIds(r) \ Ids(recorded')
      BY <1>4, <1>7
    <3> QED BY <1>3, <3>1 DEF AheadOK, Ids
  <2>7. CopyOK(r)'
    BY <1>7, <2>2, <2>3 DEF CopyOK
  <2>8. RunsInv'
    BY <1>6, <1>7, <2>2, <2>3, <2>5, <2>6, <2>7 DEF RunsInv
  <2> QED BY <1>1, <1>7, <2>4, <2>8, OnceKept DEF StateInv
<1>8. ASSUME NEW place \in {"reload", "lost"}, at[r] = "up", Effect(r, 1), Advance(r, place), UNCHANGED <<recorded, todo, copy>>
      PROVE  StateInv'
  <2>1. at' = [at EXCEPT ![r] = place] /\ PlaceOK(r)'
    BY <1>5, <1>8 DEF Advance, UpPlaces
  <2>2. applied' \in [Id -> Int]
    <3> DEFINE mine == Current(r).id
    <3>1. applied' = [applied EXCEPT ![mine] = @ + 1]
      BY <1>8 DEF Effect
    <3> HIDE DEF mine
    <3>2. \A m \in Id : applied'[m] = applied[m] + 1 \/ applied'[m] = applied[m]
      BY <1>1, <3>1
    <3>3. \A m \in Id : applied'[m] \in Int
      BY <1>1, <3>2
    <3> QED BY <1>1, <3>1, <3>3
  <2>3. DataInv'
    BY <1>2, <1>3, <1>8, <2>1, Effects
  <2> QED BY <1>7, <1>8, <2>1, <2>2, <2>3
<1>9. ASSUME NEW place \in {"returned", "threw", "up"}, at[r] = "save", Advance(r, place), Store(r), UNCHANGED <<applied, copy>>,
             \/ UNCHANGED todo /\ place = "threw"
             \/ todo' = [todo EXCEPT ![r] = Tail(@)] /\ (place = "up" => Len(todo[r]) # 1)
      PROVE  StateInv'
  <2>1. at' = [at EXCEPT ![r] = place]
    BY <1>9 DEF Advance
  <2>2. /\ at'[r] = place /\ at' \in [Run -> UpPlaces \cup DownPlaces] /\ PlaceOK(r)'
        /\ \A q \in Run \ {r} : at'[q] = at[q]
    BY <1>5, <2>1 DEF UpPlaces
  <2>3. /\ Tail(todo[r]) \in Seq(loadMigrationFiles(r)) /\ Apart(Tail(todo[r]))
        /\ Ids(Tail(todo[r])) = Ids(todo[r]) \ {Current(r).id}
        /\ Len(todo[r]) # 1 => Tail(todo[r]) # <<>>
    BY <1>4, IdsOfTail DEF Current
  <2>4. loadMigrationFiles(r) \subseteq File
    BY LoadedIs
  <2>5. todo' \in [Run -> Seq(File)] /\ \A q \in Run \ {r} : todo'[q] = todo[q]
    <3>1. Tail(todo[r]) \in Seq(File)
      BY <2>3, <2>4
    <3> QED BY <1>1, <1>9, <3>1
  <2>6. /\ DataInv' /\ OnceInv'
        /\ recorded' \in Seq(Title) /\ Ids(recorded') \subseteq Id
        /\ Ids(recorded') = Ids(recorded) \cup {Current(r).id}
    BY <1>2, <1>3, <1>9, <2>1, <2>2, <2>5, Records
  <2>7. StateTypes'
    <3>1. Ids(recorded)' = Ids(recorded')
      BY DEF Ids
    <3> QED BY <1>1, <1>9, <2>2, <2>5, <2>6, <3>1 DEF StateTypes
  <2>8. ASSUME place = "up" PROVE TodoOK(r)' /\ AheadOK(r)'
    <3>1. todo'[r] = Tail(todo[r]) /\ Tail(todo[r]) # <<>>
      BY <1>1, <1>9, <2>3, <2>8
    <3>2. TodoOK(r)'
      BY <2>3, <3>1 DEF TodoOK, Apart
    <3>3. Ids(todo'[r]) = PresentIds(r) \ Ids(recorded')
      BY <1>4, <2>3, <2>6, <3>1
    <3>4. AheadOK(r)'
      BY <1>3, <3>3 DEF AheadOK, Ids
    <3> QED BY <3>2, <3>4
  <2>9. ASSUME place # "up" PROVE TodoOK(r)' /\ AheadOK(r)'
    BY <1>9, <2>2, <2>9 DEF TodoOK, AheadOK, MidPlaces, Executing
  <2>10. CopyOK(r)'
    BY <1>9, <2>2 DEF CopyOK
  <2>11. RunsInv'
    BY <1>6, <1>9, <2>2, <2>5, <2>8, <2>9, <2>10 DEF RunsInv
  <2> QED BY <2>6, <2>7, <2>11 DEF StateInv
<1>10. CASE MigrationUp(r)
  BY <1>8, <1>10 DEF MigrationUp, Within
<1>11. CASE MigrationThrows(r)
  <2>1. CASE Advance(r, "threw") /\ UNCHANGED applied
    <3>1. at[r] = "up" /\ at' = [at EXCEPT ![r] = "threw"] /\ UNCHANGED <<recorded, applied, todo, copy>>
      BY <1>11, <2>1 DEF MigrationThrows, Within, Advance
    <3>2. DataInv'
      BY <1>1, <1>2, <3>1, QuietMove
    <3> QED BY <1>1, <1>7, <3>1, <3>2
  <2>2. CASE Advance(r, "lost") /\ Effect(r, 1)
    BY <1>8, <1>11, <2>2 DEF MigrationThrows, Within
  <2> QED BY <1>11, <2>1, <2>2 DEF MigrationThrows
<1>12. CASE ReloadState(r)
  <2>1. at[r] = "reload" /\ at' = [at EXCEPT ![r] = "save"] /\ copy' = [copy EXCEPT ![r] = recorded]
        /\ UNCHANGED <<recorded, applied, todo>>
    BY <1>12 DEF ReloadState, Within, Advance
  <2>2. PlaceOK(r)' /\ Current(r)' = Current(r)
    BY <1>5, <2>1 DEF UpPlaces, Current
  <2>3. /\ \A m \in Id : UnderWay(m)' <=> UnderWay(m)
        /\ Torn \subseteq Torn' /\ (Clean' => Clean)
    BY <1>1, <1>2, <1>3, <2>1, <2>2, Mover DEF MigrationInv
  <2>4. DataInv'
    BY <1>1, <2>1, <2>3, DataKept
  <2> QED BY <1>1, <1>7, <2>1, <2>4
<1>13. CASE SaveState(r)
  BY <1>9, <1>13 DEF SaveState, Within
<1>14. CASE StateError(r)
  <2>1. CASE Advance(r, "lost") /\ UNCHANGED recorded
    <3>1. at' = [at EXCEPT ![r] = "lost"] /\ UNCHANGED <<recorded, applied, todo, copy>>
      BY <1>14, <2>1 DEF StateError, Advance
    <3>2. PlaceOK(r)'
      BY <1>5, <3>1 DEF UpPlaces
    <3>3. DataInv'
      BY <1>2, <1>3, <3>1, <3>2, Abandons
    <3> QED BY <1>1, <1>7, <3>1, <3>3
  <2>2. CASE at[r] = "save" /\ Store(r) /\ Advance(r, "threw")
    BY <1>9, <1>14, <2>2 DEF StateError
  <2> QED BY <1>14, <2>1, <2>2 DEF StateError, Within
<1> QED BY <1>10, <1>11, <1>12, <1>13, <1>14

LEMMA DownStep ==
    ASSUME TypeOK, MutualExclusion, MigrationInv, NEW r \in Run,
           MigrationDown(r) \/ SaveDown(r) \/ DownError(r) \/ KillDown(r)
    PROVE  StateInv'
<1>1. /\ Alone /\ StateTypes /\ RunsInv /\ DataInv /\ OnceInv
      /\ at \in [Run -> UpPlaces \cup DownPlaces] /\ applied \in [Id -> Int]
  BY DEF MigrationInv, StateInv, StateTypes
<1>2. UNCHANGED vars /\ UNCHANGED pc /\ Runs(r)
  BY DEF MigrationDown, SaveDown, DownError, KillDown, Within, vars
<1>3. Kind[r] # "up" /\ at[r] \in {"load", "down", "saveDown"}
  BY <1>1, <1>2, RunnerAssumption DEF MigrationDown, SaveDown, DownError, KillDown, Within, RunsInv, PlaceOK, UpPlaces, DownPlaces, Runs
<1>4. UNCHANGED <<todo, copy>>
  BY DEF MigrationDown, SaveDown, DownError, KillDown
<1>5. ASSUME NEW place \in DownPlaces, Advance(r, place)
      PROVE  /\ at' = [at EXCEPT ![r] = place] /\ at'[r] = place /\ at' \in [Run -> UpPlaces \cup DownPlaces] /\ PlaceOK(r)'
             /\ \A q \in Run \ {r} : at'[q] = at[q]
  BY <1>1, <1>3, <1>5 DEF PlaceOK, Advance
<1>6. ASSUME \A q \in Run \ {r} : at'[q] = at[q], UNCHANGED recorded \/ Executing(r)
      PROVE  \A q \in Run \ {r} : PlaceOK(q)' /\ TodoOK(q)' /\ AheadOK(q)' /\ CopyOK(q)'
  <2>1. ASSUME NEW q \in Run \ {r}, Executing(q), Executing(r) PROVE FALSE
    BY <1>1, <2>1, OneExecutes
  <2> QED BY <1>1, <1>2, <1>4, <1>6, <2>1, RunKept
<1>7. ASSUME NEW place \in {"saveDown", "lost", "threw", "crashed"}, Advance(r, place),
             place = "saveDown" => at[r] = "down",
             UNCHANGED recorded, applied' \in [Id -> Int], DataInv'
      PROVE  StateInv'
  <2>1. /\ at'[r] = place /\ at' \in [Run -> UpPlaces \cup DownPlaces] /\ PlaceOK(r)'
        /\ \A q \in Run \ {r} : at'[q] = at[q]
    BY <1>5, <1>7 DEF DownPlaces
  <2>2. StateTypes'
    BY <1>1, <1>4, <1>7, <2>1 DEF StateTypes
  <2>3. TodoOK(r)' /\ AheadOK(r)' /\ CopyOK(r)'
    <3>1. CASE place = "saveDown"
      <4>1. TodoOK(r) /\ AheadOK(r) /\ CopyOK(r) /\ Executing(r)
        BY <1>1, <1>2, <1>7, <3>1 DEF RunsInv, Executing
      <4>2. at[r] \in MidPlaces
        BY <1>7, <3>1 DEF MidPlaces
      <4> QED BY <1>3, <1>4, <1>7, <3>1, <4>1, <4>2 DEF TodoOK, AheadOK, CopyOK, Current, Apart, Executing
    <3>2. CASE place # "saveDown"
      BY <2>1, <3>2 DEF TodoOK, AheadOK, CopyOK, MidPlaces, Executing
    <3> QED BY <3>1, <3>2
  <2>4. RunsInv'
    BY <1>6, <1>7, <2>1, <2>3 DEF RunsInv
  <2> QED BY <1>1, <1>7, <2>2, <2>4, OnceKept DEF StateInv
<1>8. ASSUME NEW place \in {"saveDown", "lost"}, at[r] = "down", Effect(r, -1), Advance(r, place), UNCHANGED recorded
      PROVE  StateInv'
  <2>1. at' = [at EXCEPT ![r] = place] /\ PlaceOK(r)' /\ Executing(r)
    BY <1>2, <1>5, <1>8 DEF DownPlaces, Executing
  <2>2. applied' \in [Id -> Int]
    <3> DEFINE mine == Current(r).id
    <3>1. applied' = [applied EXCEPT ![mine] = @ + (-1)]
      BY <1>8 DEF Effect
    <3> HIDE DEF mine
    <3>2. \A m \in Id : applied'[m] = applied[m] + (-1) \/ applied'[m] = applied[m]
      BY <1>1, <3>1
    <3>3. \A m \in Id : applied'[m] \in Int
      BY <1>1, <3>2
    <3> QED BY <1>1, <3>1, <3>3
  <2>3. DataInv'
    BY <1>2, <1>3, <1>4, <1>8, <2>1, Effects
  <2> QED BY <1>7, <1>8, <2>2, <2>3
<1>9. ASSUME at[r] \in {"load", "down"}, NEW place \in {"threw", "crashed"}, Advance(r, place), UNCHANGED <<applied, recorded>>
      PROVE  StateInv'
  <2>1. at' = [at EXCEPT ![r] = place]
    BY <1>9 DEF Advance
  <2>2. DataInv'
    BY <1>1, <1>2, <1>4, <1>9, <2>1, QuietMove
  <2> QED BY <1>1, <1>7, <1>9, <2>2
<1>10. ASSUME at[r] = "saveDown", NEW place \in {"lost", "crashed"}, Advance(r, place), UNCHANGED <<applied, recorded>>
       PROVE  StateInv'
  <2>1. at' = [at EXCEPT ![r] = place] /\ PlaceOK(r)' /\ Executing(r)
    BY <1>2, <1>5, <1>10 DEF DownPlaces, Executing
  <2>2. DataInv'
    BY <1>2, <1>3, <1>4, <1>10, <2>1, Abandons
  <2> QED BY <1>1, <1>7, <1>10, <2>2
<1>11. CASE MigrationDown(r)
  BY <1>8, <1>11 DEF MigrationDown, Within
<1>12. ASSUME at[r] = "saveDown", NEW place \in {"returned", "threw"}, Advance(r, place),
              recorded' = Front(copy[r]), UNCHANGED applied
       PROVE  StateInv'
  <2>1. at[r] = "saveDown" /\ recorded' = Front(copy[r]) /\ Advance(r, place) /\ UNCHANGED applied /\ Executing(r)
    BY <1>2, <1>12 DEF Executing
  <2>2. /\ at' = [at EXCEPT ![r] = place] /\ at'[r] = place /\ at' \in [Run -> UpPlaces \cup DownPlaces]
        /\ PlaceOK(r)' /\ \A q \in Run \ {r} : at'[q] = at[q]
    BY <1>5, <2>1 DEF DownPlaces
  <2>3. DataInv' /\ OnceInv' /\ recorded' \in Seq(Title) /\ Ids(recorded') \subseteq Id
    BY <1>2, <1>3, <1>4, <2>1, <2>2, Records
  <2>4. StateTypes'
    <3>1. Ids(recorded)' = Ids(recorded')
      BY DEF Ids
    <3> QED BY <1>1, <1>4, <2>1, <2>2, <2>3, <3>1 DEF StateTypes
  <2>5. RunsInv'
    BY <1>6, <2>1, <2>2 DEF RunsInv, TodoOK, AheadOK, CopyOK, MidPlaces, Executing
  <2> QED BY <2>3, <2>4, <2>5 DEF StateInv
<1>13. CASE SaveDown(r)
  BY <1>12, <1>13 DEF SaveDown, Within
<1>14. CASE DownError(r)
  BY <1>8, <1>9, <1>10, <1>12, <1>14 DEF DownError, Within
<1>15. CASE KillDown(r)
  BY <1>3, <1>9, <1>10, <1>15 DEF KillDown
<1> QED BY <1>11, <1>13, <1>14, <1>15

(* What a step of the lock does to where the run is in it. *)
LEMMA LockMoves ==
    ASSUME TypeOK, NEW r \in Run, LockStep(r) \/ Finish(r)
    PROVE  /\ \A q \in Run \ {r} : pc'[q] = pc[q]
           /\ pc[r] \in {"hold", "release"} \cup Ended => pc'[r] \in {"hold", "release"} \cup Ended
           /\ pc'[r] = "hold" => pc[r] \in {"hold", "try"}
           /\ pc[r] = "hold" /\ LockStep(r) => pc'[r] \in {"hold", "crashed"}
           /\ Finish(r) => pc[r] = "hold" /\ pc'[r] = "release"
<1> USE DEF TypeOK, Places, Asking, Ended, Goto
<1>1. CASE Start(r) \/ AskStep(r)
  BY <1>1 DEF Start, AskStep, Occupied, Look, Judge, StampOld, Break, Sleep, Finish, Working
<1>2. CASE AcquireStep(r)
  BY <1>2 DEF AcquireStep, Acquire, AcquireUnanswered, Insert, Finish, Working
<1>3. CASE BeatStep(r)
  BY <1>3 DEF BeatStep, MissedBeat, Heartbeat, Finish, Working
<1>4. CASE Release(r) \/ Fault(r)
  BY <1>4 DEF Release, Fault, DbError, Crash, Finish, Working
<1>5. CASE Finish(r)
  <2>1. pc[r] = "hold" /\ pc' = [pc EXCEPT ![r] = "release"]
    BY <1>5 DEF Finish, Working
  <2>2. ~ LockStep(r)
    BY <2>1 DEF LockStep, Start, AskStep, Occupied, Look, Judge, StampOld, Break, Sleep, AcquireStep, Acquire, AcquireUnanswered,
                Insert, BeatStep, MissedBeat, Heartbeat, Release, Fault, DbError, Crash, Working
  <2> QED BY <2>1, <2>2
<1> QED BY <1>1, <1>2, <1>3, <1>4, <1>5 DEF LockStep

LEMMA LockKept ==
    ASSUME TypeOK, MutualExclusion, MigrationInv, NEW r \in Run, LockedStep(r)
    PROVE  StateInv'
<1>1. /\ Alone /\ StateTypes /\ RunsInv /\ DataInv /\ OnceInv
      /\ UNCHANGED <<recorded, applied, at, todo, copy>> /\ Kind[r] = "up"
  BY DEF MigrationInv, StateInv, LockedStep, runnerVars
<1>2. LockStep(r) \/ (Finish(r) /\ at[r] \in {"returned", "threw", "lost"})
  BY DEF LockedStep
<1>3. \A q \in Run \ {r} : pc'[q] = pc[q]
  BY <1>2, LockMoves
<1>4. \A q \in Run \ {r} : PlaceOK(q)' /\ TodoOK(q)' /\ AheadOK(q)' /\ CopyOK(q)'
  BY <1>1, <1>3, RunKept
<1>5. /\ pc[r] \in {"hold", "release"} \cup Ended => pc'[r] \in {"hold", "release"} \cup Ended
      /\ pc'[r] = "hold" => pc[r] \in {"hold", "try"}
  BY <1>2, LockMoves
<1>6. PlaceOK(r) /\ TodoOK(r) /\ AheadOK(r) /\ CopyOK(r)
  BY <1>1 DEF RunsInv
<1>7. PlaceOK(r)' /\ TodoOK(r)'
  BY <1>1, <1>5, <1>6 DEF PlaceOK, TodoOK, Apart
<1>8. at[r] # "load" => (Runs(r)' => Runs(r))
  BY <1>1, <1>5, <1>6 DEF PlaceOK, Runs, Working, Ended
<1>9. Executing(r)' => Executing(r)
  BY <1>1, <1>8 DEF Executing
<1>10. AheadOK(r)' /\ CopyOK(r)'
  BY <1>1, <1>6, <1>9 DEF AheadOK, CopyOK, Current, Ids
<1>11. RunsInv'
  BY <1>4, <1>7, <1>10 DEF RunsInv
<1>12. StateTypes'
  BY <1>1 DEF StateTypes, Ids
<1>13. \A q \in Run \ {r} : (Runs(q)' <=> Runs(q)) /\ (q \in Unfinished' <=> q \in Unfinished)
                            /\ (EndedUnrecorded(q)' <=> EndedUnrecorded(q))
  BY <1>1, <1>3 DEF Runs, Working, Unfinished, EndedUnrecorded
<1>14. \A q \in Run : Current(q)' = Current(q)
  BY <1>1 DEF Current
<1>15. r \in Unfinished' => r \in Unfinished
  BY <1>1, <1>8 DEF Unfinished
<1>16. EndedUnrecorded(r) => EndedUnrecorded(r)'
  BY <1>1, <1>8 DEF EndedUnrecorded
<1>17. Torn \subseteq Torn' /\ (Clean' => Clean)
  BY <1>1, <1>13, <1>14, <1>16 DEF Torn, Clean
<1>18. CASE r \in Unfinished /\ r \notin Unfinished'
  <2> DEFINE mine == Current(r).id
  <2>1. at[r] \in {"reload", "save"} /\ Executing(r)
    BY <1>1, <1>6, <1>18 DEF Unfinished, PlaceOK, UpPlaces, Executing
  <2>2. EndedUnrecorded(r)'
    BY <1>1, <1>18, <2>1 DEF Unfinished, EndedUnrecorded
  <2>3. mine \in Torn' /\ ~ Clean'
    BY <1>14, <2>2 DEF Torn, Clean
  <2>4. ASSUME NEW m \in Id, m # mine PROVE UnderWay(m)' <=> UnderWay(m)
    BY <1>13, <1>14, <2>4 DEF UnderWay, Unfinished
  <2> HIDE DEF mine
  <2>5. DataInv'
    <3> SUFFICES ASSUME NEW m \in Id, m \notin Torn' PROVE applied'[m] <= Times(m)'
      BY <2>3 DEF DataInv
    <3>1. m # mine /\ m \notin Torn
      BY <1>17, <2>3
    <3>2. Ids(recorded)' = Ids(recorded)
      BY <1>1 DEF Ids
    <3>3. Times(m)' = Times(m)
      BY <2>4, <3>1, <3>2 DEF Times
    <3> QED BY <1>1, <3>1, <3>3 DEF DataInv
  <2> QED BY <1>1, <1>11, <1>12, <2>5, OnceKept DEF StateInv
<1>19. CASE r \in Unfinished' <=> r \in Unfinished
  <2>1. \A m \in Id : UnderWay(m)' <=> UnderWay(m)
    <3>1. Unfinished' = Unfinished
      BY <1>13, <1>19 DEF Unfinished
    <3> QED BY <1>14, <3>1 DEF UnderWay, Unfinished
  <2>2. DataInv'
    BY <1>1, <1>17, <2>1, DataKept
  <2> QED BY <1>1, <1>11, <1>12, <2>2, OnceKept DEF StateInv
<1> QED BY <1>15, <1>18, <1>19

-----------------------------------------------------------------------------
(* What is true of the runner *)

LEMMA MigrationStart == RunnerInit => MigrationInv
<1> SUFFICES ASSUME RunnerInit PROVE MigrationInv
  OBVIOUS
<1>1. /\ recorded = Recorded0 /\ applied = [m \in Id |-> 0] /\ at = [r \in Run |-> "load"]
      /\ todo = [r \in Run |-> <<>>] /\ copy = [r \in Run |-> <<>>]
  BY DEF RunnerInit
<1>2. Ids(recorded) \subseteq Id /\ Ids(recorded) = Ids(Recorded0)
  <2>1. Ids(recorded) = Ids(Recorded0)
    BY <1>1
  <2>2. Ids(Recorded0) \subseteq Id
    BY DEF Id
  <2> QED BY <2>1, <2>2
<1>3. StateTypes
  BY <1>1, <1>2, RunnerAssumption DEF StateTypes, UpPlaces
<1>4. Unfinished = {}
  BY <1>1 DEF Unfinished
<1>5. \A m \in Id : ~ UnderWay(m) /\ applied[m] = 0
  BY <1>1, <1>4 DEF UnderWay
<1>6. DataInv
  BY <1>2, <1>5 DEF DataInv, Times
<1>7. RunsInv
  <2> SUFFICES ASSUME NEW q \in Run PROVE PlaceOK(q) /\ TodoOK(q) /\ AheadOK(q) /\ CopyOK(q)
    BY DEF RunsInv
  <2>1. at[q] = "load"
    BY <1>1
  <2>2. at[q] \notin MidPlaces /\ ~ Executing(q) /\ at[q] \in UpPlaces \cap DownPlaces
    BY <2>1 DEF MidPlaces, Executing, UpPlaces, DownPlaces
  <2> QED BY <2>1, <2>2 DEF PlaceOK, TodoOK, AheadOK, CopyOK
<1>8. OnceInv
  BY <1>1 DEF OnceInv, Ids
<1>9. Alone
  BY <1>1 DEF Alone, Busy
<1> QED BY <1>3, <1>6, <1>7, <1>8, <1>9 DEF MigrationInv, StateInv

LEMMA OthersStep == ASSUME MigrationInv, UNCHANGED <<pc, runnerVars>> PROVE StateInv' /\ Alone'
<1>1. /\ Alone /\ StateTypes /\ RunsInv /\ DataInv /\ OnceInv
      /\ UNCHANGED <<pc, recorded, applied, at, todo, copy>>
  BY DEF MigrationInv, StateInv, runnerVars
<1>2. RunsInv'
  BY <1>1, RunKept DEF RunsInv
<1>3. \A r \in Run : /\ Runs(r)' <=> Runs(r)
                     /\ EndedUnrecorded(r)' <=> EndedUnrecorded(r)
                     /\ r \in Unfinished' <=> r \in Unfinished
                     /\ Current(r)' = Current(r)
  BY <1>1 DEF Runs, Working, EndedUnrecorded, Unfinished, Current
<1>4. \A m \in Id : UnderWay(m)' <=> UnderWay(m)
  <2>1. Unfinished' = Unfinished
    BY <1>3 DEF Unfinished
  <2> QED BY <1>3, <2>1 DEF UnderWay, Unfinished
<1>5. Torn \subseteq Torn' /\ (Clean' => Clean)
  BY <1>1, <1>3 DEF Torn, Clean
<1>6. DataInv'
  BY <1>1, <1>4, <1>5, DataKept
<1>7. StateTypes'
  BY <1>1 DEF StateTypes, Ids
<1>8. Alone'
  BY <1>1, <1>3 DEF Alone, Busy
<1> QED BY <1>1, <1>2, <1>6, <1>7, <1>8, OnceKept DEF StateInv

LEMMA MigrationStep ==
    ASSUME TypeOK, MutualExclusion, MigrationInv, [AloneNext]_allVars
    PROVE  MigrationInv'
<1>1. ASSUME NEW r \in Run, RunnerStep(r) PROVE StateInv'
  BY <1>1, LoadStep, UpStep, DownStep DEF RunnerStep
<1>2. ASSUME NEW r \in Run, LockedStep(r) PROVE StateInv'
  BY <1>2, LockKept
<1>3. ASSUME UNCHANGED <<pc, runnerVars>> PROVE StateInv' /\ Alone'
  BY <1>3, OthersStep
<1>4. CASE AloneNext
  <2>1. (Tick \/ Over) => UNCHANGED pc
    BY DEF Tick, Over, vars
  <2> QED BY <1>1, <1>2, <1>3, <1>4, <2>1 DEF AloneNext, RunnerNext, MigrationInv
<1>5. CASE UNCHANGED allVars
  BY <1>3, <1>5 DEF allVars, vars, MigrationInv
<1> QED BY <1>4, <1>5

(* Under the lock's assumption, the runner's runs are runs of the lock. *)
LEMMA AloneLocks == AloneSpec => Spec
<1>1. RunnerInit => Init
  BY DEF RunnerInit
<1>2. [AloneNext]_allVars => [Next]_vars
  <2>1. [AloneNext]_allVars => [RunnerNext]_allVars
    BY DEF AloneNext
  <2> QED BY <2>1, RunnerLocks
<1> QED BY <1>1, <1>2, PTL DEF AloneSpec, Spec

LEMMA MigrationInvariant == ASSUME Punctual PROVE AloneSpec => [](TypeOK /\ MutualExclusion /\ MigrationInv)
<1>1. MigrationInv /\ TypeOK /\ MutualExclusion /\ [AloneNext]_allVars => MigrationInv'
  BY MigrationStep
<1>2. Spec => [](TypeOK /\ MutualExclusion)
  BY TypeCorrect, ExclusionCorrect, PTL
<1> QED BY <1>1, <1>2, AloneLocks, MigrationStart, PTL DEF AloneSpec

(* The comment on the lock: "a replica that waited never applies a migration *)
(* a second time", but for a run that ended between up() and saveAsync().  *)
THEOREM TwiceCorrect == ASSUME Punctual PROVE AloneSpec => []AppliedTwiceOnlyIfTorn
<1>1. MigrationInv => AppliedTwiceOnlyIfTorn
  <2> SUFFICES ASSUME MigrationInv, NEW m \in Id, applied[m] > 1 PROVE m \in Torn
    BY DEF AppliedTwiceOnlyIfTorn
  <2>1. Times(m) \in {0, 1} /\ applied[m] \in Int
    BY DEF Times, MigrationInv, StateInv, StateTypes
  <2>2. m \in Torn \/ applied[m] <= Times(m)
    BY DEF MigrationInv, StateInv, DataInv
  <2> QED BY <2>1, <2>2
<1> QED BY <1>1, MigrationInvariant, PTL

(* The state document says what is in effect in the data, whenever every   *)
(* run has come to an end or has not begun its next migration.             *)
THEOREM RunnerCorrect == ASSUME Punctual PROVE AloneSpec => []RunnerInv
<1>1. MigrationInv => StateMatchesData
  <2> SUFFICES ASSUME MigrationInv, \A r \in Run : at[r] \in {"load", "up", "down", "returned", "threw"},
                      NEW m \in Id \ Ids(Recorded0)
               PROVE  applied[m] = (IF m \in Ids(recorded) THEN 1 ELSE 0)
    BY DEF StateMatchesData
  <2>1. Clean /\ Unfinished = {}
    BY DEF Clean, EndedUnrecorded, Unfinished
  <2>2. ~ UnderWay(m)
    BY <2>1 DEF UnderWay
  <2>3. applied[m] = Times(m)
    BY <2>1 DEF MigrationInv, StateInv, DataInv
  <2> QED BY <2>2, <2>3 DEF Times
<1>2. TypeOK /\ MigrationInv => RunnerTypeOK
  BY DEF MigrationInv, StateInv, StateTypes, RunnerTypeOK, UpPlaces, DownPlaces
<1> QED BY <1>1, <1>2, MigrationInvariant, PTL DEF RunnerInv

(* runUp returns when no pending migration is left, and nobody's save threw *)
(* one of the records away.                                                *)
THEOREM ReturnCorrect == ASSUME Punctual PROVE AloneSpec => ReturnLeavesNothingPending
<1>1. ASSUME MigrationInv, MutualExclusion, NEW r \in Run, LoadState(r), at'[r] = "returned"
      PROVE  PresentIds(r) \subseteq Ids(recorded')
  <2>1. recorded' = recorded /\ Pending(r, recorded) = <<>>
    BY <1>1 DEF LoadState, Advance, MigrationInv, StateInv, StateTypes
  <2>2. Ids(Pending(r, recorded)) = {}
    BY <2>1, PendingIs, EmptyIds
  <2> QED BY <2>1, <2>2, PendingIs
<1>2. ASSUME MigrationInv, MutualExclusion, NEW r \in Run, SaveState(r), at'[r] = "returned"
      PROVE  PresentIds(r) \subseteq Ids(recorded')
  <2>1. /\ StateTypes /\ RunsInv /\ at[r] = "save" /\ Runs(r) /\ at \in [Run -> UpPlaces \cup DownPlaces]
        /\ Store(r) /\ Advance(r, IF Len(todo[r]) = 1 THEN "returned" ELSE "up")
    BY <1>2 DEF SaveState, Within, MigrationInv, StateInv, StateTypes
  <2>2. Kind[r] = "up" /\ Executing(r) /\ at[r] \in MidPlaces
    BY <2>1 DEF RunsInv, PlaceOK, DownPlaces, Executing, MidPlaces
  <2>3. Len(todo[r]) = 1
    BY <1>2, <2>1 DEF Advance
  <2>4. todo[r] \in Seq(loadMigrationFiles(r)) \ {<<>>} /\ Apart(todo[r])
        /\ Ids(todo[r]) = PresentIds(r) \ Ids(recorded) /\ copy[r] = recorded
    BY <2>1, <2>2 DEF RunsInv, TodoOK, AheadOK, CopyOK
  <2>5. Tail(todo[r]) = <<>> /\ Ids(Tail(todo[r])) = Ids(todo[r]) \ {Current(r).id}
    BY <2>3, <2>4, IdsOfTail DEF Current
  <2>6. Ids(Tail(todo[r])) = {}
    BY <2>4, <2>5, IdsOfTail, EmptyIds
  <2>7. TitleOf(Current(r)) \in Title /\ TitleOf(Current(r)).id = Current(r).id
    BY <2>1, <2>2, CurrentIs
  <2>8. recorded' = Append(recorded, TitleOf(Current(r))) /\ recorded \in Seq(Title)
    BY <2>1, <2>4 DEF Store, StateTypes
  <2> DEFINE title == TitleOf(Current(r))
  <2> HIDE DEF title
  <2>9. Ids(Append(recorded, title)) = Ids(recorded) \cup {title.id}
    BY <2>7, <2>8, IdsOfAppend DEF title
  <2>10. Ids(recorded') = Ids(recorded) \cup {Current(r).id}
    BY <2>7, <2>8, <2>9 DEF title
  <2> QED BY <2>4, <2>5, <2>6, <2>10
<1>3. ASSUME TypeOK, MutualExclusion, MigrationInv, [AloneNext]_allVars, NEW r \in Run, Kind[r] = "up", at[r] # "returned", at'[r] = "returned"
      PROVE  PresentIds(r) \subseteq Ids(recorded')
  <2>1. at \in [Run -> UpPlaces \cup DownPlaces]
    BY <1>3 DEF MigrationInv, StateInv, StateTypes
  <2>2. ASSUME NEW q \in Run, RunnerStep(q) PROVE q = r /\ (LoadState(r) \/ SaveState(r))
    <3>1. \A place : Advance(q, place) => (q # r => at'[r] = at[r]) /\ (q = r => place = "returned")
      BY <1>3, <2>1 DEF Advance
    <3>2. q = r
      BY <1>3, <2>2, <3>1 DEF RunnerStep, LoadState, MigrationUp, MigrationThrows, ReloadState, SaveState, StateError, LoadError,
                 LoadForDown, MigrationDown, SaveDown, DownError, KillDown
    <3>3. ~ (MigrationUp(q) \/ MigrationThrows(q) \/ ReloadState(q) \/ StateError(q) \/ LoadError(q))
      BY <3>1, <3>2 DEF MigrationUp, MigrationThrows, ReloadState, StateError, LoadError
    <3>4. ~ (LoadForDown(q) \/ MigrationDown(q) \/ SaveDown(q) \/ DownError(q) \/ KillDown(q))
      BY <1>3, <3>2 DEF LoadForDown, MigrationDown, SaveDown, DownError, KillDown, Within, MigrationInv, StateInv, RunsInv, PlaceOK, UpPlaces
    <3> QED BY <2>2, <3>2, <3>3, <3>4 DEF RunnerStep
  <2>3. ASSUME UNCHANGED at PROVE FALSE
    BY <1>3, <2>3
  <2> QED BY <1>1, <1>2, <1>3, <2>2, <2>3 DEF AloneNext, RunnerNext, LockedStep, runnerVars, allVars
<1>4. TypeOK /\ MutualExclusion /\ MigrationInv /\ [AloneNext]_allVars =>
         [\A r \in Run : Kind[r] = "up" /\ at[r] # "returned" /\ at'[r] = "returned"
            => PresentIds(r) \subseteq Ids(recorded')]_allVars
  BY <1>3
<1> QED BY <1>4, MigrationInvariant, PTL DEF AloneSpec, ReturnLeavesNothingPending

-----------------------------------------------------------------------------
(* The runner implements the ledger (MigrationLedger): every step enters,   *)
(* abandons, applies or rolls back one migration, or does nothing to it.    *)
LEMMA HandEmpty == Unfinished = {} => InHand = -1 /\ RollingBack = FALSE
  BY DEF InHand, RollingBack

LEMMA HandHolds == ASSUME NEW r, Unfinished = {r}
                   PROVE  InHand = Current(r).id /\ RollingBack = (Kind[r] = "down")
<1>1. Saving = r
  BY DEF Saving
<1> QED BY <1>1 DEF InHand, RollingBack

LEMMA IdSeqIs == ASSUME NEW s \in Seq(Title)
                 PROVE  /\ IdSeq(s) \in Seq(Nat) /\ Len(IdSeq(s)) = Len(s) /\ ToSet(IdSeq(s)) = Ids(s)
                        /\ \A i \in 1..Len(s) : IdSeq(s)[i] = s[i].id
                        /\ s # <<>> => IdSeq(s) # <<>> /\ Last(IdSeq(s)) = Last(s).id
<1>1. Len(s) \in Nat /\ DOMAIN s = 1..Len(s) /\ \A i \in 1..Len(s) : s[i] \in Title
  OBVIOUS
<1>2. IdSeq(s) \in [1..Len(s) -> Nat] /\ \A i \in 1..Len(s) : IdSeq(s)[i] = s[i].id
  BY <1>1 DEF IdSeq, Title
<1>3. IdSeq(s) \in Seq(Nat) /\ Len(IdSeq(s)) = Len(s) /\ DOMAIN IdSeq(s) = DOMAIN s
  BY <1>1, <1>2
<1>4. ToSet(IdSeq(s)) = Ids(s)
  BY <1>1, <1>2, <1>3 DEF ToSet, Ids
<1>5. ASSUME s # <<>> PROVE IdSeq(s) # <<>> /\ Last(IdSeq(s)) = Last(s).id
  <2>1. Len(s) \in 1..Len(s)
    BY <1>1, <1>5
  <2> QED BY <1>1, <1>2, <1>3, <2>1 DEF Last
<1> QED BY <1>2, <1>3, <1>4, <1>5

LEMMA IdSeqAppend == ASSUME NEW s \in Seq(Title), NEW e \in Title
                     PROVE  IdSeq(Append(s, e)) = Append(IdSeq(s), e.id)
<1> DEFINE t == Append(s, e)
           n == Append(IdSeq(s), e.id)
<1>1. t \in Seq(Title) /\ Len(t) = Len(s) + 1 /\ t[Len(s) + 1] = e /\ \A i \in 1..Len(s) : t[i] = s[i]
  OBVIOUS
<1>2. e.id \in Nat /\ IdSeq(s) \in Seq(Nat) /\ Len(IdSeq(s)) = Len(s) /\ \A i \in 1..Len(s) : IdSeq(s)[i] = s[i].id
  BY IdSeqIs DEF Title
<1>3. n \in Seq(Nat) /\ Len(n) = Len(s) + 1 /\ n[Len(s) + 1] = e.id /\ \A i \in 1..Len(s) : n[i] = s[i].id
  BY <1>2
<1> HIDE DEF t, n
<1>4. IdSeq(t) \in Seq(Nat) /\ Len(IdSeq(t)) = Len(t) /\ \A i \in 1..Len(t) : IdSeq(t)[i] = t[i].id
  BY <1>1, IdSeqIs
<1>5. Len(s) \in Nat
  OBVIOUS
<1>6. \A i \in 1..Len(t) : IdSeq(t)[i] = n[i]
  <2> SUFFICES ASSUME NEW i \in 1..(Len(s) + 1) PROVE IdSeq(t)[i] = n[i]
    BY <1>1
  <2>1. IdSeq(t)[i] = t[i].id
    BY <1>1, <1>4
  <2>2. CASE i = Len(s) + 1
    BY <1>1, <1>3, <2>1, <2>2
  <2>3. CASE i \in 1..Len(s)
    BY <1>1, <1>3, <2>1, <2>3
  <2> QED BY <1>5, <2>2, <2>3
<1>7. IdSeq(t) = n
  BY <1>1, <1>3, <1>4, <1>6, SeqEqual
<1> QED BY <1>7 DEF t, n

LEMMA IdSeqFront == ASSUME NEW s \in Seq(Title) \ {<<>>}
                    PROVE  IdSeq(Front(s)) = Front(IdSeq(s))
<1> DEFINE t == Front(s)
           n == Front(IdSeq(s))
<1>1. t \in Seq(Title) /\ Len(t) = Len(s) - 1 /\ \A i \in 1..(Len(s) - 1) : t[i] = s[i]
  BY IdsOfFront
<1>2. IdSeq(s) \in Seq(Nat) \ {<<>>} /\ Len(IdSeq(s)) = Len(s) /\ \A i \in 1..Len(s) : IdSeq(s)[i] = s[i].id
  BY IdSeqIs
<1>3. n \in Seq(Nat) /\ Len(n) = Len(s) - 1 /\ \A i \in 1..(Len(s) - 1) : n[i] = IdSeq(s)[i]
  BY <1>2, IdsOfFront
<1> HIDE DEF t, n
<1>4. IdSeq(t) \in Seq(Nat) /\ Len(IdSeq(t)) = Len(t) /\ \A i \in 1..Len(t) : IdSeq(t)[i] = t[i].id
  BY <1>1, IdSeqIs
<1>5. Len(s) \in Nat
  OBVIOUS
<1>6. \A i \in 1..Len(t) : IdSeq(t)[i] = n[i]
  <2> SUFFICES ASSUME NEW i \in 1..(Len(s) - 1) PROVE IdSeq(t)[i] = n[i]
    BY <1>1
  <2>1. IdSeq(t)[i] = t[i].id /\ i \in 1..Len(s)
    BY <1>1, <1>4, <1>5
  <2> QED BY <1>1, <1>2, <1>3, <2>1
<1>7. IdSeq(t) = n
  BY <1>1, <1>3, <1>4, <1>6, SeqEqual
<1> QED BY <1>7 DEF t, n

LEMMA LedgerInit == RunnerInit => Ledger!Init
<1> SUFFICES ASSUME RunnerInit PROVE Ledger!Init
  OBVIOUS
<1>1. recorded = Recorded0 /\ applied = [m \in Id |-> 0] /\ at = [r \in Run |-> "load"]
  BY DEF RunnerInit
<1>2. Unfinished = {}
  BY <1>1 DEF Unfinished
<1>3. InHand = -1 /\ RollingBack = FALSE
  BY <1>2, HandEmpty
<1> QED BY <1>1, <1>3 DEF Ledger!Init

LedgerStep == [Ledger!Next]_<<IdSeq(recorded), applied, InHand, RollingBack>>

(* The save of the run that is between its effect and its record. *)
LEMMA LedgerEnters ==
    ASSUME StateTypes, NEW r \in Run, Unfinished = {r}, Unfinished' = {}, UNCHANGED applied, Current(r) \in File,
           IF Kind[r] = "up" THEN recorded' = Append(recorded, TitleOf(Current(r)))
                             ELSE Kind[r] = "down" /\ recorded # <<>> /\ recorded' = Front(recorded)
    PROVE  LedgerStep
<1> DEFINE title == TitleOf(Current(r))
<1>1. recorded \in Seq(Title) /\ title \in Title /\ title.id = Current(r).id /\ Current(r).id # -1
  BY DEF StateTypes, TitleOf, Title, File
<1>2. InHand = Current(r).id /\ RollingBack = (Kind[r] = "down")
  BY HandHolds
<1>3. InHand' = -1 /\ RollingBack' = FALSE
  BY DEF InHand, RollingBack
<1> HIDE DEF title
<1>4. CASE Kind[r] = "up"
  <2>1. IdSeq(recorded') = Append(IdSeq(recorded), InHand)
    BY <1>1, <1>2, <1>4, IdSeqAppend DEF title
  <2>2. Ledger!Enter
    BY <1>1, <1>2, <1>3, <1>4, <2>1 DEF Ledger!Enter, Ledger!Free
  <2> QED BY <2>2 DEF LedgerStep, Ledger!Next
<1>5. CASE Kind[r] # "up"
  <2>1. IdSeq(recorded') = Front(IdSeq(recorded))
    BY <1>1, <1>5, IdSeqFront
  <2>2. Ledger!Enter
    <3>1. Ledger!Front(IdSeq(recorded)) = Front(IdSeq(recorded))
      BY DEF Ledger!Front, Front
    <3>2. RollingBack = TRUE
      BY <1>2, <1>5
    <3> QED BY <1>1, <1>2, <1>3, <2>1, <3>1, <3>2 DEF Ledger!Enter, Ledger!Free
  <2> QED BY <2>2 DEF LedgerStep, Ledger!Next
<1> QED BY <1>4, <1>5

LEMMA LedgerAbandons ==
    ASSUME NEW r \in Run, Unfinished = {r}, Unfinished' = {}, UNCHANGED <<applied, recorded>>, Current(r) \in File
    PROVE  LedgerStep
<1>1. Current(r).id # -1
  BY DEF File
<1>2. InHand = Current(r).id /\ InHand' = -1 /\ RollingBack' = FALSE
  BY HandHolds DEF InHand, RollingBack
<1>3. Ledger!Abandon
  BY <1>1, <1>2 DEF Ledger!Abandon, Ledger!Free
<1> QED BY <1>3 DEF LedgerStep, Ledger!Next

(* A migration takes effect, and the run goes on to record it or is lost. *)
LEMMA LedgerEffect ==
    ASSUME StateTypes, NEW r \in Run, Unfinished = {}, Unfinished' \in {{}, {r}}, UNCHANGED <<recorded, todo>>,
           Current(r).id \in Id, Current(r).id \in Ids(recorded) <=> Kind[r] # "up", Kind[r] \in {"up", "down"},
           Kind[r] = "down" => recorded # <<>> /\ Current(r).id = Last(recorded).id,
           Effect(r, IF Kind[r] = "up" THEN 1 ELSE -1)
    PROVE  LedgerStep
<1> DEFINE mine == Current(r).id
<1>1. recorded \in Seq(Title) /\ Current(r)' = Current(r) /\ IdSeq(recorded') = IdSeq(recorded)
  BY DEF StateTypes, Current
<1>2. InHand = -1 /\ RollingBack = FALSE
  BY HandEmpty
<1>3. Unfinished' = {r} => InHand' = mine /\ RollingBack' = (Kind[r] = "down")
  <2>1. Unfinished' = {r} => Saving' = r
    BY DEF Saving
  <2> QED BY <1>1, <2>1 DEF InHand, RollingBack
<1>4. Unfinished' = {} => InHand' = -1 /\ RollingBack' = FALSE
  BY DEF InHand, RollingBack
<1>5. CASE Kind[r] = "up"
  <2>1. applied' = [applied EXCEPT ![mine] = @ + 1]
    BY <1>5 DEF Effect
  <2>2. Unfinished' = {r} => RollingBack' = FALSE
    BY <1>3, <1>5
  <2> HIDE DEF mine
  <2>3. Ledger!TakeEffect(mine, 1)
    <3>1. \/ InHand' = mine /\ RollingBack' = FALSE
          \/ InHand' = InHand /\ RollingBack' = RollingBack
      BY <1>2, <1>3, <1>4, <2>2
    <3>2. (1 = -1) = FALSE
      OBVIOUS
    <3> QED BY <1>1, <1>2, <2>1, <3>1, <3>2 DEF Ledger!TakeEffect
  <2>4. mine \notin Ledger!ToSet(IdSeq(recorded))
    BY <1>1, <1>5, IdSeqIs DEF mine, Ledger!ToSet, ToSet
  <2>5. Ledger!Apply(mine)
    BY <2>3, <2>4 DEF Ledger!Apply
  <2>6. mine \in Id
    BY DEF mine
  <2> QED BY <2>5, <2>6 DEF LedgerStep, Ledger!Next
<1>6. CASE Kind[r] = "down"
  <2>1. applied' = [applied EXCEPT ![mine] = @ + (-1)]
    BY <1>6 DEF Effect
  <2>2. Unfinished' = {r} => RollingBack' = TRUE
    BY <1>3, <1>6
  <2> HIDE DEF mine
  <2>3. Ledger!TakeEffect(mine, -1)
    <3>1. \/ InHand' = mine /\ RollingBack' = TRUE
          \/ InHand' = InHand /\ RollingBack' = RollingBack
      BY <1>2, <1>3, <1>4, <2>2
    <3> QED BY <1>1, <1>2, <2>1, <3>1 DEF Ledger!TakeEffect
  <2>4. IdSeq(recorded) # <<>> /\ mine = Ledger!Last(IdSeq(recorded))
    BY <1>1, <1>6, IdSeqIs DEF mine, Ledger!Last, Last
  <2>5. Ledger!RollBack(mine)
    BY <2>3, <2>4 DEF Ledger!RollBack
  <2>6. mine \in Id
    BY DEF mine
  <2> QED BY <2>5, <2>6 DEF LedgerStep, Ledger!Next
<1> QED BY <1>5, <1>6

LEMMA LedgerIdle == ASSUME UNCHANGED <<recorded, applied>>, Unfinished' = Unfinished, \A q \in Unfinished : Current(q)' = Current(q)
                    PROVE  LedgerStep
<1>1. IdSeq(recorded)' = IdSeq(recorded)
  OBVIOUS
<1>2. CASE Unfinished = {}
  <2>1. InHand' = -1 /\ RollingBack' = FALSE
    BY <1>2 DEF InHand, RollingBack
  <2> QED BY <1>1, <1>2, <2>1, HandEmpty DEF LedgerStep
<1>3. CASE Unfinished # {}
  <2>1. Saving \in Unfinished /\ Saving' = Saving
    BY <1>3 DEF Saving
  <2>2. Current(Saving)' = Current(Saving)
    BY <2>1 DEF Current
  <2>3. InHand' = InHand /\ RollingBack' = RollingBack
    BY <1>3, <2>1, <2>2 DEF InHand, RollingBack
  <2> QED BY <1>1, <2>3 DEF LedgerStep
<1> QED BY <1>2, <1>3

LEMMA LedgerQuiet ==
    ASSUME MigrationInv, UNCHANGED <<pc, applied, recorded>>,
           NEW r \in Run, NEW place, Advance(r, place),
           at[r] \in {"load", "up", "down"}, place \in {"returned", "threw", "up", "down", "crashed"},
           \A q \in Run \ {r} : todo'[q] = todo[q]
    PROVE  LedgerStep
<1>1. StateTypes /\ DataInv /\ at' = [at EXCEPT ![r] = place]
  BY DEF MigrationInv, StateInv, Advance
<1>2. Unfinished' = Unfinished
  BY <1>1, QuietMove
<1>3. \A q \in Unfinished : q \in Run \ {r}
  BY DEF Unfinished
<1> QED BY <1>2, <1>3, LedgerIdle DEF Current

LEMMA LedgerRun ==
    ASSUME TypeOK, MutualExclusion, MigrationInv, MigrationInv', NEW r \in Run, RunnerStep(r)
    PROVE  LedgerStep
<1>1. /\ Alone /\ StateTypes /\ RunsInv /\ DataInv /\ RunsInv'
      /\ PlaceOK(r) /\ PlaceOK(r)' /\ AheadOK(r) /\ CopyOK(r) /\ Kind[r] \in {"up", "down"}
  BY RunnerAssumption DEF MigrationInv, StateInv, RunsInv
<1>2. UNCHANGED vars /\ UNCHANGED pc /\ Runs(r)
  BY DEF RunnerStep, LoadState, MigrationUp, MigrationThrows, ReloadState, SaveState, StateError, LoadError,
         LoadForDown, MigrationDown, SaveDown, DownError, KillDown, Within, vars
<1>3. ASSUME at[r] \in MidPlaces, NEW place, Advance(r, place), \A q \in Run \ {r} : todo'[q] = todo[q]
      PROVE  /\ Executing(r) /\ Current(r) \in File /\ Current(r).id \in Id
             /\ Current(r).id \in Ids(recorded) <=> Kind[r] # "up"
             /\ Unfinished = IF at[r] \in {"reload", "save", "saveDown"} THEN {r} ELSE {}
             /\ Unfinished' = IF place \in {"reload", "save", "saveDown"} THEN {r} ELSE {}
  <2>1. Executing(r) /\ at' = [at EXCEPT ![r] = place]
    BY <1>2, <1>3 DEF Executing, MidPlaces, Advance
  <2>2. Current(r) \in File /\ Current(r).id \in Id
    BY <1>1, <1>3, CurrentIs
  <2>3. Current(r).id \in Ids(recorded) <=> Kind[r] # "up"
    BY <1>1, <2>1, CurrentRecorded
  <2> QED BY <1>1, <1>2, <1>3, <2>1, <2>2, <2>3, Mover
<1>4. ASSUME at[r] \in {"up", "down"}, NEW place \in {"reload", "saveDown", "lost"}, Advance(r, place), UNCHANGED <<recorded, todo>>,
             Effect(r, IF Kind[r] = "up" THEN 1 ELSE -1)
      PROVE  LedgerStep
  <2>1. /\ Executing(r) /\ Current(r).id \in Id /\ (Current(r).id \in Ids(recorded) <=> Kind[r] # "up")
        /\ Unfinished = {} /\ Unfinished' \in {{}, {r}}
    BY <1>3, <1>4 DEF MidPlaces
  <2>2. Kind[r] = "down" => recorded # <<>> /\ Current(r).id = Last(recorded).id
    BY <1>1, <2>1 DEF AheadOK
  <2> QED BY <1>1, <1>4, <2>1, <2>2, LedgerEffect
<1>5. ASSUME at[r] \in {"save", "saveDown"}, NEW place \in {"returned", "threw", "up"}, Advance(r, place),
             \A q \in Run \ {r} : todo'[q] = todo[q], UNCHANGED applied,
             IF Kind[r] = "up" THEN Store(r) ELSE recorded' = Front(copy[r])
      PROVE  LedgerStep
  <2>1. Executing(r) /\ Current(r) \in File /\ Unfinished = {r} /\ Unfinished' = {}
    BY <1>3, <1>5 DEF MidPlaces
  <2>2. copy[r] = recorded
    BY <1>1, <1>5, <2>1 DEF CopyOK
  <2>3. Kind[r] # "up" => recorded # <<>>
    BY <1>1, <2>1 DEF AheadOK
  <2> QED BY <1>1, <1>5, <2>1, <2>2, <2>3, LedgerEnters DEF Store
<1>6. ASSUME at[r] \in {"reload", "save", "saveDown"}, NEW place \in {"lost", "crashed"}, Advance(r, place),
             UNCHANGED <<applied, recorded, todo>>
      PROVE  LedgerStep
  <2>1. Current(r) \in File /\ Unfinished = {r} /\ Unfinished' = {}
    BY <1>3, <1>6 DEF MidPlaces
  <2> QED BY <1>6, <2>1, LedgerAbandons
<1>7. CASE LoadState(r) \/ LoadError(r) \/ LoadForDown(r)
  <2>1. /\ UNCHANGED <<applied, recorded>> /\ at[r] = "load"
        /\ \E place \in {"returned", "threw", "up", "down"} : Advance(r, place)
        /\ \A q \in Run \ {r} : todo'[q] = todo[q]
    BY <1>1, <1>7 DEF LoadState, LoadError, LoadForDown, Within, StateTypes
  <2> QED BY <1>2, <2>1, LedgerQuiet
<1>8. CASE MigrationUp(r)
  <2>1. Kind[r] = "up"
    BY <1>1, <1>8 DEF MigrationUp, Within, PlaceOK, DownPlaces
  <2> QED BY <1>4, <1>8, <2>1 DEF MigrationUp, Within
<1>9. CASE MigrationThrows(r)
  <2>1. Kind[r] = "up" /\ at[r] = "up" /\ UNCHANGED <<recorded, todo>>
    BY <1>1, <1>9 DEF MigrationThrows, Within, PlaceOK, DownPlaces
  <2>2. CASE Advance(r, "threw") /\ UNCHANGED applied
    BY <1>2, <2>1, <2>2, LedgerQuiet
  <2>3. CASE Advance(r, "lost") /\ Effect(r, 1)
    BY <1>4, <2>1, <2>3
  <2> QED BY <1>9, <2>2, <2>3 DEF MigrationThrows
<1>10. CASE ReloadState(r)
  <2>1. at[r] = "reload" /\ Advance(r, "save") /\ UNCHANGED <<recorded, applied, todo>>
    BY <1>10 DEF ReloadState, Within
  <2>2. Unfinished' = Unfinished
    BY <1>3, <2>1 DEF MidPlaces
  <2> QED BY <2>1, <2>2, LedgerIdle DEF Current
<1>11. CASE SaveState(r)
  <2>1. /\ Kind[r] = "up" /\ at[r] = "save" /\ Store(r) /\ UNCHANGED applied
        /\ \E place \in {"returned", "up"} : Advance(r, place)
        /\ \A q \in Run \ {r} : todo'[q] = todo[q]
    BY <1>1, <1>11 DEF SaveState, Within, PlaceOK, DownPlaces, StateTypes
  <2> QED BY <1>5, <2>1
<1>12. CASE StateError(r)
  <2>1. Kind[r] = "up" /\ at[r] \in {"reload", "save"} /\ UNCHANGED <<applied, todo>>
    BY <1>1, <1>12 DEF StateError, Within, PlaceOK, DownPlaces
  <2>2. CASE Advance(r, "lost") /\ UNCHANGED recorded
    BY <1>6, <2>1, <2>2
  <2>3. CASE at[r] = "save" /\ Store(r) /\ Advance(r, "threw")
    BY <1>5, <2>1, <2>3
  <2> QED BY <1>12, <2>2, <2>3 DEF StateError, Within
<1>13. CASE MigrationDown(r)
  <2>1. Kind[r] # "up"
    BY <1>1, <1>13 DEF MigrationDown, Within, PlaceOK, UpPlaces
  <2> QED BY <1>4, <1>13, <2>1 DEF MigrationDown, Within
<1>14. CASE SaveDown(r)
  <2>1. Kind[r] # "up"
    BY <1>1, <1>14 DEF SaveDown, Within, PlaceOK, UpPlaces
  <2> QED BY <1>5, <1>14, <2>1 DEF SaveDown, Within
<1>15. CASE DownError(r)
  <2>1. Kind[r] # "up" /\ at[r] \in {"down", "saveDown"} /\ UNCHANGED todo
    BY <1>1, <1>15 DEF DownError, Within, PlaceOK, UpPlaces
  <2>2. CASE at[r] = "down" /\ Advance(r, "threw") /\ UNCHANGED <<recorded, applied>>
    BY <1>2, <2>1, <2>2, LedgerQuiet
  <2>3. CASE at[r] = "down" /\ Advance(r, "lost") /\ Effect(r, -1) /\ UNCHANGED recorded
    BY <1>4, <2>1, <2>3
  <2>4. CASE at[r] = "saveDown" /\ Advance(r, "lost") /\ UNCHANGED <<recorded, applied>>
    BY <1>6, <2>1, <2>4
  <2>5. CASE at[r] = "saveDown" /\ Advance(r, "threw") /\ recorded' = Front(copy[r]) /\ UNCHANGED applied
    BY <1>5, <2>1, <2>5
  <2> QED BY <1>15, <2>2, <2>3, <2>4, <2>5 DEF DownError, Within
<1>16. CASE KillDown(r)
  <2>1. Advance(r, "crashed") /\ UNCHANGED <<recorded, applied, todo>>
    BY <1>16 DEF KillDown
  <2>2. at[r] \in {"load", "down", "saveDown"}
    BY <1>1, <1>2, <1>16 DEF KillDown, PlaceOK, DownPlaces, Runs
  <2>3. CASE at[r] = "saveDown"
    BY <1>6, <2>1, <2>3
  <2>4. CASE at[r] # "saveDown"
    BY <1>2, <2>1, <2>2, <2>4, LedgerQuiet
  <2> QED BY <2>3, <2>4
<1> QED BY <1>7, <1>8, <1>9, <1>10, <1>11, <1>12, <1>13, <1>14, <1>15, <1>16 DEF RunnerStep

(* A run that dies inside the lock abandons what it had in hand; no other  *)
(* step of the lock is seen.                                               *)
LEMMA LedgerLock == ASSUME TypeOK, MutualExclusion, MigrationInv, NEW r \in Run, LockedStep(r)
                    PROVE  LedgerStep
<1>1. /\ Alone /\ StateTypes /\ RunsInv /\ PlaceOK(r) /\ Kind[r] = "up"
      /\ UNCHANGED <<recorded, applied, at, todo, copy>>
  BY DEF MigrationInv, StateInv, RunsInv, LockedStep, runnerVars
<1>2. /\ \A q \in Run \ {r} : pc'[q] = pc[q]
      /\ pc'[r] = "hold" => pc[r] \in {"hold", "try"}
  BY LockMoves DEF LockedStep
<1>3. \A q \in Run \ {r} : q \in Unfinished' <=> q \in Unfinished
  BY <1>1, <1>2 DEF Runs, Working, Unfinished
<1>4. r \in Unfinished' => r \in Unfinished
  BY <1>1, <1>2 DEF Runs, Working, Unfinished, PlaceOK, Ended
<1>5. Unfinished \subseteq Run /\ Unfinished' \subseteq Run
  BY DEF Unfinished
<1>6. CASE r \in Unfinished /\ r \notin Unfinished'
  <2>1. \A q \in Unfinished : Executing(q)
    BY DEF Unfinished, Executing
  <2>2. Unfinished = {r}
    BY <1>1, <1>5, <1>6, <2>1, OneExecutes
  <2>3. Unfinished' = {}
    BY <1>3, <1>5, <1>6, <2>2
  <2>4. Current(r) \in File
    BY <1>1, <1>6, CurrentIs DEF Unfinished, MidPlaces
  <2> QED BY <1>1, <2>2, <2>3, <2>4, LedgerAbandons
<1>7. CASE r \in Unfinished' <=> r \in Unfinished
  <2>1. Unfinished' = Unfinished
    BY <1>3, <1>5, <1>7
  <2> QED BY <1>1, <2>1, LedgerIdle DEF Current
<1> QED BY <1>4, <1>6, <1>7

(* up() and down() keep the promise of the ledger: a recorded migration is  *)
(* not applied again, and only the last one is rolled back.                *)
THEOREM LedgerCorrect == ASSUME Punctual PROVE AloneSpec => ImplementsLedger
<1>1. ASSUME TypeOK, MutualExclusion, MigrationInv, MigrationInv', [AloneNext]_allVars
      PROVE  LedgerStep
  <2>1. ASSUME UNCHANGED <<pc, runnerVars>> PROVE LedgerStep
    <3>1. UNCHANGED <<pc, recorded, applied, at, todo>>
      BY <2>1 DEF runnerVars
    <3>2. Unfinished' = Unfinished
      BY <3>1 DEF Unfinished, Runs, Working
    <3> QED BY <3>1, <3>2, LedgerIdle DEF Current
  <2>2. (Tick \/ Over) => UNCHANGED pc
    BY DEF Tick, Over, vars
  <2>3. UNCHANGED allVars => UNCHANGED <<pc, runnerVars>>
    BY DEF allVars, vars
  <2> QED BY <1>1, <2>1, <2>2, <2>3, LedgerRun, LedgerLock DEF AloneNext, RunnerNext
<1>2. TypeOK /\ MutualExclusion /\ MigrationInv /\ MigrationInv' /\ [AloneNext]_allVars
         => [Ledger!Next]_<<IdSeq(recorded), applied, InHand, RollingBack>>
  BY <1>1 DEF LedgerStep
<1> QED BY <1>2, LedgerInit, MigrationInvariant, PTL DEF AloneSpec, ImplementsLedger, Ledger!Spec

=============================================================================
