-------------------------- MODULE MigrationRunner --------------------------
(***************************************************************************)
(* MigrationRunner.up() and down()                                         *)
(* (src/core/modules/migrate/migration-runner.ts) on the state collection  *)
(* of MongoStateStore.  up() runs inside the lock of MigrationLock (a store *)
(* that opts out of the lock is not modelled); down() never takes it.      *)
(*                                                                         *)
(* applied counts, per migration, how often its up() changed the data less *)
(* how often its down() changed it back.                                   *)
(***************************************************************************)
EXTENDS MigrationLock, Sequences, FiniteSets, SequencesExt

CONSTANTS
    Kind,      \* what each run does: "up" or "down"
    Files,     \* the migration files in each run's image
    Strict,    \* whether each run was started with strict: true
    Recorded0  \* the titles in the state collection at the beginning

VARIABLES
    recorded,  \* the migrations array of the state document
    applied,   \* how often each migration is in effect
    at,        \* where each run is in runUp or down
    todo,      \* the pending migrations it still has to run
    copy       \* the migrations array it read last

runnerVars == <<recorded, applied, at, todo, copy>>
allVars    == <<vars, runnerVars>>

(* A file, and the title under which it is recorded: its name. *)
File  == [id : Nat, ext : {"js", "ts"}, up : BOOLEAN, down : BOOLEAN]
Title == [id : Nat, ext : {"js", "ts"}]
TitleOf(f) == [id |-> f.id, ext |-> f.ext]

(* migrationId: the name without its extension *)
Ids(titles) == {titles[i].id : i \in DOMAIN titles}
Id == Ids(Recorded0) \cup UNION {{f.id : f \in Files[r]} : r \in Run}

(* A directory is finite and has no two files of one name. *)
Directory(files) == /\ files \subseteq File /\ IsFiniteSet(files)
                    /\ \A f, g \in files : TitleOf(f) = TitleOf(g) => f = g

ASSUME RunnerAssumption ==
    /\ Kind \in [Run -> {"up", "down"}]
    /\ DOMAIN Files = Run /\ \A r \in Run : Directory(Files[r])
    /\ Strict \in [Run -> BOOLEAN]
    /\ Recorded0 \in Seq(Title)

(* loadMigrationFiles: one file per id, .js before .ts, and a file without *)
(* an up function is as good as absent.                                    *)
loadMigrationFiles(r) ==
    LET runnable == {f \in Files[r] : f.up}
    IN  {f \in runnable : f.ext = "ts" => ~ \E g \in runnable : g.id = f.id /\ g.ext = "js"}

PresentIds(r) == {f.id : f \in loadMigrationFiles(r)}

(* In name order, as they are loaded and run. *)
InOrder(files) == CHOOSE s \in SetToSeqs(files) : \A i, j \in DOMAIN s : i < j => s[i].id < s[j].id

(* Mutant: pending by the state read before the run waited for the lock. *)
PendingAtStart(r, titles) == InOrder({f \in loadMigrationFiles(r) : f.id \notin Ids(Recorded0)})

(* Mutant: a file is recorded only under its own extension. *)
PendingByTitle(r, titles) == InOrder({f \in loadMigrationFiles(r) : TitleOf(f) \notin ToSet(titles)})

Pending(r, titles) == InOrder({f \in loadMigrationFiles(r) : f.id \notin Ids(titles)})

RunnerInit ==
    /\ Init
    /\ recorded = Recorded0
    /\ applied = [m \in Id |-> 0]
    /\ at = [r \in Run |-> "load"]
    /\ todo = [r \in Run |-> <<>>]
    /\ copy = [r \in Run |-> <<>>]

(* The run executes runUp or down: a locked one between acquire and release. *)
Runs(r) == IF Kind[r] = "up" THEN Working(r)
           ELSE at[r] \notin {"crashed", "returned", "threw", "lost"}

Advance(r, place) == at' = [at EXCEPT ![r] = place]
Current(r) == Head(todo[r])

(* Inside a step of runUp or down the lock only sees time stand still. *)
Within(r, place) == Runs(r) /\ at[r] = place /\ UNCHANGED vars

-----------------------------------------------------------------------------
(* runUp *)

LoadState(r) ==
    /\ Kind[r] = "up"
    /\ Within(r, "load")
    /\ LET pending == Pending(r, recorded)
           missing == Ids(recorded) \ PresentIds(r)
       IN  IF Strict[r] /\ missing # {}
           THEN Advance(r, "threw") /\ UNCHANGED todo
           ELSE /\ todo' = [todo EXCEPT ![r] = pending]
                /\ Advance(r, IF pending = <<>> THEN "returned" ELSE "up")
    /\ UNCHANGED <<recorded, applied, copy>>

Effect(r, by) == applied' = [applied EXCEPT ![Current(r).id] = @ + by]

MigrationUp(r) ==
    /\ Within(r, "up")
    /\ Effect(r, 1)
    /\ Advance(r, "reload")
    /\ UNCHANGED <<recorded, todo, copy>>

(* migration.up() throws, before or after it changed the data. *)
MigrationThrows(r) ==
    /\ Within(r, "up")
    /\ \/ Advance(r, "threw") /\ UNCHANGED applied
       \/ Advance(r, "lost") /\ Effect(r, 1)
    /\ UNCHANGED <<recorded, todo, copy>>

(* Mutant: the state is not read again before it is replaced. *)
KeepOldState(r) ==
    /\ Within(r, "reload")
    /\ copy' = [copy EXCEPT ![r] = Recorded0]
    /\ Advance(r, "save")
    /\ UNCHANGED <<recorded, applied, todo>>

ReloadState(r) ==
    /\ Within(r, "reload")
    /\ copy' = [copy EXCEPT ![r] = recorded]
    /\ Advance(r, "save")
    /\ UNCHANGED <<recorded, applied, todo>>

Store(r) == recorded' = Append(copy[r], TitleOf(Current(r)))

SaveState(r) ==
    /\ Within(r, "save")
    /\ Store(r)
    /\ todo' = [todo EXCEPT ![r] = Tail(@)]
    /\ Advance(r, IF Len(todo[r]) = 1 THEN "returned" ELSE "up")
    /\ UNCHANGED <<applied, copy>>

(* The load or the save after the migration fails; the save may have been  *)
(* applied and only its answer lost.                                       *)
StateError(r) ==
    /\ \/ /\ Within(r, "reload") \/ Within(r, "save")
          /\ Advance(r, "lost")
          /\ UNCHANGED recorded
       \/ /\ Within(r, "save")
          /\ Store(r)
          /\ Advance(r, "threw")
    /\ UNCHANGED <<applied, todo, copy>>

LoadError(r) ==
    /\ Within(r, "load")
    /\ Advance(r, "threw")
    /\ UNCHANGED <<recorded, applied, todo, copy>>

-----------------------------------------------------------------------------
(* down: the state is read once, before the rollback, and written after it *)

(* The file of the last recorded migration, if it is there and has a down(). *)
ToRollBack(r) == {f \in loadMigrationFiles(r) : f.id = Last(recorded).id /\ f.down}

LoadForDown(r) ==
    /\ Kind[r] = "down"
    /\ Within(r, "load")
    /\ copy' = [copy EXCEPT ![r] = recorded]
    /\ \/ recorded = <<>> /\ Advance(r, "returned") /\ UNCHANGED todo
       \/ recorded # <<>> /\ \E f \in ToRollBack(r) : Advance(r, "down") /\ todo' = [todo EXCEPT ![r] = <<f>>]
       \/ recorded # <<>> /\ ToRollBack(r) = {} /\ Advance(r, "threw") /\ UNCHANGED todo
    /\ UNCHANGED <<recorded, applied>>

MigrationDown(r) ==
    /\ Within(r, "down")
    /\ Effect(r, -1)
    /\ Advance(r, "saveDown")
    /\ UNCHANGED <<recorded, todo, copy>>

(* Mutant: shift() instead of pop(). *)
SaveDownFirst(r) ==
    /\ Within(r, "saveDown")
    /\ recorded' = Tail(copy[r])
    /\ Advance(r, "returned")
    /\ UNCHANGED <<applied, todo, copy>>

SaveDown(r) ==
    /\ Within(r, "saveDown")
    /\ recorded' = Front(copy[r])
    /\ Advance(r, "returned")
    /\ UNCHANGED <<applied, todo, copy>>

-----------------------------------------------------------------------------
(* The rollback throws, before or after it changed the data, or the save   *)
(* after it fails; this save too may have been applied, only its answer    *)
(* lost.                                                                    *)
DownError(r) ==
    /\ \/ Within(r, "down") /\ Advance(r, "threw") /\ UNCHANGED <<recorded, applied>>
       \/ Within(r, "down") /\ Advance(r, "lost") /\ Effect(r, -1) /\ UNCHANGED recorded
       \/ Within(r, "saveDown") /\ Advance(r, "lost") /\ UNCHANGED <<recorded, applied>>
       \/ Within(r, "saveDown") /\ Advance(r, "threw") /\ recorded' = Front(copy[r]) /\ UNCHANGED applied
    /\ UNCHANGED <<todo, copy>>

(* A rollback is killed. *)
KillDown(r) ==
    /\ Kind[r] = "down"
    /\ Runs(r)
    /\ Advance(r, "crashed")
    /\ UNCHANGED <<vars, recorded, applied, todo, copy>>

RunnerStep(r) ==
    \/ LoadState(r) \/ MigrationUp(r) \/ MigrationThrows(r) \/ ReloadState(r)
    \/ SaveState(r) \/ StateError(r) \/ LoadError(r)
    \/ LoadForDown(r) \/ MigrationDown(r) \/ SaveDown(r) \/ DownError(r) \/ KillDown(r)

(* withMigrationLock: the lock around the run, given back when it ends *)
LockedStep(r) ==
    /\ Kind[r] = "up"
    /\ \/ LockStep(r)
       \/ Finish(r) /\ at[r] \in {"returned", "threw", "lost"}
    /\ UNCHANGED runnerVars

RunnerNext ==
    \/ \E r \in Run : RunnerStep(r) \/ LockedStep(r)
    \/ (Tick \/ Over) /\ UNCHANGED runnerVars

RunnerSpec == RunnerInit /\ [][RunnerNext]_allVars

(* An operator who rolls back, without a lock, only while nothing else runs. *)
Busy(r) == Runs(r) /\ at[r] # "load"
Alone == \A r, s \in Run : r # s /\ Busy(r) /\ Busy(s) => Kind[r] = "up" /\ Kind[s] = "up"
AloneNext == RunnerNext /\ Alone'
AloneSpec == RunnerInit /\ [][AloneNext]_allVars

-----------------------------------------------------------------------------
RunnerTypeOK ==
    /\ TypeOK
    /\ recorded \in Seq(Title)
    /\ applied \in [Id -> Int]
    /\ at \in [Run -> {"load", "up", "reload", "save", "down", "saveDown",
                       "returned", "threw", "lost", "crashed"}]
    /\ todo \in [Run -> Seq(File)]
    /\ copy \in [Run -> Seq(Title)]

(* A run ended between the migration's effect and its record. *)
EndedUnrecorded(r) == at[r] = "lost" \/ (at[r] \in {"reload", "save"} /\ ~ Runs(r))
Torn == {Current(r).id : r \in {q \in Run : EndedUnrecorded(q)}}

(* The claim of up(): reading the state inside the lock keeps a replica     *)
(* that waited from applying a migration a second time.  The one exception  *)
(* the code leaves is a run that ended between up() and saveAsync().        *)
AppliedTwiceOnlyIfTorn == \A m \in Id : applied[m] > 1 => m \in Torn

(* An up() that returns leaves nothing of its own image pending: nobody's   *)
(* later save threw a record away (load, push, replace of one document).    *)
ReturnLeavesNothingPending ==
    [][\A r \in Run : Kind[r] = "up" /\ at[r] # "returned" /\ at'[r] = "returned"
          => PresentIds(r) \subseteq Ids(recorded')]_allVars

(* The state document matches the data whenever no run is in between.       *)
StateMatchesData ==
    (\A r \in Run : at[r] \in {"load", "up", "down", "returned", "threw"})
        => \A m \in Id \ Ids(Recorded0) : applied[m] = (IF m \in Ids(recorded) THEN 1 ELSE 0)

(* The types, and that what the state document says is true of the data. *)
RunnerInv == RunnerTypeOK /\ StateMatchesData

(* Of all runs, at most one is executing migrations. *)
Executing(r) == Runs(r) /\ at[r] \in {"up", "reload", "save", "down", "saveDown"}
OneMachineAtATime == \A r, s \in Run : Executing(r) /\ Executing(s) => r = s

(* The runner implements the ledger: what the state collection holds, and   *)
(* the migration of the one run that is between its effect and the save.    *)
Unfinished == {r \in Run : Runs(r) /\ at[r] \in {"reload", "save", "saveDown"}}
Saving     == CHOOSE r \in Unfinished : TRUE

IdSeq(titles) == [i \in DOMAIN titles |-> titles[i].id]
InHand        == IF Unfinished = {} THEN -1 ELSE Current(Saving).id
RollingBack   == Unfinished # {} /\ Kind[Saving] = "down"

Ledger == INSTANCE MigrationLedger WITH
    None    <- -1,
    Ledger0 <- IdSeq(Recorded0),
    ledger  <- IdSeq(recorded),
    current <- InHand,
    back    <- RollingBack

ImplementsLedger == Ledger!Spec
=============================================================================
