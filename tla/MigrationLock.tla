---------------------------- MODULE MigrationLock ----------------------------
(***************************************************************************)
(* The lock that serialises `migrate up` between replicas                  *)
(* (src/core/modules/migrate/mongo-state-store.ts): acquireLock, the       *)
(* heartbeat that keeps the lock fresh, the takeover of a lock whose       *)
(* heartbeat stopped, and releaseLock.                                     *)
(*                                                                         *)
(* One member of Run is one call of withMigrationLock (or of               *)
(* synchronizedMigration) by one process.  acquireLock draws a random      *)
(* token per call, so the run itself stands for its token, and, since a    *)
(* run inserts at most one document, for that document's _id as well.      *)
(* A replica that restarts after a crash is another member of Run.         *)
(*                                                                         *)
(* Every request to MongoDB is one atomic step, and other runs and the     *)
(* clock move between any two of them.  The time between the moment a      *)
(* process reads its clock and the moment the database applies the write   *)
(* that carries the reading is the parameter d of Upsert and Heartbeat, so *)
(* a slow heartbeat may also overtake, and undo, a later one.              *)
(***************************************************************************)
EXTENDS Integers

CONSTANTS
    Run,        \* the calls that ask for the lock
    Nobody,     \* no lock document exists
    OldRelease, \* owner of a document an older release left, never stamped
    Skew,       \* how far the clock of a run's process is ahead
    Stale,      \* LOCK_STALE_AFTER_MS
    Beat,       \* LOCK_HEARTBEAT_INTERVAL_MS
    Wait,       \* LOCK_WAIT_TIMEOUT_MS
    Latency,    \* longest time a write spends between process and database
    Lateness,   \* how long a process keeps a timer that is due waiting
    MaxGap,     \* longest time a live holder goes without a refresh
    LastStart,  \* bound: no call is made after this time
    MaxTime     \* bound: the clock stops here

ASSUME OwnersAssumption == /\ Nobody \notin Run
                           /\ OldRelease \notin Run
                           /\ Nobody # OldRelease
ASSUME TimesAssumption  == /\ Skew \in [Run -> Nat]
                           /\ {Stale, Beat, Wait, Latency, Lateness, MaxGap, LastStart, MaxTime} \subseteq Nat

VARIABLES
    now,        \* real time
    owner,      \* owner (and _id) of the lock document
    acquiredAt, \* its acquiredAt field
    pc,         \* where each run is
    seen,       \* the document a waiting run read last
    deadline,   \* when a waiting run gives up, on its own clock
    due         \* when the next heartbeat of a holder fires

vars == <<now, owner, acquiredAt, pc, seen, deadline, due>>

Missing == -1      \* the document has no acquiredAt field

Owner     == Run \cup {OldRelease, Nobody}
Stamp     == Nat \cup {Missing}
Document  == [owner : Owner, acquiredAt : Stamp]

(* What is left of a run: nothing, whichever way it ended. *)
Ended     == {"done", "failed", "timedOut", "crashed"}
Asking    == {"try", "look", "judge", "stamp", "break", "wait"}
Places    == {"idle", "hold", "release"} \cup Asking \cup Ended

Clock(r)   == now + Skew[r]
NoDocument == [owner |-> Nobody, acquiredAt |-> Missing]

(* The run is inside the function it passed to withMigrationLock. *)
Working(r) == pc[r] = "hold"

(* How long ago, on its own clock, a holder last refreshed the document. *)
Gap(r) == Clock(r) - acquiredAt

Init ==
    /\ now = 0
    /\ owner \in {Nobody, OldRelease}
    /\ acquiredAt = Missing
    /\ pc = [r \in Run |-> "idle"]
    /\ seen = [r \in Run |-> NoDocument]
    /\ deadline = [r \in Run |-> 0]
    /\ due = [r \in Run |-> 0]

Goto(r, place) == pc' = [pc EXCEPT ![r] = place]

-----------------------------------------------------------------------------
(* acquireLock, one action per request it sends *)

Start(r) ==
    /\ pc[r] = "idle"
    /\ now <= LastStart
    /\ deadline' = [deadline EXCEPT ![r] = Clock(r) + Wait]
    /\ Goto(r, "try")
    /\ UNCHANGED <<now, owner, acquiredAt, seen, due>>

(* The upsert inserted: the run holds the lock and its heartbeat timer runs. *)
Insert(r, d) ==
    /\ pc[r] = "try"
    /\ owner = Nobody
    /\ Clock(r) >= d
    /\ owner' = r
    /\ acquiredAt' = Clock(r) - d

Acquire(r, d) ==
    /\ Insert(r, d)
    /\ due' = [due EXCEPT ![r] = now + Beat]
    /\ Goto(r, "hold")
    /\ UNCHANGED <<now, seen, deadline>>

(* The upsert inserted, the answer was lost: acquireLock throws and nobody *)
(* refreshes or releases the document.                                     *)
AcquireUnanswered(r, d) ==
    /\ Insert(r, d)
    /\ Goto(r, "failed")
    /\ UNCHANGED <<now, seen, deadline, due>>

(* Mutant: the upsert sets acquiredAt with $set, so that asking refreshes. *)
OccupiedRefreshes(r) ==
    /\ pc[r] = "try"
    /\ owner # Nobody
    /\ acquiredAt' = Clock(r)
    /\ Goto(r, "look")
    /\ UNCHANGED <<now, owner, seen, deadline, due>>

(* The upsert matched the existing document, which $setOnInsert leaves alone. *)
Occupied(r) ==
    /\ pc[r] = "try"
    /\ owner # Nobody
    /\ Goto(r, "look")
    /\ UNCHANGED <<now, owner, acquiredAt, seen, deadline, due>>

Look(r) ==
    /\ pc[r] = "look"
    /\ seen' = [seen EXCEPT ![r] = [owner |-> owner, acquiredAt |-> acquiredAt]]
    /\ Goto(r, IF owner = Nobody THEN "wait" ELSE "judge")
    /\ UNCHANGED <<now, owner, acquiredAt, deadline, due>>

(* Mutant: the takeover compares with the wrong interval. *)
IsStaleAfterBeat(r, doc) == Clock(r) - doc.acquiredAt > Beat

IsStale(r, doc) == Clock(r) - doc.acquiredAt > Stale

Judge(r) ==
    /\ pc[r] = "judge"
    /\ Goto(r, IF seen[r].acquiredAt = Missing THEN "stamp"
               ELSE IF IsStale(r, seen[r]) THEN "break" ELSE "wait")
    /\ UNCHANGED <<now, owner, acquiredAt, seen, deadline, due>>

(* A document without acquiredAt is stamped, so that its clock starts. *)
StampOld(r) ==
    /\ pc[r] = "stamp"
    /\ acquiredAt' = IF owner = seen[r].owner /\ acquiredAt = Missing
                     THEN Clock(r) ELSE acquiredAt
    /\ Goto(r, "wait")
    /\ UNCHANGED <<now, owner, seen, deadline, due>>

(* Mutant: deleteOne({_id}), without the acquiredAt that was judged. *)
SameOwner(r) == seen[r].owner = owner

(* deleteOne({_id, acquiredAt}): only the document that was judged, unrefreshed. *)
Unchanged(r) == seen[r] = [owner |-> owner, acquiredAt |-> acquiredAt]

Break(r) ==
    /\ pc[r] = "break"
    /\ owner' = IF Unchanged(r) THEN Nobody ELSE owner
    /\ acquiredAt' = IF Unchanged(r) THEN Missing ELSE acquiredAt
    /\ Goto(r, "try")
    /\ UNCHANGED <<now, seen, deadline, due>>

(* Mutant: the deadline is not looked at. *)
SleepAgain(r) ==
    /\ pc[r] = "wait"
    /\ Goto(r, "try")
    /\ UNCHANGED <<now, owner, acquiredAt, seen, deadline, due>>

Sleep(r) ==
    /\ pc[r] = "wait"
    /\ Goto(r, IF Clock(r) > deadline[r] THEN "timedOut" ELSE "try")
    /\ UNCHANGED <<now, owner, acquiredAt, seen, deadline, due>>

-----------------------------------------------------------------------------
(* startLockHeartbeat: the update is scoped to the owner's token, and its  *)
(* result is not looked at.                                                *)

Heartbeat(r, d) ==
    /\ Working(r)
    /\ now >= due[r]
    /\ Clock(r) >= d
    /\ acquiredAt' = IF owner = r THEN Clock(r) - d ELSE acquiredAt
    /\ due' = [due EXCEPT ![r] = now + Beat]
    /\ UNCHANGED <<now, owner, pc, seen, deadline>>

(* A heartbeat that fails is logged and dropped.  MaxGap bounds how many in *)
(* a row may fail: there is room for the next one to arrive in time.        *)
MissedBeat(r) ==
    /\ Working(r)
    /\ now >= due[r]
    /\ owner = r => Gap(r) + Beat + Latency <= MaxGap
    /\ due' = [due EXCEPT ![r] = now + Beat]
    /\ UNCHANGED <<now, owner, acquiredAt, pc, seen, deadline>>

-----------------------------------------------------------------------------
(* The end of the function, releaseLock, and what can go wrong *)

(* fn returned or threw; the finally clause stops the heartbeat. *)
Finish(r) ==
    /\ Working(r)
    /\ Goto(r, "release")
    /\ UNCHANGED <<now, owner, acquiredAt, seen, deadline, due>>

(* deleteOne({lock, owner: token}) *)
Release(r) ==
    /\ pc[r] = "release"
    /\ owner' = IF owner = r THEN Nobody ELSE owner
    /\ acquiredAt' = IF owner = r THEN Missing ELSE acquiredAt
    /\ Goto(r, "done")
    /\ UNCHANGED <<now, seen, deadline, due>>

(* A request fails: the call throws, and leaves the document as it is. *)
DbError(r) ==
    /\ pc[r] \in (Asking \ {"judge", "wait"}) \cup {"release"}
    /\ Goto(r, "failed")
    /\ UNCHANGED <<now, owner, acquiredAt, seen, deadline, due>>

Crash(r) ==
    /\ pc[r] \in Asking \cup {"hold", "release"}
    /\ Goto(r, "crashed")
    /\ UNCHANGED <<now, owner, acquiredAt, seen, deadline, due>>

(* Time passes, but no timer stays due for longer than Lateness, and no    *)
(* live holder goes without a refresh for more than MaxGap.                *)
Tick ==
    /\ now < MaxTime
    /\ \A r \in Run : Working(r) => /\ now <= due[r] + Lateness
                                    /\ owner = r => Gap(r) < MaxGap
    /\ now' = now + 1
    /\ UNCHANGED <<owner, acquiredAt, pc, seen, deadline, due>>

Over ==
    /\ now = MaxTime
    /\ \A r \in Run : pc[r] \in Ended \cup {"idle"}
    /\ UNCHANGED vars

-----------------------------------------------------------------------------
AskStep(r) == Occupied(r) \/ Look(r) \/ Judge(r) \/ StampOld(r) \/ Break(r) \/ Sleep(r)

AcquireStep(r) == \E d \in 0..Latency : Acquire(r, d) \/ AcquireUnanswered(r, d)

BeatStep(r) == MissedBeat(r) \/ \E d \in 0..Latency : Heartbeat(r, d)

Fault(r) == DbError(r) \/ Crash(r)

(* Everything the lock does around the function it protects. *)
LockStep(r) == \/ Start(r) \/ AcquireStep(r) \/ AskStep(r)
               \/ BeatStep(r) \/ Release(r) \/ Fault(r)

Next ==
    \/ \E r \in Run : LockStep(r) \/ Finish(r)
    \/ Tick
    \/ Over

(* A started process keeps running until it ends, and time passes.  Nothing *)
(* makes a migration end, and nothing makes a call happen.                  *)
Fairness ==
    /\ WF_vars(Tick)
    /\ \A r \in Run : /\ WF_vars(AskStep(r) \/ AcquireStep(r))
                      /\ WF_vars(BeatStep(r))
                      /\ WF_vars(Release(r))

Spec     == Init /\ [][Next]_vars
FairSpec == Spec /\ Fairness

-----------------------------------------------------------------------------
TypeOK ==
    /\ now \in Nat
    /\ owner \in Owner
    /\ acquiredAt \in Stamp
    /\ pc \in [Run -> Places]
    /\ seen \in [Run -> Document]
    /\ deadline \in [Run -> Nat]
    /\ due \in [Run -> Nat]

(* The refreshes of a live holder reach the database often enough for every *)
(* other process, whose clock may run ahead of the holder's.                *)
Punctual == /\ Latency <= MaxGap
            /\ \A r, w \in Run : MaxGap + Skew[w] - Skew[r] <= Stale

(* Claim of withMigrationLock: at most one replica is inside the function   *)
(* it protects, however runs crash, requests fail or locks are taken over.  *)
MutualExclusion == \A r, s \in Run : Working(r) /\ Working(s) => r = s

(* What MutualExclusion rests on, and what startLockHeartbeat is for: a run *)
(* that works owns the document, refreshed recently; and a run about to     *)
(* delete the document it read found it stale, and still would.             *)
HolderOwns == \A r \in Run : Working(r) => /\ owner = r
                                           /\ acquiredAt # Missing
                                           /\ Gap(r) <= MaxGap
BreaksStale == \A r \in Run : pc[r] = "break" => /\ seen[r].acquiredAt # Missing
                                                 /\ IsStale(r, seen[r])
SafetyInv == TypeOK /\ HolderOwns /\ BreaksStale

(* releaseLock and the takeover are scoped: whatever the heartbeats do, a   *)
(* document goes away only when its own run releases it, or when the        *)
(* process that removes it finds it stale at that very moment.              *)
RemovedByOwnerOrStale ==
    [][owner # Nobody /\ owner' # owner =>
         \/ owner \in Run /\ pc[owner] = "release"
         \/ acquiredAt # Missing /\ \E r \in Run : /\ pc[r] = "break"
                                                   /\ Clock(r) - acquiredAt > Stale]_vars

(* The claim of startLockHeartbeat: a lock is never taken from a run that   *)
(* is alive and working.                                                    *)
NeverTakenFromLive ==
    [][\A r \in Run : Working(r) /\ owner = r => owner' = r]_vars

(* The bound on time leaves a waiting run room to give up. *)
GivesUp(r) == deadline[r] < MaxTime + Skew[r]

(* acquireLock returns or throws: a run that asks gets the lock, times out  *)
(* or dies; it does not wait for ever, even behind a holder that is stuck.  *)
AskingEnds == \A r \in Run : pc[r] = "try" /\ GivesUp(r) ~> pc[r] \notin Asking

(* The reason there is a takeover: the document a dead run left is removed  *)
(* as long as somebody keeps asking (and does not die too).  Only a         *)
(* document that still becomes stale before the clock stops counts.         *)
DeadLockRemoved ==
    \A r, w \in Run :
        (/\ owner = r /\ pc[r] \in Ended
         /\ pc[w] = "try" /\ ~ GivesUp(w)
         /\ acquiredAt + Stale < MaxTime + Skew[w])
            ~> (owner # r \/ pc[w] \in {"failed", "crashed"})
=============================================================================
