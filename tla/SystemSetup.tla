---------------------------- MODULE SystemSetup ----------------------------
(***************************************************************************)
(* The creation of the initial admin on a fresh deployment                 *)
(* (src/core/modules/system-setup/core-system-setup.service.ts):           *)
(* createInitialAdmin, called by every replica that boots with             *)
(* systemSetup.initialAdmin and by POST /system-setup/init, and the claim  *)
(* marker the callers serialise on.                                        *)
(*                                                                         *)
(* A member of Creator is one such call.  Each request to MongoDB is a     *)
(* step; the process may die between any two of them, and a request may    *)
(* fail before or after it took effect.                                    *)
(***************************************************************************)
EXTENDS Clock, FiniteSets

CONSTANTS
    Creator,
    Booting,   \* the creators that run on application bootstrap
    Email,     \* the address each of them was given
    Skew,      \* how far the clock of a creator's process is ahead
    Stale,     \* INITIAL_ADMIN_CLAIM_STALE_AFTER_MS
    Span       \* the longest a live creation takes

ASSUME SetupAssumption == /\ Booting \subseteq Creator
                          /\ Email \in [Creator -> STRING]
                          /\ Skew \in [Creator -> Nat]
                          /\ {Stale, Span} \subseteq Nat

VARIABLES
    claim,     \* claimedAt of the marker, or Free
    users,     \* addresses in the users collection
    accounts,  \* addresses with a credential account
    admins,    \* addresses whose user has the role admin
    pc,
    began,     \* when each creator looked at the users first
    unheard    \* history: creators told that the role could not be set, when it was

setupVars == <<now, claim, users, accounts, admins, pc, began, unheard>>

Free    == -1
Address == {Email[c] : c \in Creator}
Clock(c) == now + Skew[c]

Creating == {"user", "link", "sync", "roles", "password"}
Places   == {"idle", "status", "count", "expire", "claim", "release"} \cup Creating
            \cup {"done", "refused", "failed", "crashed"}
Live(c)  == pc[c] \notin {"idle", "done", "refused", "failed", "crashed"}

SetupInit ==
    /\ now = 0
    /\ claim = Free
    /\ users = {} /\ accounts = {} /\ admins = {}
    /\ pc = [c \in Creator |-> "idle"]
    /\ began = [c \in Creator |-> 0]
    /\ unheard = {}

Goto(c, place) == pc' = [pc EXCEPT ![c] = place]
At(c, place)   == pc[c] = place /\ UNCHANGED <<now, began>>
Marker         == UNCHANGED claim
People         == UNCHANGED <<users, accounts, admins, unheard>>

-----------------------------------------------------------------------------
Boot(c) ==
    /\ pc[c] = "idle"
    /\ began' = [began EXCEPT ![c] = now]
    /\ Goto(c, IF c \in Booting THEN "status" ELSE "count")
    /\ Marker /\ People /\ UNCHANGED now

(* getSetupStatus on bootstrap, then the same test in createInitialAdmin *)
Status(c) == At(c, "status") /\ Goto(c, IF users = {} THEN "count" ELSE "refused") /\ Marker /\ People

(* Mutant: the user count alone decides. *)
CountOnly(c) == At(c, "count") /\ Goto(c, IF users = {} THEN "user" ELSE "refused") /\ Marker /\ People

Count(c) == At(c, "count") /\ Goto(c, IF users = {} THEN "expire" ELSE "refused") /\ Marker /\ People

(* Mutant: claims do not expire. *)
NeverExpire(c) == At(c, "expire") /\ Goto(c, "claim") /\ Marker /\ People

(* claimInitialAdminSetup: delete a stale marker, then insert one. *)
ExpireClaim(c) ==
    /\ At(c, "expire")
    /\ claim' = IF claim # Free /\ claim < Clock(c) - Stale THEN Free ELSE claim
    /\ Goto(c, "claim")
    /\ People

Claim(c) ==
    /\ At(c, "claim")
    /\ IF claim = Free THEN claim' = Clock(c) /\ Goto(c, "user")
                       ELSE Marker /\ Goto(c, "refused")
    /\ People

-----------------------------------------------------------------------------
(* The creation, in the order of its requests.  Each throws into the catch *)
(* clause when it fails, or when its answer is lost.                       *)
Then(c, place) == Marker /\ (Goto(c, place) \/ Goto(c, "release"))

(* The unique index on the address refuses a second user. *)
CreateUser(c) ==
    /\ At(c, "user")
    /\ IF Email[c] \in users THEN Goto(c, "release") /\ Marker /\ UNCHANGED users
       ELSE users' = users \cup {Email[c]} /\ Then(c, "link")
    /\ UNCHANGED <<accounts, admins, unheard>>

(* Mutant: the user goes on without the account that could not be linked. *)
LinkIfPossible(c) ==
    /\ At(c, "link")
    /\ accounts' \in {accounts, accounts \cup {Email[c]}}
    /\ Goto(c, "sync") /\ Marker
    /\ UNCHANGED <<users, admins, unheard>>

LinkAccount(c) ==
    /\ At(c, "link")
    /\ accounts' = accounts \cup {Email[c]}
    /\ Then(c, "sync")
    /\ UNCHANGED <<users, admins, unheard>>

(* linkOrCreateUser: an upsert by address *)
SyncUser(c) ==
    /\ At(c, "sync")
    /\ users' = users \cup {Email[c]}
    /\ Then(c, "roles")
    /\ UNCHANGED <<accounts, admins, unheard>>

(* The only request after which an admin exists. *)
SetRoles(c) ==
    /\ At(c, "roles")
    /\ admins' = admins \cup {Email[c]}
    /\ Then(c, "password")
    /\ unheard' = IF pc'[c] = "release" THEN unheard \cup {c} ELSE unheard
    /\ UNCHANGED <<users, accounts>>

(* syncPasswordToLegacy swallows its errors; the claim stays. *)
SyncPassword(c) == At(c, "password") /\ Goto(c, "done") /\ Marker /\ People

(* A request that fails without effect *)
CreationFails(c) ==
    /\ pc[c] \in {"user", "link", "sync", "roles"} /\ UNCHANGED <<now, began>>
    /\ Goto(c, "release")
    /\ Marker /\ People

(* releaseInitialAdminSetupClaim deletes whichever marker there is; an      *)
(* error of its own is logged.                                             *)
Release(c) ==
    /\ At(c, "release")
    /\ claim' \in {Free, claim}
    /\ Goto(c, "failed")
    /\ People

(* An error outside the try block is thrown, whatever it left behind. *)
DbError(c) ==
    /\ \/ /\ pc[c] \in {"status", "count", "expire"} /\ UNCHANGED <<now, began>>
          /\ Marker
       \/ /\ At(c, "claim")
          /\ claim' \in {claim, IF claim = Free THEN Clock(c) ELSE claim}
    /\ Goto(c, "failed")
    /\ People

Crash(c) ==
    /\ Live(c) /\ UNCHANGED <<now, began>>
    /\ Goto(c, "crashed")
    /\ Marker /\ People

(* A live creator is done within Span. *)
SetupTick ==
    /\ now < MaxTime
    /\ \A c \in Creator : Live(c) => now < began[c] + Span
    /\ now' = now + 1
    /\ Marker /\ People /\ UNCHANGED <<pc, began>>

CreatorStep(c) ==
    \/ Boot(c) \/ Status(c) \/ Count(c) \/ ExpireClaim(c) \/ Claim(c)
    \/ CreateUser(c) \/ LinkAccount(c) \/ SyncUser(c) \/ SetRoles(c) \/ SyncPassword(c)
    \/ CreationFails(c) \/ Release(c) \/ DbError(c) \/ Crash(c)

SetupNext == SetupTick \/ \E c \in Creator : CreatorStep(c)
SetupSpec == SetupInit /\ [][SetupNext]_setupVars

-----------------------------------------------------------------------------
SetupTypeOK ==
    /\ now \in Nat
    /\ claim \in Nat \cup {Free}
    /\ users \subseteq Address /\ accounts \subseteq Address /\ admins \subseteq Address
    /\ pc \in [Creator -> Places]
    /\ began \in [Creator -> Nat]
    /\ unheard \subseteq Creator
    /\ admins \subseteq accounts \cap users   \* and can sign in

(* "A slow but live creation is never stolen": twice the time a creation    *)
(* takes, and the difference of two clocks, fit in the life of a claim.     *)
SlowEnough == \A c, d \in Creator : 2 * Span + Skew[d] - Skew[c] <= Stale

(* The claim of createInitialAdmin: callers that raced through the user     *)
(* count with different addresses do not both get an admin.  (One who was   *)
(* told that the role could not be set, when it was, has given the claim    *)
(* back all the same.)                                                      *)
OneAdmin == \A a, b \in admins : a # b => \E c \in unheard : Email[c] \in {a, b}

(* A claim whose creator died does not block the setup: whoever is refused  *)
(* by a claim is refused by one that a live creation may still hold, or     *)
(* that expired while it asked.                                             *)
RefusedByFreshClaim ==
    [][\A c \in Creator : pc[c] = "claim" /\ pc'[c] = "refused"
          => Clock(c) - claim <= Stale + Span]_setupVars

(* "If creation fails, the marker is removed again so a later boot can      *)
(* retry": when every creation has ended, and none by a crash, there is an  *)
(* admin or the setup is still open.                                        *)
RetryPossible ==
    (\A c \in Creator : ~ Live(c) /\ pc[c] # "crashed") => admins # {} \/ users = {}
=============================================================================
