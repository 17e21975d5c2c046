---------------------------- MODULE TenantCache ----------------------------
(***************************************************************************)
(* The two caches of CoreTenantGuard (src/core/modules/tenant/             *)
(* core-tenant.guard.ts) on every replica, filled by lookups and cleared by *)
(* the calls of TenantMembership, across replicas through Redis.           *)
(*                                                                         *)
(* A lookup reads its clock, asks MongoDB and stores the answer: three     *)
(* steps, with calls, invalidations and other lookups between them.        *)
(* "membership" is findMembershipCached, "tenantIds" is                    *)
(* resolveUserTenantIds; both find the role of an active member or nothing *)
(* (whether the tenant is in the list follows from the role).              *)
(***************************************************************************)
EXTENDS TenantMembership, Clock

CONSTANTS
    Replica,
    Home,       \* the replica that serves each call
    Lookup,     \* requests that look somebody up, of any replica
    Redis,      \* whether invalidations are broadcast
    Ttl,        \* cacheTtlMs
    QueryTime   \* bound: the longest a lookup waits for the database

ASSUME CacheAssumption == /\ Home \in [Call -> Replica]
                          /\ Redis \in BOOLEAN
                          /\ {Ttl, QueryTime} \subseteq Nat

VARIABLES
    cache,      \* membershipCache and tenantIdsCache of each replica
    lookup,     \* the lookups in flight
    inbox,      \* broadcast invalidations a replica has yet to receive
    lastTrue    \* history: when each answer was last the right one

cacheVars == <<now, cache, lookup, inbox, lastTrue>>
tenantVars == <<memberVars, cacheVars>>

Kind == {"membership", "tenantIds"}
Key  == User \X Kind

(* The role of an active member; NoRole for everybody else. *)
Answer   == Role \cup {NoRole}
Truth(u) == IF Active(u) THEN members[u].role ELSE NoRole

(* excused is history: the invalidation that should have removed this       *)
(* answer ran too early or never will.                                      *)
Entry   == [answer : Answer, expiresAt : Nat, excused : BOOLEAN]
NoEntry == [answer |-> NoRole, expiresAt |-> 0, excused |-> FALSE]
Idle    == [at |-> "idle"]
Asked   == [at : {"asking"}, replica : Replica, key : Key, asked : Nat]
Told    == [at : {"told"}, replica : Replica, key : Key, asked : Nat,
            answer : Answer, excused : BOOLEAN]

CacheInit ==
    /\ MembersInit
    /\ now = 0
    /\ cache = [rep \in Replica |-> [k \in Key |-> NoEntry]]
    /\ lookup = [l \in Lookup |-> Idle]
    /\ inbox = [rep \in Replica |-> {}]
    /\ lastTrue = [u \in User |-> [a \in Answer |-> 0]]

Live(rep, k) == now < cache[rep][k].expiresAt

-----------------------------------------------------------------------------
(* A lookup that misses.  One that hits answers from the cache and changes *)
(* nothing.                                                                *)
Ask(l, rep, k) ==
    /\ lookup[l] = Idle
    /\ ~ Live(rep, k)
    /\ lookup' = [lookup EXCEPT ![l] = [at |-> "asking", replica |-> rep, key |-> k, asked |-> now]]
    /\ UNCHANGED <<memberVars, now, cache, inbox, lastTrue>>

Evaluate(l) ==
    /\ lookup[l].at = "asking"
    /\ lookup' = [lookup EXCEPT ![l] =
                    [at |-> "told", replica |-> @.replica, key |-> @.key, asked |-> @.asked,
                     answer |-> Truth(@.key[1]), excused |-> FALSE]]
    /\ UNCHANGED <<memberVars, now, cache, inbox, lastTrue>>

(* Mutant: every entry lives for a Ttl from the moment it is stored, and    *)
(* one that is there already is renewed.                                    *)
ExpiryRenewed(q) == IF cache[q.replica][q.key].answer = q.answer
                    THEN cache[q.replica][q.key].expiresAt + Ttl ELSE now + Ttl

(* A membership is trusted for a Ttl from before it was asked for, a list   *)
(* of tenants for a Ttl from when it arrived.                               *)
Expiry(q) == (IF q.key[2] = "membership" THEN q.asked ELSE now) + Ttl

(* A missing membership is not cached: a stale positive one goes away.      *)
Stored(q) == IF q.key[2] = "membership" /\ q.answer = NoRole THEN NoEntry
             ELSE [answer |-> q.answer, expiresAt |-> Expiry(q), excused |-> q.excused]

Fill(l) ==
    /\ lookup[l].at = "told"
    /\ cache' = IF Ttl = 0 THEN cache
                ELSE [cache EXCEPT ![lookup[l].replica][lookup[l].key] = Stored(lookup[l])]
    /\ lookup' = [lookup EXCEPT ![l] = Idle]
    /\ UNCHANGED <<memberVars, now, inbox, lastTrue>>

-----------------------------------------------------------------------------
(* Invalidation *)

(* Mutant: only the membership cache is cleared. *)
ClearedMembership(rep, u) ==
    [k \in Key |-> IF k = <<u, "membership">> THEN NoEntry ELSE cache[rep][k]]

Cleared(rep, u) == [k \in Key |-> IF k[1] = u THEN NoEntry ELSE cache[rep][k]]

(* Answers for u on these replicas that no invalidation will take away. *)
ExcusedEntries(rep, u) ==
    [k \in Key |-> [cache[rep][k] EXCEPT !.excused = @ \/ (k[1] = u /\ Live(rep, k))]]
ExcusedLookups(reps, u) ==
    [l \in Lookup |-> IF lookup[l].at = "told" /\ lookup[l].replica \in reps /\ lookup[l].key[1] = u
                      THEN [lookup[l] EXCEPT !.excused = TRUE] ELSE lookup[l]]

(* clearUser here; the others never hear of it, or still will. *)
Clear(here, u, unheard) ==
    /\ cache' = [rep \in Replica |-> IF rep \in here THEN Cleared(rep, u)
                                     ELSE IF rep \in unheard THEN ExcusedEntries(rep, u)
                                     ELSE cache[rep]]
    /\ lookup' = ExcusedLookups(here \cup unheard, u)

(* invalidateUser, when the answer of a write arrives: clear, then publish, *)
(* which is not awaited and may fail.  The publisher is subscribed as well. *)
Invalidate(c) ==
    LET u == request[c].user
    IN  /\ Return(c)
        /\ \/ /\ Redis
              /\ inbox' = [rep \in Replica |-> inbox[rep] \cup {u}]
              /\ Clear({Home[c]}, u, {})
           \/ /\ UNCHANGED inbox
              /\ Clear({Home[c]}, u, Replica \ {Home[c]})
        /\ UNCHANGED <<now, lastTrue>>

(* applyInvalidation on a subscriber *)
Receive(rep, u) ==
    /\ u \in inbox[rep]
    /\ inbox' = [inbox EXCEPT ![rep] = @ \ {u}]
    /\ Clear({rep}, u, {})
    /\ UNCHANGED <<memberVars, now, lastTrue>>

(* A subscriber that is reconnecting misses the message. *)
Miss(rep, u) ==
    /\ u \in inbox[rep]
    /\ inbox' = [inbox EXCEPT ![rep] = @ \ {u}]
    /\ Clear({}, u, {rep})
    /\ UNCHANGED <<memberVars, now, lastTrue>>

(* evictIfOverCapacity: entries of other users push this one out. *)
EvictOldest(rep, k) ==
    /\ Live(rep, k)
    /\ cache' = [cache EXCEPT ![rep][k] = NoEntry]
    /\ UNCHANGED <<memberVars, now, lookup, inbox, lastTrue>>

evictExpired(rep) ==
    /\ cache' = [cache EXCEPT ![rep] = [k \in Key |-> IF Live(rep, k) THEN @[k] ELSE NoEntry]]
    /\ UNCHANGED <<memberVars, now, lookup, inbox, lastTrue>>

-----------------------------------------------------------------------------
NewlyTrue(time) == lastTrue' = [u \in User |-> [lastTrue[u] EXCEPT ![Truth(u)'] = time]]

(* The call changes the rows, and the caches do not know yet. *)
Change(c) ==
    /\ CallStep(c)
    /\ NewlyTrue(now)
    /\ UNCHANGED <<now, cache, lookup, inbox>>

(* A call that fails after its write invalidates nothing. *)
FailedCall(c) ==
    /\ Fail(c)
    /\ IF at[c] = "written" THEN Clear({}, request[c].user, Replica)
       ELSE UNCHANGED <<cache, lookup>>
    /\ UNCHANGED <<now, inbox, lastTrue>>

(* A lookup waits for QueryTime at most. *)
Tick ==
    /\ now < MaxTime
    /\ \A l \in Lookup : lookup[l].at # "idle" => now < lookup[l].asked + QueryTime
    /\ now' = now + 1
    /\ UNCHANGED <<memberVars, cache, lookup, inbox>>
    /\ NewlyTrue(now + 1)

CacheNext ==
    \/ \E c \in Call : Change(c) \/ Invalidate(c) \/ FailedCall(c)
    \/ \E l \in Lookup : Evaluate(l) \/ Fill(l) \/ \E rep \in Replica, k \in Key : Ask(l, rep, k)
    \/ \E rep \in Replica : \/ evictExpired(rep)
                            \/ \E u \in User : Receive(rep, u) \/ Miss(rep, u)
                            \/ \E k \in Key : EvictOldest(rep, k)
    \/ Tick

CacheSpec == CacheInit /\ [][CacheNext]_tenantVars

-----------------------------------------------------------------------------
CacheTypeOK ==
    /\ MembersTypeOK
    /\ now \in Nat
    /\ cache \in [Replica -> [Key -> Entry]]
    /\ lookup \in [Lookup -> {Idle} \cup Asked \cup Told]
    /\ inbox \in [Replica -> SUBSET User]
    /\ lastTrue \in [User -> [Answer -> Nat]]

(* The bound the documentation gives for a cache that misses an             *)
(* invalidation: what the guard answers from its cache was the truth less   *)
(* than a Ttl ago; for the list of tenants, less than a Ttl and the time of *)
(* the query that found it.                                                 *)
BoundedStaleness ==
    \A rep \in Replica, k \in Key :
        Live(rep, k) => now - lastTrue[k[1]][cache[rep][k].answer]
                          < Ttl + (IF k[2] = "membership" THEN 0 ELSE QueryTime)

(* Why an answer in a cache may be wrong at all: its invalidation is still  *)
(* on the way (the call has not returned, the broadcast not arrived), was   *)
(* lost, or came while the lookup that stored the answer was between its    *)
(* query and the cache.  There is no other reason.                          *)
Expected(rep, u) == \/ u \in inbox[rep]
                    \/ \E c \in Call : at[c] = "written" /\ request[c].user = u
StaleOnlyIfRaced ==
    \A rep \in Replica, k \in Key :
        Live(rep, k) /\ cache[rep][k].answer # Truth(k[1])
            => Expected(rep, k[1]) \/ cache[rep][k].excused

(* "Removed memberships lead to immediate denial", on the replica that      *)
(* removed the member and told its caller so.                               *)
ImmediateDenial ==
    \A c \in Call :
        at[c] = "done" /\ request[c].op = "remove" /\ ~ Active(request[c].user)
            => ~ Live(Home[c], <<request[c].user, "membership">>)
=============================================================================
