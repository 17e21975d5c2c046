------------------------------ MODULE RoleCache ------------------------------
(***************************************************************************)
(* The roles a session of Better-Auth is given: the cache of mapSessionUser *)
(* (src/core/modules/better-auth/core-better-auth-user.mapper.ts) on every  *)
(* replica, against the calls of the user service that change roles and     *)
(* verification.  Only the replica that serves such a call is told, and     *)
(* only of a user who is known to be linked to Better-Auth.                 *)
(***************************************************************************)
EXTENDS Replicas, Functions

CONSTANTS
    Member,     \* the users with a session
    Roles,      \* what a user's roles may be
    Asker,      \* requests with a session
    Changer,    \* calls of the user service
    RoleTtl,    \* USER_CACHE_TTL_MS
    CacheMax,   \* USER_CACHE_MAX
    LookupTime  \* bound: the longest an asker waits for MongoDB

ASSUME RoleAssumption == {RoleTtl, LookupTime} \subseteq Nat /\ CacheMax \in Nat \ {0}

VARIABLES
    stands,   \* of each user: the roles and verification in MongoDB
    linked,   \* users whose document has an iamId
    cached,   \* userCache of each replica, oldest entry first
    askers,   \* what each request is doing
    changers, \* what each call is doing
    stood     \* history: when each answer was last the right one

roleVars == <<stands, linked, cached, askers, changers, stood>>

Standing == [roles : Roles, verified : BOOLEAN]
Deleted  == [roles |-> "none", verified |-> FALSE]   \* there is no document

NotAsking   == [does |-> "nothing"]
NotChanging == [does |-> "nothing"]
Over        == [does |-> "over"]
Does(c, what) == changers[c].does = what

RolesInit ==
    /\ now = 0
    /\ stands \in [Member -> Standing]
    /\ linked \in SUBSET Member
    /\ cached = [rep \in Replica |-> <<>>]
    /\ askers = [a \in Asker |-> NotAsking]
    /\ changers = [c \in Changer |-> NotChanging]
    /\ stood = [m \in Member |-> [s \in Standing \cup {Deleted} |-> IF s = stands[m] THEN 0 ELSE -1]]

-----------------------------------------------------------------------------
(* mapSessionUser *)
Entries(rep, m) == {i \in DOMAIN cached[rep] : cached[rep][i].of = m}

Served(rep, m)  == {i \in Entries(rep, m) : now < cached[rep][i].expiresAt}

(* A request that hits changes nothing. *)
MapUser(a, rep, m) ==
    /\ askers[a] = NotAsking
    /\ Served(rep, m) = {}
    /\ askers' = [askers EXCEPT ![a] = [does |-> "asks", on |-> rep, of |-> m, since |-> now]]
    /\ UNCHANGED <<now, stands, linked, cached, changers, stood>>

FindUser(a) ==
    /\ askers[a].does = "asks"
    /\ askers' = [askers EXCEPT ![a] =
                    [does |-> "knows", on |-> @.on, of |-> @.of, since |-> @.since,
                     is |-> stands[@.of], excused |-> FALSE]]
    /\ UNCHANGED <<now, stands, linked, cached, changers, stood>>

(* The oldest entry makes room; an entry that is there keeps its place. *)
cacheUserData(rep, entry) ==
    LET room  == IF Len(cached[rep]) >= CacheMax THEN Tail(cached[rep]) ELSE cached[rep]
        there == {i \in DOMAIN room : room[i].of = entry.of}
    IN  IF there = {} THEN Append(room, entry) ELSE [room EXCEPT ![CHOOSE i \in there : TRUE] = entry]

(* A user who is not found is not remembered. *)
Answer(a) ==
    LET q == askers[a]
        e == [of |-> q.of, is |-> q.is, excused |-> q.excused, expiresAt |-> now + RoleTtl]
    IN  /\ q.does = "knows"
        /\ cached' = IF RoleTtl = 0 \/ q.is = Deleted THEN cached
                     ELSE [cached EXCEPT ![q.on] = cacheUserData(q.on, e)]
        /\ askers' = [askers EXCEPT ![a] = NotAsking]
        /\ UNCHANGED <<now, stands, linked, changers, stood>>

-----------------------------------------------------------------------------
(* The calls of the user service *)

(* History: an answer on these replicas that nobody will correct *)
Excused(reps, m) ==
    /\ cached' = [rep \in Replica |-> [i \in DOMAIN cached[rep] |->
            IF rep \in reps /\ cached[rep][i].of = m
            THEN [cached[rep][i] EXCEPT !.excused = TRUE] ELSE cached[rep][i]]]
    /\ askers' = [a \in Asker |->
            IF askers[a].does = "knows" /\ askers[a].on \in reps /\ askers[a].of = m
            THEN [askers[a] EXCEPT !.excused = TRUE] ELSE askers[a]]

Becomes(m, s) ==
    /\ stands' = [stands EXCEPT ![m] = s]
    /\ stood' = [stood EXCEPT ![m] = [@ EXCEPT ![s] = now]]

(* What a call is asked for: the fields of its input *)
Inputs == {Restrict(s, has) : s \in Standing, has \in SUBSET {"roles", "verified"}}
Asked  == {input \in [op : {"setRoles", "update"}, new : Inputs] :
              input.op = "setRoles" => DOMAIN input.new = {"roles"}}
Merged(s, input) == [field \in DOMAIN s |-> IF field \in DOMAIN input.new THEN input.new[field] ELSE s[field]]

(* update has read the user, for the iamId, before it comes to CrudService. *)
StartChange(c, rep, m, input) ==
    /\ Does(c, "nothing")
    /\ stands[m] # Deleted
    /\ changers' = [changers EXCEPT ![c] =
                      [does |-> IF input.op = "update" THEN "reads" ELSE "writes", on |-> rep, of |-> m,
                       input |-> input, copy |-> stands[m], iam |-> m \in linked]]
    /\ UNCHANGED <<now, stands, linked, cached, askers, stood>>

(* CrudService.update: find, merge, write all of it *)
ReadForMerge(c) ==
    /\ Does(c, "reads")
    /\ LET found == stands[changers[c].of]
       IN  changers' = [changers EXCEPT ![c] = IF found = Deleted THEN Over
                                               ELSE [@ EXCEPT !.does = "writes", !.copy = found]]
    /\ UNCHANGED <<now, stands, linked, cached, askers, stood>>

(* Mutant: an update that verifies the user tells nobody. *)
TellsOfRoles(job) == "roles" \in DOMAIN job.input.new /\ (IF job.input.op = "update" THEN job.iam ELSE job.of \in linked)

(* Whether the cache is told: of a user who was linked when setRoles wrote,  *)
(* or when update began.                                                   *)
Tells(job) == DOMAIN job.input.new # {} /\ (IF job.input.op = "update" THEN job.iam ELSE job.of \in linked)

(* History: the calls that change roles of users they know to be linked *)
Owed(job) == DOMAIN job.input.new # {} /\ (IF job.input.op = "update" THEN job.iam ELSE job.of \in linked)

Written(c) ==
    LET job == changers[c]
    IN  /\ Does(c, "writes")
        /\ \/ stands[job.of] = Deleted /\ UNCHANGED <<stands, cached, askers, stood>>
              /\ changers' = [changers EXCEPT ![c] = Over]
           \/ /\ stands[job.of] # Deleted
              /\ Becomes(job.of, Merged(IF job.input.op = "update" THEN job.copy ELSE stands[job.of], job.input))
              /\ \E answered \in BOOLEAN :
                    /\ changers' = [changers EXCEPT ![c] = IF answered /\ Tells(job) THEN [@ EXCEPT !.does = "tells"] ELSE Over]
                    /\ Excused(IF answered /\ Owed(job) THEN Replica \ {job.on} ELSE Replica, job.of)
        /\ UNCHANGED <<now, linked>>

(* Map.delete *)
Without(rep, m) ==
    LET i == CHOOSE i \in Entries(rep, m) : TRUE
    IN  IF Entries(rep, m) = {} THEN cached[rep]
        ELSE SubSeq(cached[rep], 1, i - 1) \o SubSeq(cached[rep], i + 1, Len(cached[rep]))

(* Here only, and a request that has read before may still answer. *)
invalidateUserCache(c) ==
    LET job == changers[c]
    IN  /\ Does(c, "tells")
        /\ cached' = [cached EXCEPT ![job.on] = Without(job.on, job.of)]
        /\ askers' = [a \in Asker |->
                IF askers[a].does = "knows" /\ askers[a].on = job.on /\ askers[a].of = job.of
                THEN [askers[a] EXCEPT !.excused = TRUE] ELSE askers[a]]
        /\ changers' = [changers EXCEPT ![c] = Over]
        /\ UNCHANGED <<now, stands, linked, stood>>

(* These tell nobody. *)
Silently(m, s) ==
    /\ stands[m] # Deleted
    /\ Becomes(m, s)
    /\ Excused(Replica, m)
    /\ UNCHANGED <<now, changers>>

verify(m) == Silently(m, [stands[m] EXCEPT !.verified = TRUE]) /\ UNCHANGED linked
deleteUser(m) == Silently(m, Deleted) /\ UNCHANGED linked

(* A sign-in links the user, and copies what Better-Auth says of the address. *)
LinkUser(m) ==
    /\ \E verified \in BOOLEAN : Silently(m, [stands[m] EXCEPT !.verified = verified])
    /\ linked' = linked \cup {m}

(* An asker waits for LookupTime at most. *)
RolesTick ==
    /\ now < MaxTime
    /\ \A a \in Asker : askers[a] # NotAsking => now < askers[a].since + LookupTime
    /\ now' = now + 1
    /\ stood' = [m \in Member |-> [stood[m] EXCEPT ![stands[m]] = now + 1]]
    /\ UNCHANGED <<stands, linked, cached, askers, changers>>

RolesNext ==
    \/ \E a \in Asker : FindUser(a) \/ Answer(a) \/ \E rep \in Replica, m \in Member : MapUser(a, rep, m)
    \/ \E c \in Changer : \/ ReadForMerge(c) \/ Written(c) \/ invalidateUserCache(c)
                          \/ \E rep \in Replica, m \in Member, input \in Asked :
                                StartChange(c, rep, m, input)
    \/ \E m \in Member : verify(m) \/ deleteUser(m) \/ LinkUser(m)
    \/ RolesTick

RolesSpec == RolesInit /\ [][RolesNext]_<<now, roleVars>>

-----------------------------------------------------------------------------
RolesTypeOK ==
    /\ stands \in [Member -> Standing \cup {Deleted}]
    /\ linked \subseteq Member
    /\ \A rep \in Replica :
          /\ Len(cached[rep]) <= CacheMax
          /\ \A i, j \in DOMAIN cached[rep] : i # j => cached[rep][i].of # cached[rep][j].of
          /\ \A i \in DOMAIN cached[rep] :
                cached[rep][i] \in [of : Member, is : Standing, excused : BOOLEAN, expiresAt : 0..(MaxTime + RoleTtl)]
    /\ \A a \in Asker : askers[a].does \in {"nothing", "asks", "knows"}
    /\ \A c \in Changer : changers[c].does \in {"nothing", "reads", "writes", "tells", "over"}

(* What every replica would answer about m now *)
Answers(rep, m) == {cached[rep][i] : i \in Served(rep, m)}

(* Roles and verification that a request is given were those in MongoDB no  *)
(* longer ago than an entry lives and a lookup takes.                       *)
RolesBounded ==
    \A rep \in Replica, m \in Member : \A e \in Answers(rep, m) :
        stood[m][e.is] + RoleTtl + LookupTime >= now

(* "So changed roles take effect immediately": others are answered, on the  *)
(* replica that has changed them, only by a lookup that overtook the        *)
(* change, until the call that made it gets to tell; or if nobody was told, *)
(* as other replicas never are, nor anybody of a user without an iamId, of  *)
(* a verification, of a deletion or of the roles an update wrote back.      *)
RolesImmediate ==
    \A rep \in Replica, m \in Member : \A e \in Answers(rep, m) :
        e.is # stands[m] =>
            \/ e.excused
            \/ \E c \in Changer : Does(c, "tells") /\ changers[c].of = m /\ changers[c].on = rep

(* Roles that were taken away have no effect for longer than these two say. *)
RolesInEffect == RolesBounded /\ RolesImmediate
=============================================================================
