------------------------ MODULE RequestAccessProofs ------------------------
(***************************************************************************)
(* Whose documents a request reads, for any tenants, roles, levels, routes,  *)
(* callers and settings of multi-tenancy.                                   *)
(*                                                                         *)
(* A request goes on with a context that was decided once, on memberships   *)
(* that may have changed since.  What remains true is that the context is   *)
(* that decision, and that the memberships it was taken on were there less  *)
(* than MaxAge before the request asked: the past does not change.          *)
(***************************************************************************)
EXTENDS RequestAccess, TLAPS

(* What was decided, and on what *)
Decided(q) ==
    /\ q.context = IF q.transport = "http" THEN canActivate(q.route, Authenticated(q.route, caller), q.header, q.found)
                   ELSE resolveTenantContext(caller, q.header, q.found)
    /\ q.context.allowed
    /\ q.asked \in 0..now /\ q.found \in Recent(q.asked)
    /\ q.transport \in {"http", "socket"} /\ q.route \in Route /\ q.header \in Header

DecisionsKept ==
    /\ caller \in Caller /\ now \in Nat /\ now <= MaxTime
    /\ DOMAIN held = 0..MaxTime
    /\ DOMAIN asking = Asking
    /\ \A k \in Asking : asking[k] # Free => Decided(asking[k])

-----------------------------------------------------------------------------
(* Roles and levels *)

LEMMA NobodyIsNoAdmin == ~ IsAdmin(Nobody)
BY DEF IsAdmin, Nobody

LEMMA SeenAsNoMore == ASSUME NEW route, NEW u PROVE Authenticated(route, u) \in {u, Nobody}
BY DEF Authenticated

(* A role of the tenant of a header satisfies the route only if it reaches  *)
(* one of its roles, or the platform has given one of them to the caller.   *)
LEMMA SatisfiedSuffices ==
    ASSUME NEW roles, NEW u, NEW role, SatisfiedIn(roles, u, role)
    PROVE  /\ role # None
           /\ roles = {} \/ \E r \in roles : IF r \in GlobalOnly THEN r \in u.roles ELSE Reaches(role, r)
<1>1. CASE roles = {} \/ roles \cap GlobalOnly \cap u.roles # {}
  BY <1>1 DEF SatisfiedIn
<1>2. CASE tenantSatisfiableRoles(roles) # {} /\ checkRoleAccess(tenantSatisfiableRoles(roles), {role})
  <2>1. PICK r \in tenantSatisfiableRoles(roles) : Reaches(role, r)
    BY <1>2 DEF checkRoleAccess
  <2>2. r \in roles /\ r \notin GlobalOnly
    BY DEF tenantSatisfiableRoles
  <2> QED BY <2>1, <2>2 DEF SatisfiedIn
<1> QED BY <1>1, <1>2 DEF SatisfiedIn

(* Levels are positive, so that a role without one reaches none of them.    *)
LEMMA AtLeastSuffices ==
    ASSUME NEW roles, NEW role, AtLeast(role, roles)
    PROVE  roles \cap DOMAIN Level = {} \/ \E r \in roles \cap DOMAIN Level : Reaches(role, r)
<1>1. CASE roles \cap DOMAIN Level # {}
  <2>1. PICK r \in roles \cap DOMAIN Level : (IF role \in DOMAIN Level THEN Level[role] ELSE 0) >= Level[r]
    BY <1>1 DEF AtLeast
  <2>2. Level[r] \in Nat \ {0}
    BY AccessAssumption
  <2>3. role \in DOMAIN Level
    BY <2>1, <2>2
  <2> QED BY <2>1, <2>3 DEF Reaches
<1> QED BY <1>1

-----------------------------------------------------------------------------
(* The decision *)

(* Which tenants the contexts of the guard let a query find *)
LEMMA FilterOf ==
    /\ resolveTenantFilter(Unscoped) = {} /\ resolveTenantFilter(Refused) = {}
    /\ ~ Refused.allowed
    /\ \A h \in Tenant, b \in BOOLEAN : resolveTenantFilter(Context(h, None, b)) = {h}
    /\ \A ts \in SUBSET Tenant : resolveTenantFilter(Context(None, ts, FALSE)) = ts
BY AccessAssumption DEF resolveTenantFilter, Unscoped, Refused, Context

(* Over HTTP, where roles decide, in the tenant of a header *)
LEMMA HeaderBacked ==
    ASSUME NEW roles, NEW u, NEW header \in Tenant, NEW m, NEW t \in resolveTenantFilter(WithHeader(roles, u, header, m))
    PROVE  IsAdmin(u) \/ (t = header /\ SatisfiedIn(roles, u, m[t]))
<1>1. CASE WithHeader(roles, u, header, m) = Refused
  BY <1>1, FilterOf
<1>2. CASE WithHeader(roles, u, header, m) = Context(header, None, FALSE) /\ SatisfiedIn(roles, u, m[header])
  BY <1>2, FilterOf
<1> QED BY <1>1, <1>2 DEF WithHeader

(* and in a list of tenants *)
LEMMA ListBacked ==
    ASSUME NEW roles, NEW u, NEW m, NEW t \in resolveTenantFilter(WithoutHeader(roles, u, m))
    PROVE  IsAdmin(u) \/ (t \in Tenant /\ m[t] # None /\ AtLeast(m[t], roles))
<1>1. CASE WithoutHeader(roles, u, m) \in {Unscoped, Refused}
  BY <1>1, FilterOf
<1>2. CASE WithoutHeader(roles, u, m) = Context(None, resolveUserTenantIds(m, roles), FALSE)
  <2>1. resolveUserTenantIds(m, roles) \in SUBSET Tenant
    BY DEF resolveUserTenantIds
  <2>2. t \in resolveUserTenantIds(m, roles)
    BY <1>2, <2>1, FilterOf
  <2> QED BY <2>2 DEF resolveUserTenantIds
<1> QED BY <1>1, <1>2 DEF WithoutHeader

(* where a system role has decided *)
LEMMA SystemRoleBacked ==
    ASSUME NEW u, NEW header \in Tenant, NEW m, NEW t \in resolveTenantFilter(handleSystemRoleWithTenantHeader(u, header, m))
    PROVE  IsAdmin(u) \/ m[t] # None
<1>1. CASE handleSystemRoleWithTenantHeader(u, header, m) = Refused
  BY <1>1, FilterOf
<1>2. CASE handleSystemRoleWithTenantHeader(u, header, m) = Context(header, None, FALSE) /\ m[header] # None
  BY <1>2, FilterOf
<1> QED BY <1>1, <1>2 DEF handleSystemRoleWithTenantHeader

(* and in any case: an admin, or a member whose role is enough.             *)
LEMMA DecisionBacked ==
    ASSUME NEW route, NEW u, NEW header \in Header, NEW m, NEW t \in resolveTenantFilter(canActivate(route, u, header, m))
    PROVE  \/ IsAdmin(u)
           \/ /\ m[t] # None
              /\ Decisive(route) = "roles" =>
                    IF header = None THEN AtLeast(m[t], Real(Roles(route))) ELSE SatisfiedIn(Real(Roles(route)), u, m[t])
<1> DEFINE roles == Real(Roles(route))
           c == canActivate(route, u, header, m)
           scoped == IF header = None \/ route.skip THEN Unscoped ELSE handleSystemRoleWithTenantHeader(u, header, m)
<1>0. header # None => header \in Tenant
  BY DEF Header
<1>1. Decisive(route) \in {"s_no_one", "s_everyone", "s_user", "s_verified", "roles"}
  BY DEF Decisive
<1>2. CASE c \in {Refused, Unscoped}
  BY <1>2, FilterOf
<1>3. CASE c = Context(header, None, FALSE) /\ header # None /\ m[header] # None /\ Decisive(route) = "s_everyone"
  BY <1>0, <1>3, FilterOf
<1>4. CASE c = scoped /\ Decisive(route) \in {"s_user", "s_verified"}
  <2>1. c \in {Refused, Unscoped} \/ (header # None /\ c = handleSystemRoleWithTenantHeader(u, header, m))
    BY <1>4
  <2> QED BY <1>0, <1>2, <1>4, <2>1, SystemRoleBacked
<1>5. CASE Decisive(route) = "roles" /\ header # None /\ c = WithHeader(roles, u, header, m)
  <2>1. IsAdmin(u) \/ SatisfiedIn(roles, u, m[t])
    BY <1>0, <1>5, HeaderBacked
  <2> QED BY <1>5, <2>1, SatisfiedSuffices
<1>6. CASE Decisive(route) = "roles" /\ header = None /\ c = WithoutHeader(roles, u, m)
  BY <1>6, ListBacked
<1> HIDE DEF c
<1>7. \/ c \in {Refused, Unscoped}
      \/ c = Context(header, None, FALSE) /\ header # None /\ m[header] # None /\ Decisive(route) = "s_everyone"
      \/ c = scoped /\ Decisive(route) \in {"s_user", "s_verified"}
      \/ Decisive(route) = "roles" /\ header # None /\ c = WithHeader(roles, u, header, m)
      \/ Decisive(route) = "roles" /\ header = None /\ c = WithoutHeader(roles, u, m)
  <2>1. CASE Decisive(route) = "s_no_one"
    BY <2>1 DEF canActivate, c
  <2>2. CASE Decisive(route) = "s_everyone"
    BY <2>2 DEF canActivate, c
  <2>3. CASE Decisive(route) = "s_user"
    BY <2>3 DEF canActivate, c
  <2>4. CASE Decisive(route) = "s_verified"
    BY <2>4 DEF canActivate, c
  <2>5. CASE Decisive(route) = "roles"
    BY <2>5 DEF canActivate, skipWithUserRoleCheck, c
  <2> QED BY <1>1, <2>1, <2>2, <2>3, <2>4, <2>5
<1> QED BY <1>2, <1>3, <1>4, <1>5, <1>6, <1>7

(* The scope of a subscription knows memberships, and no roles.             *)
LEMMA ScopeOfSubscription ==
    ASSUME NEW u, NEW header \in Header, NEW m, NEW t \in resolveTenantFilter(resolveTenantContext(u, header, m))
    PROVE  IsAdmin(u) \/ m[t] # None
<1>0. header # None => header \in Tenant
  BY DEF Header
<1>1. CASE resolveTenantContext(u, header, m) = Unscoped
  BY <1>1, FilterOf
<1>2. CASE header # None /\ m[header] # None /\ resolveTenantContext(u, header, m) = Context(header, None, FALSE)
  BY <1>0, <1>2, FilterOf
<1>3. CASE header = None /\ resolveTenantContext(u, header, m) = Context(None, resolveUserTenantIds(m, {}), FALSE)
  <2>1. resolveUserTenantIds(m, {}) \in SUBSET Tenant
    BY DEF resolveUserTenantIds
  <2> QED BY <1>3, <2>1, FilterOf DEF resolveUserTenantIds
<1> QED BY <1>1, <1>2, <1>3 DEF resolveTenantContext

(* The request reads what the decision was about.                           *)
LEMMA DecidedBacked ==
    ASSUME NEW q, Decided(q), NEW t \in resolveTenantFilter(q.context)
    PROVE  IsAdmin(caller) \/ \E m \in Recent(q.asked) : m[t] # None /\ Suffices(q, m[t])
<1> DEFINE u == Authenticated(q.route, caller)
           m == q.found
<1>1. q.header \in Header /\ m \in Recent(q.asked)
  BY DEF Decided
<1>2. CASE q.transport = "http"
  <2>1. t \in resolveTenantFilter(canActivate(q.route, u, q.header, m))
    BY <1>2 DEF Decided
  <2>2. \/ IsAdmin(u)
        \/ /\ m[t] # None
           /\ Decisive(q.route) = "roles" =>
                 IF q.header = None THEN AtLeast(m[t], Real(Roles(q.route)))
                                    ELSE SatisfiedIn(Real(Roles(q.route)), u, m[t])
    BY <1>1, <2>1, DecisionBacked
  <2>3. IsAdmin(u) => IsAdmin(caller)
    BY SeenAsNoMore, NobodyIsNoAdmin
  <2>4. u.roles \subseteq caller.roles
    BY SeenAsNoMore DEF Nobody
  <2>5. ASSUME Decisive(q.route) = "roles", ~ IsAdmin(u) PROVE Suffices(q, m[t])
    <3>1. CASE q.header = None
      BY <2>2, <2>5, <3>1, AtLeastSuffices DEF Suffices
    <3>2. CASE q.header # None
      BY <2>2, <2>4, <2>5, <3>2, SatisfiedSuffices DEF Suffices
    <3> QED BY <3>1, <3>2
  <2> QED BY <1>1, <2>2, <2>3, <2>5 DEF Suffices
<1>3. CASE q.transport # "http"
  <2>1. t \in resolveTenantFilter(resolveTenantContext(caller, q.header, m))
    BY <1>3 DEF Decided
  <2>2. IsAdmin(caller) \/ m[t] # None
    BY <1>1, <2>1, ScopeOfSubscription
  <2>3. Suffices(q, m[t])
    BY <1>3 DEF Suffices
  <2> QED BY <1>1, <2>2, <2>3
<1> QED BY <1>2, <1>3

LEMMA KeptSuffices == DecisionsKept => ScopeBacked
BY DecidedBacked DEF DecisionsKept, ScopeBacked

-----------------------------------------------------------------------------
(* The past: what was recently found stays so, and at any time the present  *)
(* memberships are among those of now.                                      *)
LEMMA RecentKept ==
    ASSUME now \in Nat, now <= MaxTime, DOMAIN held = 0..MaxTime, \A t \in 0..now : held[t] \subseteq held'[t],
           NEW asked \in 0..now
    PROVE  Recent(asked) \subseteq Recent(asked)'
BY TimeAssumption, AccessAssumption DEF Recent, Since

LEMMA DecidedKept ==
    ASSUME DecisionsKept, caller' = caller, now' \in Nat, now' >= now,
           \A t \in 0..now : held[t] \subseteq held'[t],
           NEW q, Decided(q)
    PROVE  Decided(q)'
<1>1. q.asked \in 0..now /\ q.found \in Recent(q.asked)
  BY DEF Decided
<1>2. q.found \in Recent(q.asked)'
  BY <1>1, RecentKept DEF DecisionsKept
<1>3. q.asked \in 0..now'
  BY <1>1 DEF DecisionsKept
<1> QED BY <1>2, <1>3 DEF Decided

(* A request that goes on, or ends, with the memberships and the time as    *)
(* they are                                                                 *)
LEMMA KeepKeeps ==
    ASSUME DecisionsKept, NEW k \in Asking, NEW r, Keep(k, r), r # Free => Decided(r)
    PROVE  DecisionsKept'
<1>1. /\ UNCHANGED <<caller, roleGuard, membership, held, now>> /\ DOMAIN asking' = Asking
      /\ asking'[k] = r /\ \A l \in Asking \ {k} : asking'[l] = asking[l]
  BY DEF Keep, DecisionsKept
<1>2. ASSUME NEW l \in Asking, asking'[l] # Free PROVE Decided(asking[l])'
  <2>1. CASE l = k
    BY <1>1, <1>2, <2>1 DEF Decided, Recent
  <2>2. CASE l # k
    BY <1>1, <1>2, <2>2 DEF Decided, Recent, DecisionsKept
  <2> QED BY <2>1, <2>2
<1> QED BY <1>1, <1>2 DEF DecisionsKept

(* Any other step keeps the past.                                           *)
LEMMA PastKeeps ==
    ASSUME DecisionsKept, UNCHANGED <<caller, asking>>, DOMAIN held' = DOMAIN held,
           now' \in Nat, now <= now', now' <= MaxTime,
           \A t \in 0..now : held[t] \subseteq held'[t]
    PROVE  DecisionsKept'
<1>1. ASSUME NEW k \in Asking, asking'[k] # Free PROVE Decided(asking[k])'
  <2>1. PICK q : q = asking[k]
    OBVIOUS
  <2>2. Decided(q)
    BY <1>1, <2>1 DEF DecisionsKept
  <2>3. Decided(q)'
    BY <2>2, DecidedKept DEF DecisionsKept
  <2>4. asking'[k] = q
    BY <2>1
  <2> QED BY <2>3, <2>4 DEF Decided
<1> QED BY <1>1 DEF DecisionsKept

-----------------------------------------------------------------------------
(* The scope of a subscription is always allowed: its access comes later.   *)
LEMMA ScopeAllowed == ASSUME NEW u, NEW header, NEW m PROVE resolveTenantContext(u, header, m).allowed
BY DEF resolveTenantContext, Unscoped, Context

LEMMA HttpKeeps ==
    ASSUME DecisionsKept, NEW k \in Asking, NEW route \in Route, NEW header \in Header, HttpRequest(k, route, header)
    PROVE  DecisionsKept'
<1>1. PICK m \in Recent(now) :
         LET c == canActivate(route, Authenticated(route, caller), header, m)
         IN  c.allowed /\ Keep(k, Inquiry("http", "serving", route, header, m, c))
  BY DEF HttpRequest
<1>2. PICK r : r = Inquiry("http", "serving", route, header, m, canActivate(route, Authenticated(route, caller), header, m))
  OBVIOUS
<1>3. Decided(r)
  BY <1>1, <1>2 DEF Decided, Inquiry, DecisionsKept
<1> QED BY <1>1, <1>2, <1>3, KeepKeeps DEF Keep

LEMMA SubscribeKeeps ==
    ASSUME DecisionsKept, NEW k \in Asking, NEW route \in Route, NEW header \in Header, Subscribe(k, route, header)
    PROVE  DecisionsKept'
<1>1. PICK m \in Recent(now) :
         Keep(k, Inquiry("socket", "opening", route, header, m, resolveTenantContext(caller, header, m)))
  BY DEF Subscribe
<1>2. PICK r : r = Inquiry("socket", "opening", route, header, m, resolveTenantContext(caller, header, m))
  OBVIOUS
<1>3. Decided(r)
  BY <1>2, ScopeAllowed DEF Decided, Inquiry, DecisionsKept
<1> QED BY <1>1, <1>2, <1>3, KeepKeeps DEF Keep

(* The access of a subscription leaves its scope as it was decided.         *)
LEMMA OpenedKeeps == ASSUME DecisionsKept, NEW k \in Asking, Opened(k) PROVE DecisionsKept'
<1>1. asking[k] # Free /\ Decided(asking[k])
  BY DEF Opened, Free, DecisionsKept
<1>2. PICK r : r = [asking[k] EXCEPT !.at = "serving"]
  OBVIOUS
<1>3. /\ r.context = asking[k].context /\ r.transport = asking[k].transport /\ r.route = asking[k].route
      /\ r.header = asking[k].header /\ r.found = asking[k].found /\ r.asked = asking[k].asked
  BY <1>2
<1>4. Decided(r)
  BY <1>1, <1>3 DEF Decided
<1> QED BY <1>2, <1>4, KeepKeeps DEF Opened, Keep

LEMMA ChangeKeeps == ASSUME DecisionsKept, NEW t, NEW role, ChangeMembership(t, role) PROVE DecisionsKept'
<1>1. DOMAIN held' = DOMAIN held /\ \A s \in 0..now : held[s] \subseteq held'[s]
  BY DEF ChangeMembership, DecisionsKept
<1> QED BY <1>1, PastKeeps DEF ChangeMembership, DecisionsKept

LEMMA LaterKeeps == ASSUME DecisionsKept, Later PROVE DecisionsKept'
<1>1. now' = now + 1 /\ now' \in Nat /\ now' <= MaxTime
  BY TimeAssumption DEF Later, DecisionsKept
<1>2. DOMAIN held' = DOMAIN held /\ \A s \in 0..now : held[s] = held'[s]
  BY DEF Later, DecisionsKept
<1> QED BY <1>1, <1>2, PastKeeps DEF Later, DecisionsKept

LEMMA KeptAtFirst == AccessInit => DecisionsKept
BY TimeAssumption DEF AccessInit, DecisionsKept

LEMMA KeptInductive == DecisionsKept /\ [AccessNext]_accessVars => DecisionsKept'
<1> SUFFICES ASSUME DecisionsKept, [AccessNext]_accessVars PROVE DecisionsKept'
  OBVIOUS
<1>1. CASE UNCHANGED accessVars
  BY <1>1, PastKeeps DEF accessVars, DecisionsKept
<1>2. ASSUME NEW k \in Asking, NEW route \in Route, NEW header \in Header, HttpRequest(k, route, header)
      PROVE  DecisionsKept'
  BY <1>2, HttpKeeps
<1>3. ASSUME NEW k \in Asking, NEW route \in Route, NEW header \in Header, Subscribe(k, route, header)
      PROVE  DecisionsKept'
  BY <1>3, SubscribeKeeps
<1>4. ASSUME NEW k \in Asking, Opened(k) PROVE DecisionsKept'
  BY <1>4, OpenedKeeps
<1>5. ASSUME NEW k \in Asking, End(k) PROVE DecisionsKept'
  BY <1>5, KeepKeeps DEF End
<1>6. ASSUME NEW t \in Tenant, NEW role, ChangeMembership(t, role) PROVE DecisionsKept'
  BY <1>6, ChangeKeeps
<1>7. CASE Later
  BY <1>7, LaterKeeps
<1> QED BY <1>1, <1>2, <1>3, <1>4, <1>5, <1>6, <1>7 DEF AccessNext

-----------------------------------------------------------------------------
(* A request reads documents of no tenant but those its caller was a member  *)
(* of, with a role the route asks for, less than MaxAge before it asked; of   *)
(* all of them only as an admin.                                             *)
THEOREM ScopeBackedCorrect == AccessSpec => []ScopeBacked
<1> QED BY KeptAtFirst, KeptInductive, KeptSuffices, PTL DEF AccessSpec
=============================================================================
