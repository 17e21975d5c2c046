--------------------------- MODULE RequestAccess ---------------------------
(***************************************************************************)
(* Which tenants' documents a request of one user may read, with several    *)
(* tenants and multi-tenancy active: the role guards (roles.guard.ts,       *)
(* better-auth-roles.guard.ts), the decision of CoreTenantGuard             *)
(* (core-tenant.guard.ts), and the filter of mongoose-tenant.plugin.ts that *)
(* uses its result.  A subscription takes the same decision in two parts,   *)
(* the scope (graphql-ws-context.helper.ts) before the access, and keeps    *)
(* the scope while it lasts.                                                *)
(*                                                                         *)
(* Memberships are looked up through the caches of TenantCache, of which    *)
(* only their promise is used: an answer was true less than MaxAge ago.     *)
(***************************************************************************)
EXTENDS Clock

CONSTANTS
    Tenant,
    None,        \* no tenant, no list of tenants, no role
    Level,       \* multiTenancy.roleHierarchy: the level of each role
    OtherRole,   \* roles with no level
    GlobalOnly,  \* those that only the platform grants, the admin's among them
    TenantRole,  \* those declared to be a tenant's
    Strict,      \* multiTenancy.strictMembershipRoles
    AdminBypass, \* multiTenancy.adminBypass
    IamSkip,     \* betterAuth.skipTenantCheck
    Route,       \* handlers: roles of method and class, and their decorators
    Caller,      \* who may ask
    Asking,      \* requests
    MaxAge       \* how old an answer from the caches may be

SystemRole == {"s_no_one", "s_everyone", "s_user", "s_verified"}
RealRole   == DOMAIN Level \cup OtherRole
AnyRole    == SystemRole \cup RealRole
Nobody     == [roles |-> {}, verified |-> FALSE, via |-> "none"]

ASSUME AccessAssumption ==
    /\ Level \in [DOMAIN Level -> Nat \ {0}]
    /\ "admin" \in GlobalOnly \cap OtherRole /\ GlobalOnly \subseteq OtherRole
    /\ DOMAIN Level \subseteq TenantRole /\ TenantRole \subseteq RealRole \ GlobalOnly
    /\ SystemRole \cap RealRole = {}
    /\ None \notin Tenant /\ None \notin RealRole /\ \A ts \in SUBSET Tenant : ts # None
    /\ Strict \in BOOLEAN /\ AdminBypass \in BOOLEAN /\ IamSkip \in BOOLEAN
    /\ Route \subseteq [method : SUBSET AnyRole, class : SUBSET AnyRole, skip : BOOLEAN, iam : BOOLEAN]
    /\ Nobody \in Caller
    /\ Caller \ {Nobody} \subseteq [roles : SUBSET RealRole, verified : BOOLEAN, via : {"session", "token"}]
    /\ MaxAge \in Nat \ {0}

VARIABLES
    caller,     \* who asks, in all of this
    roleGuard,  \* which of the two role guards is installed
    membership, \* the role of the caller in each tenant
    held,       \* history: the memberships there were at each time
    asking      \* what each request is doing

accessVars == <<caller, roleGuard, membership, held, asking, now>>

Membership == [Tenant -> (RealRole \ GlobalOnly) \cup {None}]
Header     == Tenant \cup {None}

(* The answers a cache may give: they were true at one of these times. *)
Since(time)  == {t \in 0..MaxTime : time - MaxAge < t /\ t <= time}
Recent(time) == UNION {held[t] : t \in Since(time)}

-----------------------------------------------------------------------------
(* Roles *)

Roles(route) == route.method \cup route.class   \* mergeRolesMetadata
Real(roles)  == roles \ SystemRole
IsAdmin(u)   == AdminBypass /\ "admin" \in u.roles

Reaches(a, r) == IF {a, r} \subseteq DOMAIN Level THEN Level[a] >= Level[r] ELSE a = r

(* Hierarchy roles by level, others by name; any of them is enough *)
checkRoleAccess(required, available) ==
    available # {} /\ (required = {} \/ \E r \in required, a \in available : Reaches(a, r))

tenantSatisfiableRoles(roles) == (IF Strict THEN roles \cap TenantRole ELSE roles) \ GlobalOnly

(* getMinRequiredLevel, and the filter on the list of tenants *)
AtLeast(role, roles) ==
    LET levels == {Level[r] : r \in roles \cap DOMAIN Level}
    IN  levels = {} \/ \E l \in levels : (IF role \in DOMAIN Level THEN Level[role] ELSE 0) >= l

-----------------------------------------------------------------------------
(* The role guards.  A token is verified only where a role is required; a   *)
(* session was verified by the middleware on every route.                   *)

OpenTo(route) == Roles(route) = {} \/ "s_everyone" \in Roles(route)

(* RolesGuard asks hasRole of the user it was given, and only the one from  *)
(* a session answers for s_verified.                                        *)
Entitled(route, u) ==
    \/ "s_user" \in Roles(route) \/ Real(Roles(route)) # {}
    \/ /\ "s_verified" \in Roles(route) /\ u.verified
       /\ roleGuard = "BetterAuthRolesGuard" \/ u.via = "session"

PassesRoleGuard(route, u) ==
    /\ "s_no_one" \notin Roles(route)
    /\ OpenTo(route) \/ (u # Nobody /\ Entitled(route, u))

(* Whom the tenant guard then sees *)
Authenticated(route, u) == IF u.via = "token" /\ OpenTo(route) THEN Nobody ELSE u

-----------------------------------------------------------------------------
(* The tenant guard *)

Context(t, ts, b) == [allowed |-> TRUE, tenant |-> t, tenants |-> ts, bypass |-> b]
Unscoped == Context(None, None, FALSE)
Refused  == [Unscoped EXCEPT !.allowed = FALSE]

(* Roles of the method take precedence where system roles are concerned. *)
systemCheckRoles(route) == IF route.method # {} THEN route.method ELSE Roles(route)
Decisive(route) ==
    LET sys == systemCheckRoles(route)
    IN  IF "s_no_one" \in Roles(route) THEN "s_no_one"
        ELSE IF "s_everyone" \in sys THEN "s_everyone"
        ELSE IF "s_user" \in sys THEN "s_user"
        ELSE IF "s_verified" \in sys THEN "s_verified" ELSE "roles"

(* The tenants of a list: those whose membership reaches the lowest level   *)
(* that is required *)
resolveUserTenantIds(m, roles) == {t \in Tenant : m[t] # None /\ AtLeast(m[t], roles)}

handleSystemRoleWithTenantHeader(u, header, m) ==
    IF IsAdmin(u) THEN Context(header, None, TRUE)
    ELSE IF m[header] # None THEN Context(header, None, FALSE) ELSE Refused

skipWithUserRoleCheck(roles, u) ==
    IF roles = {} \/ (u # Nobody /\ (IsAdmin(u) \/ checkRoleAccess(roles, u.roles))) THEN Unscoped ELSE Refused

(* Mutant: whoever is a member has the role. *)
AnyMember(roles, u, role) == role # None

(* A global role is the user's, any other the membership's. *)
SatisfiedIn(roles, u, role) ==
    /\ role # None
    /\ \/ roles = {} \/ roles \cap GlobalOnly \cap u.roles # {}
       \/ tenantSatisfiableRoles(roles) # {} /\ checkRoleAccess(tenantSatisfiableRoles(roles), {role})

WithHeader(roles, u, header, m) ==
    IF u # Nobody /\ IsAdmin(u) THEN Context(header, None, TRUE)
    ELSE IF u # Nobody /\ SatisfiedIn(roles, u, m[header]) THEN Context(header, None, FALSE) ELSE Refused

WithoutHeader(roles, u, m) ==
    IF IsAdmin(u) THEN Context(None, None, TRUE)
    ELSE IF u = Nobody THEN IF roles = {} THEN Unscoped ELSE Refused
    ELSE IF roles = {} \/ checkRoleAccess(roles, u.roles) THEN Context(None, resolveUserTenantIds(m, roles), FALSE)
    ELSE Refused

(* m: what is found when the memberships are looked up *)
canActivate(route, u, header, m) ==
    LET roles == Real(Roles(route))
        scoped == IF header = None \/ route.skip THEN Unscoped ELSE handleSystemRoleWithTenantHeader(u, header, m)
    IN  CASE Decisive(route) = "s_no_one" -> Refused
          [] Decisive(route) = "s_everyone" ->
                IF header # None /\ u # Nobody /\ m[header] # None THEN Context(header, None, FALSE) ELSE Unscoped
          [] Decisive(route) = "s_user" -> IF u = Nobody THEN Refused ELSE scoped
          [] Decisive(route) = "s_verified" -> IF u.verified THEN scoped ELSE Refused
          [] Decisive(route) = "roles" ->
                IF route.skip \/ (header = None /\ route.iam /\ IamSkip) THEN skipWithUserRoleCheck(roles, u)
                ELSE IF header # None THEN WithHeader(roles, u, header, m)
                ELSE WithoutHeader(roles, u, m)

(* The scope of a subscription, which knows no route *)
resolveTenantContext(u, header, m) ==
    IF IsAdmin(u) THEN Context(header, None, TRUE)
    ELSE IF u = Nobody \/ (header # None /\ m[header] = None) THEN Unscoped
    ELSE Context(header, IF header = None THEN resolveUserTenantIds(m, {}) ELSE None, FALSE)

(* The tenants whose documents a query finds; without a context it throws. *)
resolveTenantFilter(c) ==
    IF c.tenant # None THEN {c.tenant}
    ELSE IF c.tenants # None THEN c.tenants
    ELSE IF c.bypass THEN Tenant ELSE {}

-----------------------------------------------------------------------------
Free == [at |-> "free"]
Inquiry(transport, at, route, header, m, c) ==
    [at |-> at, transport |-> transport, route |-> route, header |-> header,
     asked |-> now, found |-> m, context |-> c]

AccessInit ==
    /\ now = 0
    /\ caller \in Caller
    /\ roleGuard \in {"RolesGuard", "BetterAuthRolesGuard"}
    /\ membership \in Membership
    /\ held = [t \in 0..MaxTime |-> IF t = 0 THEN {membership} ELSE {}]
    /\ asking = [k \in Asking |-> Free]

Keep(k, r) == asking' = [asking EXCEPT ![k] = r] /\ UNCHANGED <<caller, roleGuard, membership, held, now>>

(* Over HTTP a request that is refused leaves nothing behind. *)
HttpRequest(k, route, header) ==
    /\ asking[k] = Free
    /\ PassesRoleGuard(route, caller)
    /\ \E m \in Recent(now) :
          LET c == canActivate(route, Authenticated(route, caller), header, m)
          IN  c.allowed /\ Keep(k, Inquiry("http", "serving", route, header, m, c))

(* subscribe is wrapped: first the context.  Only sessions authenticate a   *)
(* WebSocket, on every route.                                               *)
Subscribe(k, route, header) ==
    /\ asking[k] = Free /\ caller.via # "token"
    /\ \E m \in Recent(now) :
          Keep(k, Inquiry("socket", "opening", route, header, m, resolveTenantContext(caller, header, m)))

(* Then the guards, with another look-up.  They read a header only if the   *)
(* client has written its name in lower case.                               *)
Opened(k) ==
    /\ asking[k].at = "opening"
    /\ PassesRoleGuard(asking[k].route, caller)
    /\ \E m \in Recent(now), header \in {asking[k].header, None} :
          canActivate(asking[k].route, caller, header, m).allowed
    /\ Keep(k, [asking[k] EXCEPT !.at = "serving"])

(* Answered, refused, or unsubscribed *)
End(k) ==
    /\ asking[k] # Free
    /\ Keep(k, Free)

(* The membership service makes the caller a member, gives the caller       *)
(* another role or ends the membership (TenantMembership).                  *)
ChangeMembership(t, role) ==
    /\ membership' = [membership EXCEPT ![t] = role]
    /\ membership' \in Membership
    /\ held' = [held EXCEPT ![now] = @ \cup {membership'}]
    /\ UNCHANGED <<caller, roleGuard, asking, now>>

Later ==
    /\ now < MaxTime
    /\ now' = now + 1
    /\ held' = [held EXCEPT ![now + 1] = {membership}]
    /\ UNCHANGED <<caller, roleGuard, membership, asking>>

AccessNext ==
    \/ \E k \in Asking : \/ \E route \in Route, header \in Header : HttpRequest(k, route, header) \/ Subscribe(k, route, header)
                         \/ Opened(k) \/ End(k)
    \/ \E t \in Tenant, role \in (RealRole \ GlobalOnly) \cup {None} : ChangeMembership(t, role)
    \/ Later

AccessSpec == AccessInit /\ [][AccessNext]_accessVars

-----------------------------------------------------------------------------
ContextType == [allowed : BOOLEAN, tenant : Header, tenants : (SUBSET Tenant) \cup {None}, bypass : BOOLEAN]
AskingType  == [at : {"opening", "serving"}, transport : {"http", "socket"}, route : Route, header : Header,
                asked : 0..MaxTime, found : Membership, context : ContextType]

AccessTypeOK ==
    /\ caller \in Caller /\ roleGuard \in {"RolesGuard", "BetterAuthRolesGuard"}
    /\ membership \in Membership
    /\ now \in 0..MaxTime /\ held \in [0..MaxTime -> SUBSET Membership]
    /\ asking \in [Asking -> AskingType \cup {Free}]

(* What a member's role must be for a route over HTTP where roles, and no   *)
(* system role, decide: in the tenant of a header one of them is reached,   *)
(* or is the platform's and the caller has it; in a list of tenants one of  *)
(* those that have a level, if any, is reached.                             *)
Suffices(q, role) ==
    q.transport = "http" /\ Decisive(q.route) = "roles" =>
        LET roles    == Real(Roles(q.route))
            levelled == roles \cap DOMAIN Level
        IN  IF q.header = None THEN levelled = {} \/ \E r \in levelled : Reaches(role, r)
            ELSE roles = {} \/ \E r \in roles : IF r \in GlobalOnly THEN r \in caller.roles ELSE Reaches(role, r)

(* A request reads documents of no tenant but those its caller was a member *)
(* of, with a role the route asks for, less than MaxAge before it asked;    *)
(* of all of them only as an admin.  A subscription goes on reading them    *)
(* when the membership has ended.                                           *)
ScopeBacked ==
    \A k \in Asking : asking[k] # Free =>
        LET inq == asking[k]
        IN  \A t \in resolveTenantFilter(inq.context) :
                \/ IsAdmin(caller)
                \/ \E m \in Recent(inq.asked) : m[t] # None /\ Suffices(inq, m[t])

(* "OR semantics: any match is sufficient", and "higher includes lower":    *)
(* a handler that let a request in lets it in when one more real role is    *)
(* enough, or when the member has a higher level, and then it reads no      *)
(* fewer tenants.  (One more role may well hide tenants: the first role     *)
(* with a level filters the list.)                                          *)
NoLess(a, b) == b.allowed /\ resolveTenantFilter(a) \subseteq resolveTenantFilter(b)
Add(route, r) == IF route.method # {} THEN [route EXCEPT !.method = @ \cup {r}]
                 ELSE [route EXCEPT !.class = @ \cup {r}]
Promoted(m, n) == \A t \in Tenant : m[t] = n[t] \/ ({m[t], n[t]} \subseteq DOMAIN Level /\ Level[m[t]] <= Level[n[t]])
MoreIsNoLess ==
    \A k \in Asking : asking[k] # Free /\ asking[k].transport = "http" =>
        LET inq == asking[k]
            Decided(route, m) == canActivate(route, Authenticated(route, caller), inq.header, m)
        IN  /\ \A r \in RealRole : Roles(inq.route) # {} => Decided(Add(inq.route, r), inq.found).allowed
            /\ \A n \in Membership : Promoted(inq.found, n) => NoLess(inq.context, Decided(inq.route, n))
=============================================================================
