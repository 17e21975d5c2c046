----------------------------- MODULE MCTenants -----------------------------
(* A behaviour has one of three subjects: "roster" is three calls on the    *)
(* memberships of two users with nobody looking them up; "caches" is one    *)
(* member, who is removed, promoted or added by two calls while two         *)
(* replicas look the member up; "access" is the requests of one user.       *)
EXTENDS TenantCache, RequestAccess

CONSTANTS podA, podB, call1, call2, call3, user1, user2, tenant1, tenant2

VARIABLE subject

Levels == [member |-> 1, owner |-> 3]
Homes  == [c \in Call |-> IF c = call2 THEN podB ELSE podA]

(* The rows and requests of the roster: an invited or suspended member is   *)
(* nobody, whatever the role.  Users are alike, and so are calls, so that    *)
(* the third one is the removal of the first user, and the first call       *)
(* begins before the second; two calls run at a time.                       *)
Rows  == {NoRow} \cup [status : {"ACTIVE"}, role : Role]
         \cup {[status |-> "INVITED", role |-> "member"], [status |-> "SUSPENDED", role |-> "owner"]}
Orders == [op : {"remove"}, user : User, role : {NoRole}] \cup [op : {"add"}, user : User, role : Role]
         \cup [op : {"role"}, user : User, role : Role \cup Reserved]
RosterInit ==
    /\ members \in [User -> Rows] /\ request \in [Call -> Orders]
    /\ request[call3] = [op |-> "remove", user |-> user1, role |-> NoRole]
TwoRunning ==
    /\ at[call2] # "idle" => at[call1] # "idle"
    /\ Cardinality({c \in Call : Running(c)}) <= 2

(* The requests on the member: a removal by call1 or call2, and something    *)
(* else by the other one; call3 does not take place.                        *)
Spare    == [op |-> "add", role |-> "admin"]
Requests == {[op |-> "remove", role |-> NoRole], [op |-> "role", role |-> "owner"], [op |-> "add", role |-> NoRole]}

CachesInit ==
    /\ members = [u \in User |-> IF u = user1 THEN [status |-> "ACTIVE", role |-> "member"] ELSE NoRow]
    /\ \E r \in [{call1, call2} -> Requests] :
          /\ Cardinality({c \in {call1, call2} : r[c].op = "remove"}) = 1
          /\ request = [c \in Call |-> LET of == IF c = call3 THEN Spare ELSE r[c]
                                      IN  [op |-> of.op, user |-> user1, role |-> of.role]]

(* Memberships are looked up on podA, lists of tenants on podB: each is     *)
(* cleared by a call of its own replica and by a broadcast.                 *)
Apart == \A l \in Lookup : lookup[l] # Idle =>
            /\ lookup[l].key[1] = request[call1].user
            /\ lookup[l].key[2] = (IF lookup[l].replica = podA THEN "membership" ELSE "tenantIds")

CachesNext ==
    /\ CacheNext
    /\ Apart'
    /\ \A c \in Call : request[c].role \in Reserved => at'[c] = "idle"

(* Routes with each kind of role, alone and together, on method and class   *)
Plain(method, class) == [method |-> method, class |-> class, skip |-> FALSE, iam |-> FALSE]
Routes ==
    {Plain(method, class) : method \in {{}, {"s_everyone"}, {"s_user"}, {"s_verified"}, {"admin"}, {"owner"},
                                        {"member"}, {"editor"}, {"editor", "owner"}, {"s_verified", "owner"}},
                            class \in {{}, {"owner"}}}
    \cup {Plain({"s_no_one"}, {}), Plain({"s_user"}, {"s_everyone"}), Plain({"owner"}, {"s_everyone"})}
    \cup {[Plain(method, {}) EXCEPT !.skip = TRUE] : method \in {{"s_user"}, {"owner"}}}
    \cup {[Plain(method, {}) EXCEPT !.iam = TRUE] : method \in {{}, {"owner"}}}
Session(roles, verified) == [roles |-> roles, verified |-> verified, via |-> "session"]
Callers == {Nobody, Session({}, TRUE), Session({"owner"}, FALSE), Session({"editor"}, TRUE), Session({"admin"}, FALSE)}
           \cup {[roles |-> roles, verified |-> TRUE, via |-> "token"] : roles \in {{}, {"owner"}}}

(* The caller of the other subjects, and the members of this one *)
Unasked == caller = Nobody /\ roleGuard = "RolesGuard" /\ membership = [t \in Tenant |-> None]
Still   == members = [u \in User |-> NoRow] /\ request = [c \in Call |-> CHOOSE r \in Request : TRUE]
accessOwn == <<caller, roleGuard, membership, held, asking>>
cacheOwn  == <<cache, lookup, inbox, lastTrue>>

(* The membership of one tenant begins or ends, once; nothing else goes on   *)
(* once a request is let in.                                                *)
AccessBound ==
    /\ now' <= 1 /\ membership'[tenant2] = "owner"
    /\ LET had == UNION {held'[t] : t \in DOMAIN held}
       IN  Cardinality(had) = 1 \/ (Cardinality(had) = 2 /\ \E h \in had : h[tenant1] = None)
    /\ \A k \in Asking : asking[k].at = "serving" => membership' = membership /\ now' = now

MCInit ==
    /\ \/ subject = "roster" /\ Unasked /\ RosterInit
       \/ subject = "caches" /\ Unasked /\ CachesInit
       \/ subject = "access" /\ Still
    /\ CacheInit /\ AccessInit
    /\ subject = "access" => membership[tenant2] = "owner"
MCNext ==
    /\ \/ subject = "roster" /\ MembersNext /\ TwoRunning' /\ UNCHANGED <<cacheVars, accessVars>>
       \/ subject = "caches" /\ CachesNext /\ UNCHANGED accessOwn
       \/ subject = "access" /\ AccessNext /\ AccessBound /\ UNCHANGED <<memberVars, cacheOwn>>
    /\ UNCHANGED subject
MCSpec == MCInit /\ [][MCNext]_<<tenantVars, accessVars, subject>>

TenantsInv ==
    CASE subject = "roster" -> MembersInv
      [] subject = "caches" -> MembersInv /\ CacheTypeOK
      [] subject = "access" -> AccessTypeOK /\ MoreIsNoLess
=============================================================================
