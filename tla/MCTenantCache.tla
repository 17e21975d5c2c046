--------------------------- MODULE MCTenantCache ---------------------------
(* One member, removed or given another role while two replicas look it up. *)
EXTENDS TenantCache

CONSTANTS p, q, c1, c2

Levels == [member |-> 1, owner |-> 3]
Homes  == [c \in Call |-> IF c = c1 THEN p ELSE q]
OneHome == [c \in Call |-> p]

(* The user is a plain member at first, and is removed, promoted or added. *)
Requests == {[op |-> "remove", user |-> u, role |-> NoRole] : u \in User}
            \cup {[op |-> "role", user |-> u, role |-> "owner"] : u \in User}
            \cup {[op |-> "add", user |-> u, role |-> "member"] : u \in User}

(* Memberships are looked up on p, lists of tenants on q: each is cleared by *)
(* a call of its own replica and by a broadcast.                            *)
Apart == \A l \in Lookup : lookup[l] # Idle =>
            lookup[l].key[2] = (IF lookup[l].replica = p THEN "membership" ELSE "tenantIds")

MemberSpec ==
    /\ CacheInit
    /\ request \in [Call -> Requests]
    /\ \A u \in User : members[u] = [status |-> "ACTIVE", role |-> "member"]
    /\ [][CacheNext /\ Apart']_tenantVars
=============================================================================
