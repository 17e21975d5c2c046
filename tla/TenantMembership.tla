-------------------------- MODULE TenantMembership --------------------------
(***************************************************************************)
(* The members of one tenant and the calls that change them                *)
(* (src/core/modules/tenant/core-tenant.service.ts): addMember,            *)
(* removeMember and updateMemberRole, each a chain of requests to MongoDB  *)
(* between which other calls, of the same or of another process, run.      *)
(*                                                                         *)
(* A removal suspends the row; no call deletes one.                        *)
(***************************************************************************)
EXTENDS Integers, FiniteSets

CONSTANTS
    User,
    Call,       \* the calls made
    Hierarchy,  \* multiTenancy.roleHierarchy: the level of each role
    Reserved,   \* names of the framework's own roles
    NoRole      \* a call names no role; also the role of no row

ASSUME HierarchyAssumption == /\ Hierarchy \in [DOMAIN Hierarchy -> Nat]
                              /\ DOMAIN Hierarchy # {}
                              /\ Reserved \cap DOMAIN Hierarchy = {}
                              /\ NoRole \notin Reserved \cup DOMAIN Hierarchy
ASSUME UserAssumption == IsFiniteSet(User)

VARIABLES
    members,  \* the membership row of each user
    at,       \* where each call is
    request,  \* what it was asked to do
    alone     \* history: nobody else wrote since the call began

memberVars == <<members, at, request, alone>>

Role   == DOMAIN Hierarchy
NoRow  == [status |-> "NONE", role |-> NoRole]
Row    == [status : {"INVITED", "ACTIVE", "SUSPENDED"}, role : Role] \cup {NoRow}
Request == [op : {"add", "role"}, user : User, role : Role \cup Reserved \cup {NoRole}]
            \cup [op : {"remove"}, user : User, role : {NoRole}]
Places == {"idle", "existing", "create", "reactivate", "current", "count", "confirm",
           "write", "written", "done", "rejected", "notFound", "failed"}
Ended  == {"done", "rejected", "notFound", "failed"}

Running(c) == at[c] \notin Ended \cup {"idle"}

getHighestRole == CHOOSE r \in Role : \A s \in Role : Hierarchy[s] <= Hierarchy[r]
getDefaultRole == CHOOSE r \in Role : \A s \in Role : Hierarchy[r] <= Hierarchy[s]

Active(u)  == members[u].status = "ACTIVE"
IsOwner(u) == Active(u) /\ members[u].role = getHighestRole
Owners     == {u \in User : IsOwner(u)}

MembersInit ==
    /\ members \in [User -> Row]
    /\ at = [c \in Call |-> "idle"]
    /\ request \in [Call -> Request]
    /\ alone = [c \in Call |-> TRUE]

Goto(c, place) == at' = [at EXCEPT ![c] = place]
Read(c, place) == at[c] = place /\ UNCHANGED <<members, request, alone>>

(* One request changes the row of the call's user. *)
Write(c, row) ==
    /\ members' = [members EXCEPT ![request[c].user] = row]
    /\ alone' = [d \in Call |-> alone[d] /\ (d = c \/ ~ Running(d))]
    /\ Goto(c, "written")
    /\ UNCHANGED request

(* addMember without a role gives the lowest one. *)
Granted(c) == [status |-> "ACTIVE",
               role |-> IF request[c].role = NoRole THEN getDefaultRole ELSE request[c].role]

-----------------------------------------------------------------------------
(* assertAssignableMembershipRole, and the role updateMemberRole insists on *)
Assignable(c) == CASE request[c].op = "add"    -> request[c].role \notin Reserved
                   [] request[c].op = "role"   -> request[c].role \in Role
                   [] request[c].op = "remove" -> TRUE

FirstRead == [add |-> "existing", remove |-> "count", role |-> "current"]

(* Mutant: no role is refused. *)
BeginUnchecked(c) == Read(c, "idle") /\ Goto(c, FirstRead[request[c].op])

Begin(c) ==
    /\ Read(c, "idle")
    /\ Goto(c, IF Assignable(c) THEN FirstRead[request[c].op] ELSE "rejected")

(* addMember: an active member is an error, a row in another state is       *)
(* activated again, and otherwise a row is created.                         *)
ReadExisting(c) ==
    /\ Read(c, "existing")
    /\ Goto(c, CASE members[request[c].user].status = "ACTIVE" -> "rejected"
                 [] members[request[c].user].status = "NONE"   -> "create"
                 [] OTHER -> "reactivate")

Reactivate(c) == at[c] = "reactivate" /\ Write(c, Granted(c))

(* The index on tenant and user refuses a second row. *)
Create(c) ==
    /\ at[c] = "create"
    /\ IF members[request[c].user].status = "NONE" THEN Write(c, Granted(c))
       ELSE Goto(c, "failed") /\ UNCHANGED <<members, request, alone>>

(* Mutant: off by one. *)
CountFew(c) ==
    /\ Read(c, "count")
    /\ Goto(c, IF Cardinality(Owners) < 1 THEN "confirm" ELSE "write")

(* assertNotLastOwner: count first, then look at the member itself. *)
Count(c) ==
    /\ Read(c, "count")
    /\ Goto(c, IF Cardinality(Owners) <= 1 THEN "confirm" ELSE "write")

Confirm(c) ==
    /\ Read(c, "confirm")
    /\ Goto(c, IF IsOwner(request[c].user) THEN "rejected" ELSE "write")

(* updateMemberRole: only an owner who stops being one is checked. *)
ReadCurrent(c) ==
    /\ Read(c, "current")
    /\ Goto(c, IF IsOwner(request[c].user) /\ request[c].role # getHighestRole
               THEN "count" ELSE "write")

Changed(c) ==
    LET row == members[request[c].user]
    IN  IF request[c].op = "remove" THEN [row EXCEPT !.status = "SUSPENDED"]
        ELSE [row EXCEPT !.role = request[c].role]

(* Mutant: findOneAndUpdate without the status in its filter. *)
WriteAnyStatus(c) ==
    /\ at[c] = "write"
    /\ IF members[request[c].user].status # "NONE" THEN Write(c, Changed(c))
       ELSE Goto(c, "notFound") /\ UNCHANGED <<members, request, alone>>

(* findOneAndUpdate of the row of an active member. *)
WriteActive(c) ==
    /\ at[c] = "write"
    /\ IF Active(request[c].user) THEN Write(c, Changed(c))
       ELSE Goto(c, "notFound") /\ UNCHANGED <<members, request, alone>>

(* The answer of the write arrives; invalidateUser is in TenantCache. *)
Return(c) == Read(c, "written") /\ Goto(c, "done")

(* A request fails, or its answer is lost, or the process dies. *)
Fail(c) ==
    /\ Running(c)
    /\ Goto(c, "failed")
    /\ UNCHANGED <<members, request, alone>>

CallStep(c) ==
    \/ Begin(c) \/ ReadExisting(c) \/ Reactivate(c) \/ Create(c)
    \/ Count(c) \/ Confirm(c) \/ ReadCurrent(c) \/ WriteActive(c)

MembersNext == \E c \in Call : CallStep(c) \/ Return(c) \/ Fail(c)
MembersSpec == MembersInit /\ [][MembersNext]_memberVars

-----------------------------------------------------------------------------
MembersTypeOK ==
    /\ members \in [User -> Row]
    /\ at \in [Call -> Places]
    /\ request \in [Call -> Request]
    /\ alone \in [Call -> BOOLEAN]

(* A call only gets to the requests of its own operation, and with a role   *)
(* that may be given.                                                       *)
InItsOperation ==
    \A c \in Call :
        /\ at[c] \in {"existing", "create", "reactivate"} =>
              request[c].op = "add" /\ request[c].role \notin Reserved
        /\ at[c] = "current" => request[c].op = "role" /\ request[c].role \in Role
        /\ at[c] \in {"count", "confirm", "write"} =>
              \/ request[c].op = "remove"
              \/ request[c].op = "role" /\ request[c].role \in Role

(* What a call has checked still holds when it writes, if nobody else wrote *)
(* since it began.                                                          *)
CheckedStill ==
    \A c \in Call : alone[c] =>
        /\ at[c] \in {"create", "reactivate"} => ~ Active(request[c].user)
        /\ at[c] = "write" =>
              \/ Owners # {request[c].user}
              \/ request[c].op = "role" /\ request[c].role = getHighestRole

(* The checks of the three operations, as far as they bind a later request  *)
(* of the call: what a write rests on.                                      *)
MembersInv == MembersTypeOK /\ InItsOperation /\ CheckedStill

(* The call writes in this step. *)
Writes(c) == at[c] \in {"create", "reactivate", "write"} /\ at'[c] = "written"

(* removeMember and updateMemberRole "prevent removing the last owner": a   *)
(* tenant that has an owner loses the last one only to a call during which  *)
(* another one wrote, the race the comment at assertNotLastOwner admits.    *)
OwnerLostOnlyByOverlap ==
    [][Owners # {} /\ Owners' = {} => \E c \in Call : Writes(c) /\ ~ alone[c]]_memberVars

(* A call during which nobody else wrote takes effect as if it were atomic: *)
(* add only what is not active, remove and change only what is, and leave   *)
(* an owner.                                                                *)
AtomicEffect(c) ==
    LET u == request[c].user
    IN  CASE request[c].op = "add"    -> ~ Active(u)
          [] request[c].op = "remove" -> Active(u) /\ Owners # {u}
          [] request[c].op = "role"   -> Active(u) /\ (Owners # {u} \/ request[c].role = getHighestRole)
AloneIsAtomic == [][\A c \in Call : Writes(c) /\ alone[c] => AtomicEffect(c)]_memberVars

(* A removal lasts: the row of somebody who is not active (any more) is     *)
(* touched by addMember alone, whatever a role change read before.          *)
OnlyAddRestores ==
    [][\A u \in User : ~ Active(u) /\ members'[u] # members[u]
          => \E c \in Call : Writes(c) /\ request[c].op = "add" /\ request[c].user = u]_memberVars
=============================================================================
