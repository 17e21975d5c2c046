---------------------------- MODULE TenantProofs ----------------------------
(***************************************************************************)
(* What holds of the members of a tenant, and of the caches of their roles, *)
(* for any number of users, overlapping calls, lookups and replicas, and    *)
(* for every hierarchy of roles.                                           *)
(*                                                                         *)
(* The checks of a call are separate requests, so what they found is lost  *)
(* as soon as another call writes.  MembersInv says what is still known of  *)
(* a call that nobody has overlapped: it is inductive because every write  *)
(* takes alone from all the calls that are running.                        *)
(***************************************************************************)
EXTENDS TenantCache, FiniteSetTheorems, WellFoundedInduction, TLAPS

(* getDefaultRole finds a role: levels are natural numbers. *)
LEMMA DefaultRoleExists == getDefaultRole \in Role
<1> DEFINE Levels == {Hierarchy[r] : r \in Role}
<1>1. Levels \subseteq Nat /\ Levels # {}
  BY HierarchyAssumption DEF Role
<1>2. \E n \in Levels : \A m \in Levels : ~ (<<m, n>> \in OpToRel(<, Nat))
  BY <1>1, NatLessThanWellFounded, WFMin DEF OpToRel
<1>3. PICK n \in Levels : \A m \in Levels : ~ (m < n)
  BY <1>1, <1>2 DEF OpToRel
<1>4. PICK r \in Role : Hierarchy[r] = n
  BY <1>3
<1>5. \A s \in Role : Hierarchy[r] <= Hierarchy[s]
  BY <1>1, <1>3, <1>4
<1> QED BY <1>5 DEF getDefaultRole

(* A call's row is granted a role of the hierarchy. *)
LEMMA GrantedRow == ASSUME MembersTypeOK, NEW c \in Call, request[c].role \notin Reserved
                    PROVE  Granted(c) \in Row \ {NoRow}
<1>1. request[c].role \in Role \cup Reserved \cup {NoRole}
  BY DEF MembersTypeOK, Request
<1>2. Granted(c).role \in Role
  BY <1>1, DefaultRoleExists DEF Granted
<1> QED BY <1>2 DEF Granted, Row, NoRow

-----------------------------------------------------------------------------
(* What one write does: a row of a running call's own user changes, and     *)
(* every other running call is no longer alone.                            *)
LEMMA WriteTypes == ASSUME MembersTypeOK, NEW c \in Call, NEW row \in Row, Write(c, row)
                    PROVE  MembersTypeOK'
<1>1. request[c].user \in User
  BY DEF MembersTypeOK, Request
<1>2. members' \in [User -> Row]
  BY <1>1 DEF Write, MembersTypeOK
<1>3. at' \in [Call -> Places]
  BY DEF Write, Goto, MembersTypeOK, Places
<1>4. alone' \in [Call -> BOOLEAN]
  BY DEF Write, MembersTypeOK
<1> QED BY <1>2, <1>3, <1>4 DEF Write, MembersTypeOK

(* A write keeps MembersInv: the row is well formed, and no running call but *)
(* the writer is alone any more.                                           *)
LEMMA WriteKeeps == ASSUME MembersInv, NEW c \in Call, NEW row \in Row, Write(c, row), Running(c)
                    PROVE  MembersInv'
<1>1. MembersTypeOK'
  BY WriteTypes DEF MembersInv
<1>2. /\ at' = [at EXCEPT ![c] = "written"] /\ at \in [Call -> Places] /\ request' = request
      /\ \A d \in Call : d # c /\ Running(d) => ~ alone'[d]
  BY DEF Write, Goto, MembersInv, MembersTypeOK
<1>3. InItsOperation'
  BY <1>2 DEF MembersInv, InItsOperation
<1>4. CheckedStill'
  <2> SUFFICES ASSUME NEW d \in Call, alone'[d], at'[d] \in {"create", "reactivate", "write"}
               PROVE  FALSE
    BY DEF CheckedStill
  <2>1. d # c /\ at[d] = at'[d]
    BY <1>2
  <2> QED BY <1>2, <2>1 DEF Running, Ended
<1> QED BY <1>1, <1>3, <1>4 DEF MembersInv

(* A step of one call that writes nothing leaves what is known of the       *)
(* others, and needs looking at where it goes only.                        *)
LEMMA GotoKeeps ==
    ASSUME MembersInv, NEW c \in Call, NEW place \in Places, Goto(c, place),
           UNCHANGED <<members, request, alone>>,
           place \in {"existing", "create", "reactivate"} =>
              request[c].op = "add" /\ request[c].role \notin Reserved,
           place = "current" => request[c].op = "role" /\ request[c].role \in Role,
           place \in {"count", "confirm", "write"} =>
              \/ request[c].op = "remove"
              \/ request[c].op = "role" /\ request[c].role \in Role,
           alone[c] /\ place \in {"create", "reactivate"} => ~ Active(request[c].user),
           alone[c] /\ place = "write" =>
              \/ Owners # {request[c].user}
              \/ request[c].op = "role" /\ request[c].role = getHighestRole
    PROVE  MembersInv'
<1>1. at \in [Call -> Places] /\ at' = [at EXCEPT ![c] = place]
  BY DEF MembersInv, MembersTypeOK, Goto
<1>2. MembersTypeOK'
  BY <1>1 DEF MembersInv, MembersTypeOK
<1>3. InItsOperation'
  BY <1>1 DEF MembersInv, InItsOperation
<1>4. /\ Owners' = Owners /\ \A u : Active(u)' = Active(u)
      /\ alone' = alone /\ request' = request
  BY DEF Owners, IsOwner, Active
<1>5. CheckedStill'
  <2> SUFFICES ASSUME NEW d \in Call, alone[d]
               PROVE  /\ at'[d] \in {"create", "reactivate"} => ~ Active(request[d].user)
                      /\ at'[d] = "write" =>
                            \/ Owners # {request[d].user}
                            \/ request[d].op = "role" /\ request[d].role = getHighestRole
    BY <1>4 DEF CheckedStill
  <2>1. CASE d = c
    BY <1>1, <2>1
  <2>2. CASE d # c
    BY <1>1, <2>2 DEF MembersInv, CheckedStill
  <2> QED BY <2>1, <2>2
<1> QED BY <1>2, <1>3, <1>5 DEF MembersInv

(* More than one owner is more than this one (assertNotLastOwner). *)
LEMMA ManyOwners == ASSUME NEW u, ~ (Cardinality(Owners) <= 1) PROVE Owners # {u}
<1>1. Cardinality({u}) = 1
  BY FS_Singleton
<1> QED BY <1>1

-----------------------------------------------------------------------------
(* Each request of a call keeps what is known of the calls. *)
LEMMA CallKeeps == ASSUME MembersInv, NEW c \in Call, CallStep(c) PROVE MembersInv'
<1> DEFINE op == request[c].op
           u  == request[c].user
<1>1. /\ request[c] \in Request /\ u \in User /\ members \in [User -> Row]
      /\ InItsOperation /\ CheckedStill
  BY DEF MembersInv, MembersTypeOK, Request
<1>2. CASE Begin(c)
  <2>1. op \in {"add", "role", "remove"} /\ FirstRead[op] \in {"existing", "current", "count"}
    BY <1>1 DEF Request, FirstRead
  <2>2. CASE Goto(c, "rejected")
    BY <1>2, <2>2, GotoKeeps DEF Begin, Read, Places
  <2>3. CASE op = "add" /\ request[c].role \notin Reserved /\ Goto(c, "existing")
    BY <1>2, <2>3, GotoKeeps DEF Begin, Read, Places
  <2>4. CASE op = "role" /\ request[c].role \in Role /\ Goto(c, "current")
    BY <1>2, <2>4, GotoKeeps DEF Begin, Read, Places
  <2>5. CASE op = "remove" /\ Goto(c, "count")
    BY <1>2, <2>5, GotoKeeps DEF Begin, Read, Places
  <2>6. CASE Assignable(c) /\ Goto(c, FirstRead[op])
    <3>1. CASE op = "add"    BY <2>3, <2>6, <3>1 DEF Assignable, FirstRead
    <3>2. CASE op = "role"   BY <2>4, <2>6, <3>2 DEF Assignable, FirstRead
    <3>3. CASE op = "remove" BY <2>5, <2>6, <3>3 DEF FirstRead
    <3> QED BY <2>1, <3>1, <3>2, <3>3
  <2> QED BY <1>2, <2>2, <2>6 DEF Begin
<1>3. CASE ReadExisting(c)
  <2>1. op = "add" /\ request[c].role \notin Reserved
    BY <1>1, <1>3 DEF ReadExisting, Read, InItsOperation
  <2>2. CASE Goto(c, "rejected")
    BY <1>3, <2>2, GotoKeeps DEF ReadExisting, Read, Places
  <2>3. CASE members[u].status # "ACTIVE" /\ (Goto(c, "create") \/ Goto(c, "reactivate"))
    BY <1>3, <2>1, <2>3, GotoKeeps DEF ReadExisting, Read, Places, Active
  <2> QED BY <1>3, <2>2, <2>3 DEF ReadExisting
<1>4. CASE Reactivate(c)
  BY <1>1, <1>4, GrantedRow, WriteKeeps DEF Reactivate, InItsOperation, Running, Ended, MembersInv
<1>5. CASE Create(c)
  <2>1. CASE Write(c, Granted(c))
    BY <1>1, <1>5, <2>1, GrantedRow, WriteKeeps DEF Create, InItsOperation, Running, Ended, MembersInv
  <2>2. CASE Goto(c, "failed") /\ UNCHANGED <<members, request, alone>>
    BY <2>2, GotoKeeps DEF Places
  <2> QED BY <1>5, <2>1, <2>2 DEF Create
<1>6. CASE Count(c)
  <2>1. op = "remove" \/ (op = "role" /\ request[c].role \in Role)
    BY <1>1, <1>6 DEF Count, Read, InItsOperation
  <2>2. CASE Goto(c, "confirm")
    BY <1>6, <2>1, <2>2, GotoKeeps DEF Count, Read, Places
  <2>3. CASE ~ (Cardinality(Owners) <= 1) /\ Goto(c, "write")
    BY <1>6, <2>1, <2>3, ManyOwners, GotoKeeps DEF Count, Read, Places
  <2> QED BY <1>6, <2>2, <2>3 DEF Count
<1>7. CASE Confirm(c)
  <2>1. op = "remove" \/ (op = "role" /\ request[c].role \in Role)
    BY <1>1, <1>7 DEF Confirm, Read, InItsOperation
  <2>2. CASE Goto(c, "rejected")
    BY <1>7, <2>2, GotoKeeps DEF Confirm, Read, Places
  <2>3. CASE ~ IsOwner(u) /\ Goto(c, "write")
    <3>1. Owners # {u}
      BY <2>3 DEF Owners
    <3> QED BY <1>7, <2>1, <2>3, <3>1, GotoKeeps DEF Confirm, Read, Places
  <2> QED BY <1>7, <2>2, <2>3 DEF Confirm
<1>8. CASE ReadCurrent(c)
  <2>1. op = "role" /\ request[c].role \in Role
    BY <1>1, <1>8 DEF ReadCurrent, Read, InItsOperation
  <2>2. CASE Goto(c, "count")
    BY <1>8, <2>1, <2>2, GotoKeeps DEF ReadCurrent, Read, Places
  <2>3. CASE ~ (IsOwner(u) /\ request[c].role # getHighestRole) /\ Goto(c, "write")
    <3>1. Owners # {u} \/ request[c].role = getHighestRole
      BY <2>3 DEF Owners
    <3> QED BY <1>8, <2>1, <2>3, <3>1, GotoKeeps DEF ReadCurrent, Read, Places
  <2> QED BY <1>8, <2>2, <2>3 DEF ReadCurrent
<1>9. CASE WriteActive(c)
  <2>1. CASE Active(u) /\ Write(c, Changed(c))
    <3>1. members[u] \in Row /\ members[u].status = "ACTIVE"
      BY <1>1, <2>1 DEF Active
    <3>2. Changed(c) \in Row
      BY <1>1, <1>9, <3>1 DEF WriteActive, Changed, InItsOperation, Row, NoRow
    <3> QED BY <1>9, <2>1, <3>2, WriteKeeps DEF WriteActive, Running, Ended
  <2>2. CASE Goto(c, "notFound") /\ UNCHANGED <<members, request, alone>>
    BY <2>2, GotoKeeps DEF Places
  <2> QED BY <1>9, <2>1, <2>2 DEF WriteActive
<1> QED
  BY <1>2, <1>3, <1>4, <1>5, <1>6, <1>7, <1>8, <1>9 DEF CallStep

(* MembersInv is inductive. *)
LEMMA MembersStep == MembersInv /\ [MembersNext]_memberVars => MembersInv'
<1> SUFFICES ASSUME MembersInv, [MembersNext]_memberVars PROVE MembersInv'
  OBVIOUS
<1>1. ASSUME NEW c \in Call, CallStep(c) PROVE MembersInv'
  BY <1>1, CallKeeps
<1>2. ASSUME NEW c \in Call, Return(c) PROVE MembersInv'
  BY <1>2, GotoKeeps DEF Return, Read, Places
<1>3. ASSUME NEW c \in Call, Fail(c) PROVE MembersInv'
  BY <1>3, GotoKeeps DEF Fail, Places
<1>4. CASE UNCHANGED memberVars
  BY <1>4 DEF memberVars, MembersInv, MembersTypeOK, InItsOperation, CheckedStill, Owners, IsOwner, Active
<1> QED BY <1>1, <1>2, <1>3, <1>4 DEF MembersNext

(* Before any call, whatever the roster, nothing has been checked. *)
LEMMA MembersStart == MembersInit => MembersInv
  BY DEF MembersInit, MembersInv, MembersTypeOK, InItsOperation, CheckedStill, Places

(* What the requests of a call have checked holds when it writes, unless    *)
(* another call wrote since it began (addMember, assertNotLastOwner).       *)
THEOREM MembersCorrect == MembersSpec => []MembersInv
  BY MembersStart, MembersStep, PTL DEF MembersSpec

-----------------------------------------------------------------------------
(* The write of a call nobody has overlapped has the effect of the whole    *)
(* call.                                                                   *)
LEMMA WriteOfOne == ASSUME MembersInv, [MembersNext]_memberVars, NEW c \in Call, Writes(c)
                    PROVE  Reactivate(c) \/ Create(c) \/ WriteActive(c)
<1>1. PICK d \in Call : CallStep(d) \/ Return(d) \/ Fail(d)
  BY DEF MembersNext, Writes, memberVars
<1>2. at \in [Call -> Places]
  BY DEF MembersInv, MembersTypeOK
<1>3. \E place : at' = [at EXCEPT ![d] = place]
  BY <1>1 DEF CallStep, Begin, ReadExisting, Reactivate, Create, Count, Confirm, ReadCurrent,
              WriteActive, Return, Fail, Goto, Write
<1>4. d = c
  BY <1>2, <1>3 DEF Writes
<1> QED
  BY <1>1, <1>2, <1>4 DEF Writes, CallStep, Begin, ReadExisting, Count, Confirm, ReadCurrent,
                          Return, Fail, Read, Goto

(* AtomicEffect is what the checks of the call, still true, leave over. *)
LEMMA AloneStep == MembersInv /\ [MembersNext]_memberVars =>
                      \A c \in Call : Writes(c) /\ alone[c] => AtomicEffect(c)
<1> SUFFICES ASSUME MembersInv, [MembersNext]_memberVars,
                    NEW c \in Call, Writes(c), alone[c]
             PROVE  AtomicEffect(c)
  OBVIOUS
<1>1. InItsOperation /\ CheckedStill
  BY DEF MembersInv
<1>2. CASE Reactivate(c)
  BY <1>1, <1>2 DEF Reactivate, InItsOperation, CheckedStill, AtomicEffect
<1>3. CASE Create(c)
  BY <1>1, <1>3 DEF Create, InItsOperation, CheckedStill, AtomicEffect
<1>4. CASE WriteActive(c)
  <2>1. at[c] = "write" /\ Active(request[c].user)
    BY <1>4 DEF WriteActive, Writes, Goto, MembersInv, MembersTypeOK
  <2>2. CASE request[c].op = "remove"
    BY <1>1, <2>1, <2>2 DEF CheckedStill, AtomicEffect
  <2>3. CASE request[c].op = "role"
    BY <1>1, <2>1, <2>3 DEF CheckedStill, AtomicEffect
  <2> QED BY <1>1, <2>1, <2>2, <2>3 DEF InItsOperation
<1> QED BY <1>2, <1>3, <1>4, WriteOfOne

(* addMember, removeMember and updateMemberRole are atomic when nobody else *)
(* writes meanwhile: AloneIsAtomic.                                        *)
THEOREM AloneCorrect == MembersSpec => AloneIsAtomic
<1>1. MembersInv /\ [MembersNext]_memberVars
         => [\A c \in Call : Writes(c) /\ alone[c] => AtomicEffect(c)]_memberVars
  BY AloneStep
<1> QED BY <1>1, MembersCorrect, PTL DEF MembersSpec, AloneIsAtomic

(* The row that changed was the last owner's, so the call removed or changed *)
(* it; alone, AtomicEffect says that somebody else is an owner.             *)
LEMMA OwnerStep == MembersInv /\ [MembersNext]_memberVars =>
                      (Owners # {} /\ Owners' = {} => \E c \in Call : Writes(c) /\ ~ alone[c])
<1> SUFFICES ASSUME MembersInv, [MembersNext]_memberVars, Owners # {}, Owners' = {}
             PROVE  \E c \in Call : Writes(c) /\ ~ alone[c]
  OBVIOUS
<1>1. members' # members
  BY DEF Owners, IsOwner, Active
<1>w. PICK c \in Call : /\ at[c] \in {"create", "reactivate", "write"}
                      /\ \E row : Write(c, row)
  BY <1>1 DEF MembersNext, memberVars, CallStep, Begin, ReadExisting, Reactivate, Create, Count,
              Confirm, ReadCurrent, WriteActive, Return, Fail, Read
<1>2. PICK row : Write(c, row) /\ at[c] \in {"create", "reactivate", "write"}
  BY <1>w
<1>3. Writes(c)
  BY <1>2 DEF Write, Goto, Writes, MembersInv, MembersTypeOK
<1>4. CASE ~ alone[c]
  BY <1>3, <1>4
<1>5. CASE alone[c]
  <2> DEFINE u == request[c].user
  <2>1. members' = [members EXCEPT ![u] = row] /\ members \in [User -> Row]
    BY <1>2 DEF Write, MembersInv, MembersTypeOK
  <2>2. Owners \subseteq {u}
    BY <2>1 DEF Owners, IsOwner, Active
  <2>3. Owners = {u} /\ Active(u)
    BY <2>2 DEF Owners, IsOwner
  <2>4. AtomicEffect(c) /\ InItsOperation
    BY <1>3, <1>5, AloneStep DEF MembersInv
  <2>5. request[c].op = "role" /\ request[c].role = getHighestRole /\ at[c] = "write"
    BY <1>2, <2>3, <2>4 DEF AtomicEffect, InItsOperation
  <2>6. members'[u] = [members[u] EXCEPT !.role = getHighestRole]
    <3>1. WriteActive(c)
      BY <1>3, <2>5, WriteOfOne DEF Reactivate, Create
    <3>2. Write(c, Changed(c))
      BY <2>3, <2>5, <3>1 DEF WriteActive
    <3>3. u \in User
      BY DEF MembersInv, MembersTypeOK, Request
    <3> QED BY <2>1, <2>5, <3>2, <3>3 DEF Write, Changed
  <2>7. u \in Owners'
    <3>1. u \in User /\ members[u] \in Row
      BY <2>1 DEF MembersInv, MembersTypeOK, Request
    <3>2. members'[u].status = "ACTIVE" /\ members'[u].role = getHighestRole
      BY <2>3, <2>6, <3>1 DEF Active, Row, NoRow
    <3> QED BY <3>1, <3>2 DEF Owners, IsOwner, Active
  <2> QED BY <2>7
<1> QED BY <1>4, <1>5

(* removeMember and updateMemberRole lose the last owner of a tenant in an  *)
(* overlap of calls only: OwnerLostOnlyByOverlap.                          *)
THEOREM OwnerCorrect == MembersSpec => OwnerLostOnlyByOverlap
<1>1. MembersInv /\ [MembersNext]_memberVars
         => [Owners # {} /\ Owners' = {} => \E c \in Call : Writes(c) /\ ~ alone[c]]_memberVars
  BY OwnerStep
<1> QED BY <1>1, MembersCorrect, PTL DEF MembersSpec, OwnerLostOnlyByOverlap

(* A write after a check asks for an active row (findOneAndUpdate), so the  *)
(* row of a removed member changes in an addMember only.                   *)
LEMMA RestoreStep == MembersInv /\ [MembersNext]_memberVars =>
                        \A u \in User : ~ Active(u) /\ members'[u] # members[u] =>
                           \E c \in Call : Writes(c) /\ request[c].op = "add" /\ request[c].user = u
<1> SUFFICES ASSUME MembersInv, [MembersNext]_memberVars,
                    NEW u \in User, ~ Active(u), members'[u] # members[u]
             PROVE  \E c \in Call : Writes(c) /\ request[c].op = "add" /\ request[c].user = u
  OBVIOUS
<1>0. PICK c \in Call : /\ at[c] \in {"create", "reactivate", "write"}
                      /\ \E row : Write(c, row)
  BY DEF MembersNext, memberVars, CallStep, Begin, ReadExisting, Reactivate, Create, Count,
         Confirm, ReadCurrent, WriteActive, Return, Fail, Read
<1>1. PICK row : Write(c, row) /\ at[c] \in {"create", "reactivate", "write"}
  BY <1>0
<1>2. Writes(c)
  BY <1>1 DEF Write, Goto, Writes, MembersInv, MembersTypeOK
<1>3. request[c].user = u
  BY <1>1 DEF Write, MembersInv, MembersTypeOK
<1>4. at[c] # "write"
  <2> SUFFICES ASSUME at[c] = "write" PROVE FALSE
    OBVIOUS
  <2>1. WriteActive(c)
    BY <1>2, WriteOfOne DEF Reactivate, Create
  <2> QED BY <1>2, <1>3, <2>1 DEF WriteActive, Writes, Goto, MembersInv, MembersTypeOK
<1>5. request[c].op = "add"
  BY <1>1, <1>4 DEF MembersInv, InItsOperation
<1> QED BY <1>2, <1>3, <1>5

(* Only addMember gives a removed member access again: OnlyAddRestores. *)
THEOREM RestoreCorrect == MembersSpec => OnlyAddRestores
<1>1. MembersInv /\ [MembersNext]_memberVars
         => [\A u \in User : ~ Active(u) /\ members'[u] # members[u] =>
               \E c \in Call : Writes(c) /\ request[c].op = "add" /\ request[c].user = u]_memberVars
  BY RestoreStep
<1> QED BY <1>1, MembersCorrect, PTL DEF MembersSpec, OnlyAddRestores

-----------------------------------------------------------------------------
(* The caches of CoreTenantGuard.                                          *)
(*                                                                         *)
(* A told lookup is an entry on its way: whatever makes an entry wrong has  *)
(* already made the lookup wrong that will store it.                       *)
ToldOnlyIfRaced ==
    \A l \in Lookup :
        lookup[l].at = "told" /\ lookup[l].answer # Truth(lookup[l].key[1])
            => Expected(lookup[l].replica, lookup[l].key[1]) \/ lookup[l].excused

CacheTypes == CacheTypeOK /\ MembersInv
RaceInv    == CacheTypes /\ StaleOnlyIfRaced /\ ToldOnlyIfRaced

(* How long ago an answer was the right one, from the clock to the expiry:  *)
(* the truth is true now, a lookup is answered within QueryTime of asking,  *)
(* and an entry expires a Ttl (and a QueryTime) after its answer was true.  *)
Slack(k) == Ttl + (IF k[2] = "membership" THEN 0 ELSE QueryTime)
TruthInv ==
    \A u \in User : lastTrue[u][Truth(u)] = now /\ \A a \in Answer : lastTrue[u][a] <= now
LookupInv ==
    \A l \in Lookup : lookup[l].at # "idle" =>
        /\ lookup[l].asked <= now /\ now <= lookup[l].asked + QueryTime
        /\ lookup[l].at = "told" => lookup[l].asked <= lastTrue[lookup[l].key[1]][lookup[l].answer]
EntryInv ==
    \A rep \in Replica, k \in Key :
        Live(rep, k) => cache[rep][k].expiresAt <= lastTrue[k[1]][cache[rep][k].answer] + Slack(k)
AgeInv == CacheTypes /\ TruthInv /\ LookupInv /\ EntryInv

(* A lookup that an invalidation excuses is the same lookup. *)
LEMMA LookupExcused ==
    ASSUME CacheTypes, NEW reps, NEW u, NEW l \in Lookup
    PROVE  /\ ExcusedLookups(reps, u)[l] \in {Idle} \cup Asked \cup Told
           /\ ExcusedLookups(reps, u)[l].at = lookup[l].at
           /\ lookup[l].at # "told" => ExcusedLookups(reps, u)[l] = lookup[l]
           /\ lookup[l].at = "told" =>
                 /\ ExcusedLookups(reps, u)[l].replica = lookup[l].replica
                 /\ ExcusedLookups(reps, u)[l].key = lookup[l].key
                 /\ ExcusedLookups(reps, u)[l].asked = lookup[l].asked
                 /\ ExcusedLookups(reps, u)[l].answer = lookup[l].answer
                 /\ lookup[l].excused => ExcusedLookups(reps, u)[l].excused
                 /\ lookup[l].replica \in reps /\ lookup[l].key[1] = u => ExcusedLookups(reps, u)[l].excused
<1>1. lookup[l] \in {Idle} \cup Asked \cup Told
  BY DEF CacheTypes, CacheTypeOK
<1>2. CASE lookup[l].at = "told"
  <2>1. lookup[l] \in Told
    BY <1>1, <1>2 DEF Idle, Asked
  <2> QED BY <1>2, <2>1 DEF ExcusedLookups, Told
<1>3. CASE lookup[l].at # "told"
  BY <1>1, <1>3 DEF ExcusedLookups
<1> QED BY <1>2, <1>3

(* An entry that an invalidation does not reach is the same entry. *)
LEMMA EntryExcused ==
    ASSUME CacheTypes, NEW rep \in Replica, NEW u, NEW k \in Key
    PROVE  /\ ExcusedEntries(rep, u)[k] \in Entry
           /\ ExcusedEntries(rep, u)[k].answer = cache[rep][k].answer
           /\ ExcusedEntries(rep, u)[k].expiresAt = cache[rep][k].expiresAt
           /\ cache[rep][k].excused => ExcusedEntries(rep, u)[k].excused
           /\ k[1] = u /\ Live(rep, k) => ExcusedEntries(rep, u)[k].excused
<1>1. cache[rep][k] \in Entry
  BY DEF CacheTypes, CacheTypeOK
<1>2. Live(rep, k) \in BOOLEAN
  BY DEF Live
<1> QED BY <1>1, <1>2 DEF ExcusedEntries, Entry

LEMMA NoEntryTyped == NoEntry \in Entry
  BY DEF NoEntry, Entry, Answer

(* clearUser, and the invalidations that never come: an entry of this user  *)
(* is gone where they arrive, excused where they will not, and everything   *)
(* else is as it was.                                                      *)
LEMMA Clearing ==
    ASSUME CacheTypes, NEW here, NEW unheard, NEW u, Clear(here, u, unheard)
    PROVE  /\ cache' \in [Replica -> [Key -> Entry]]
           /\ lookup' \in [Lookup -> {Idle} \cup Asked \cup Told]
           /\ \A rep \in Replica, k \in Key :
                 \/ cache'[rep][k] = NoEntry
                 \/ /\ cache'[rep][k].answer = cache[rep][k].answer
                    /\ cache'[rep][k].expiresAt = cache[rep][k].expiresAt
                    /\ cache[rep][k].excused => cache'[rep][k].excused
                    /\ k[1] = u => rep \notin here
                    /\ k[1] = u /\ rep \in unheard /\ Live(rep, k) => cache'[rep][k].excused
           /\ \A l \in Lookup :
                 /\ lookup'[l].at = lookup[l].at
                 /\ lookup[l].at # "told" => lookup'[l] = lookup[l]
                 /\ lookup[l].at = "told" =>
                       /\ lookup'[l].replica = lookup[l].replica /\ lookup'[l].key = lookup[l].key
                       /\ lookup'[l].asked = lookup[l].asked /\ lookup'[l].answer = lookup[l].answer
                       /\ lookup[l].excused => lookup'[l].excused
                       /\ lookup[l].replica \in here \cup unheard /\ lookup[l].key[1] = u
                             => lookup'[l].excused
<1>1. cache \in [Replica -> [Key -> Entry]]
  BY DEF CacheTypes, CacheTypeOK
<1>2. /\ cache' = [rep \in Replica |-> IF rep \in here THEN Cleared(rep, u)
                                       ELSE IF rep \in unheard THEN ExcusedEntries(rep, u)
                                       ELSE cache[rep]]
      /\ lookup' = ExcusedLookups(here \cup unheard, u)
  BY DEF Clear
<1>3. ASSUME NEW rep \in Replica
      PROVE  Cleared(rep, u) \in [Key -> Entry] /\ ExcusedEntries(rep, u) \in [Key -> Entry]
  <2>1. Cleared(rep, u) \in [Key -> Entry]
    BY <1>1, NoEntryTyped DEF Cleared
  <2>2. \A k \in Key : ExcusedEntries(rep, u)[k] \in Entry
    BY EntryExcused
  <2>3. ExcusedEntries(rep, u) = [k \in Key |-> ExcusedEntries(rep, u)[k]]
    BY DEF ExcusedEntries
  <2> QED BY <2>1, <2>2, <2>3
<1>4. cache' \in [Replica -> [Key -> Entry]]
  BY <1>1, <1>2, <1>3
<1>5. lookup' \in [Lookup -> {Idle} \cup Asked \cup Told]
  <2>1. \A l \in Lookup : lookup'[l] \in {Idle} \cup Asked \cup Told
    BY <1>2, LookupExcused
  <2>2. lookup' = [l \in Lookup |-> lookup'[l]]
    BY <1>2 DEF ExcusedLookups
  <2> QED BY <2>1, <2>2
<1>6. ASSUME NEW rep \in Replica, NEW k \in Key, cache'[rep][k] # NoEntry
      PROVE  /\ cache'[rep][k].answer = cache[rep][k].answer
             /\ cache'[rep][k].expiresAt = cache[rep][k].expiresAt
             /\ cache[rep][k].excused => cache'[rep][k].excused
             /\ k[1] = u => rep \notin here
             /\ k[1] = u /\ rep \in unheard /\ Live(rep, k) => cache'[rep][k].excused
  <2>1. CASE rep \in here
    <3>1. cache'[rep] = Cleared(rep, u)
      BY <1>2, <2>1
    <3>2. k[1] # u /\ cache'[rep][k] = cache[rep][k]
      BY <1>6, <3>1 DEF Cleared
    <3> QED BY <3>2
  <2>2. CASE rep \notin here /\ rep \in unheard
    <3>1. cache'[rep] = ExcusedEntries(rep, u)
      BY <1>2, <2>2
    <3> QED BY <2>2, <3>1, EntryExcused
  <2>3. CASE rep \notin here /\ rep \notin unheard
    <3>1. cache'[rep] = cache[rep]
      BY <1>2, <2>3
    <3> QED BY <2>3, <3>1
  <2> QED BY <2>1, <2>2, <2>3
<1>7. ASSUME NEW l \in Lookup
      PROVE  /\ lookup'[l].at = lookup[l].at
             /\ lookup[l].at # "told" => lookup'[l] = lookup[l]
             /\ lookup[l].at = "told" =>
                   /\ lookup'[l].replica = lookup[l].replica /\ lookup'[l].key = lookup[l].key
                   /\ lookup'[l].asked = lookup[l].asked /\ lookup'[l].answer = lookup[l].answer
                   /\ lookup[l].excused => lookup'[l].excused
                   /\ lookup[l].replica \in here \cup unheard /\ lookup[l].key[1] = u
                         => lookup'[l].excused
  <2> DEFINE reps == here \cup unheard
  <2> HIDE DEF reps
  <2>1. lookup'[l] = ExcusedLookups(reps, u)[l]
    BY <1>2 DEF reps
  <2>2. QED BY <2>1, LookupExcused DEF reps
<1> QED BY <1>4, <1>5, <1>6, <1>7

-----------------------------------------------------------------------------
(* Every step is one of the tenant's calls or leaves the members alone. *)
LEMMA CacheIsMembers == CacheNext => [MembersNext]_memberVars
<1> SUFFICES ASSUME CacheNext PROVE [MembersNext]_memberVars
  OBVIOUS
<1>1. ASSUME NEW c \in Call, Change(c) \/ Invalidate(c) \/ FailedCall(c) PROVE MembersNext
  BY <1>1 DEF Change, Invalidate, FailedCall, MembersNext
<1>2. CASE UNCHANGED memberVars
  BY <1>2
<1> QED
  BY <1>1, <1>2 DEF CacheNext, Evaluate, Fill, Ask, evictExpired, Receive, Miss, EvictOldest, Tick, memberVars

(* The role of an active member is an answer. *)
LEMMA TruthTyped == ASSUME MembersTypeOK, NEW u \in User PROVE Truth(u) \in Answer
<1>1. members[u] \in Row
  BY DEF MembersTypeOK
<1> QED BY <1>1 DEF Truth, Active, Answer, Row, NoRow

(* A step that changes the right answers records when. *)
LEMMA NewlyTyped ==
    ASSUME CacheTypes, MembersTypeOK', NEW time \in Nat, NewlyTrue(time)
    PROVE  /\ lastTrue' \in [User -> [Answer -> Nat]]
           /\ \A u \in User : Truth(u)' \in Answer /\ lastTrue'[u][Truth(u)'] = time
           /\ \A u \in User, a \in Answer : lastTrue'[u][a] \in {lastTrue[u][a], time}
<1>1. \A u \in User : Truth(u)' \in Answer
  <2> TAKE u \in User
  <2>1. members'[u] \in Row
    BY DEF MembersTypeOK
  <2> QED BY <2>1 DEF Truth, Active, Answer, Row, NoRow
<1>2. lastTrue' = [u \in User |-> [lastTrue[u] EXCEPT ![Truth(u)'] = time]]
  BY DEF NewlyTrue
<1>3. lastTrue \in [User -> [Answer -> Nat]]
  BY DEF CacheTypes, CacheTypeOK
<1>4. ASSUME NEW u \in User
      PROVE  /\ lastTrue'[u] \in [Answer -> Nat]
             /\ lastTrue'[u][Truth(u)'] = time
             /\ \A a \in Answer : lastTrue'[u][a] \in {lastTrue[u][a], time}
  <2>1. lastTrue'[u] = [lastTrue[u] EXCEPT ![Truth(u)'] = time]
    BY <1>2
  <2>2. Truth(u)' \in Answer /\ lastTrue[u] \in [Answer -> Nat]
    BY <1>1, <1>3
  <2> HIDE DEF Truth
  <2> QED BY <2>1, <2>2
<1> HIDE DEF Truth
<1>5. lastTrue' \in [User -> [Answer -> Nat]]
  BY <1>2, <1>4
<1> QED BY <1>1, <1>4, <1>5

(* What a lookup stores is an entry. *)
LEMMA StoredTyped ==
    ASSUME CacheTypes, NEW l \in Lookup, lookup[l].at = "told"
    PROVE  /\ lookup[l] \in Told
           /\ Stored(lookup[l]) \in Entry
           /\ \/ Stored(lookup[l]) = NoEntry
              \/ /\ Stored(lookup[l]).answer = lookup[l].answer
                 /\ Stored(lookup[l]).expiresAt = Expiry(lookup[l])
                 /\ Stored(lookup[l]).excused = lookup[l].excused
<1>1. lookup[l] \in Told
  BY DEF CacheTypes, CacheTypeOK, Idle, Asked
<1>2. /\ lookup[l].answer \in Answer /\ lookup[l].excused \in BOOLEAN
      /\ lookup[l].asked \in Nat /\ now \in Nat /\ Ttl \in Nat
  BY <1>1, CacheAssumption DEF Told, CacheTypes, CacheTypeOK
<1>3. Expiry(lookup[l]) \in Nat
  BY <1>2 DEF Expiry
<1> DEFINE expiry == Expiry(lookup[l])
           filled == [answer |-> lookup[l].answer, expiresAt |-> expiry, excused |-> lookup[l].excused]
<1>4. Stored(lookup[l]) = NoEntry \/ Stored(lookup[l]) = filled
  BY DEF Stored
<1> HIDE DEF expiry
<1>5. filled \in Entry /\ filled.answer = lookup[l].answer /\ filled.expiresAt = expiry
      /\ filled.excused = lookup[l].excused
  BY <1>2, <1>3 DEF Entry, expiry
<1> HIDE DEF filled
<1> QED BY <1>1, <1>4, <1>5, NoEntryTyped DEF expiry

-----------------------------------------------------------------------------
(* Every step keeps the types of the caches. *)
LEMMA CacheTypesStep == CacheTypes /\ [CacheNext]_tenantVars => CacheTypes'
<1> SUFFICES ASSUME CacheTypes, [CacheNext]_tenantVars PROVE CacheTypes'
  OBVIOUS
<1> USE DEF CacheTypes
<1>1. MembersInv' /\ MembersTypeOK'
  <2>1. [MembersNext]_memberVars
    BY CacheIsMembers DEF tenantVars, memberVars
  <2> QED BY <2>1, MembersStep DEF MembersInv
<1>2. /\ now \in Nat /\ cache \in [Replica -> [Key -> Entry]] /\ inbox \in [Replica -> SUBSET User]
      /\ lookup \in [Lookup -> {Idle} \cup Asked \cup Told] /\ lastTrue \in [User -> [Answer -> Nat]]
  BY DEF CacheTypeOK
<1> DEFINE Typed == CacheTypeOK'
<1>3. ASSUME NEW c \in Call, Change(c) PROVE Typed
  BY <1>1, <1>2, <1>3, NewlyTyped DEF Change, CacheTypeOK
<1>4. ASSUME NEW c \in Call, Invalidate(c) PROVE Typed
  <2>1. request[c].user \in User
    BY DEF MembersInv, MembersTypeOK, Request
  <2>2. inbox' \in [Replica -> SUBSET User] /\ UNCHANGED <<now, lastTrue>>
    BY <1>2, <1>4, <2>1 DEF Invalidate
  <2>3. \E here, unheard : Clear(here, request[c].user, unheard)
    BY <1>4 DEF Invalidate
  <2> QED BY <1>1, <1>2, <2>2, <2>3, Clearing DEF CacheTypeOK
<1>5. ASSUME NEW c \in Call, FailedCall(c) PROVE Typed
  <2>1. UNCHANGED <<now, inbox, lastTrue>>
    BY <1>5 DEF FailedCall
  <2>2. CASE UNCHANGED <<cache, lookup>>
    BY <1>1, <1>2, <2>1, <2>2 DEF CacheTypeOK
  <2>3. CASE Clear({}, request[c].user, Replica)
    BY <1>1, <1>2, <2>1, <2>3, Clearing DEF CacheTypeOK
  <2> QED BY <1>5, <2>2, <2>3 DEF FailedCall
<1>6. ASSUME NEW rep \in Replica, NEW u \in User, Receive(rep, u) \/ Miss(rep, u) PROVE Typed
  <2>1. inbox' \in [Replica -> SUBSET User] /\ UNCHANGED <<now, lastTrue>>
    BY <1>2, <1>6 DEF Receive, Miss
  <2>2. \E here, unheard : Clear(here, u, unheard)
    BY <1>6 DEF Receive, Miss
  <2> QED BY <1>1, <1>2, <2>1, <2>2, Clearing DEF CacheTypeOK
<1>7. ASSUME NEW rep \in Replica, evictExpired(rep) \/ \E k \in Key : EvictOldest(rep, k) PROVE Typed
  <2> DEFINE kept == [k \in Key |-> IF Live(rep, k) THEN cache[rep][k] ELSE NoEntry]
  <2>1. kept \in [Key -> Entry]
    BY <1>2, NoEntryTyped
  <2>2. CASE evictExpired(rep)
    <3>1. cache' = [cache EXCEPT ![rep] = kept] /\ UNCHANGED <<now, lookup, inbox, lastTrue>>
      BY <2>2 DEF evictExpired
    <3> HIDE DEF kept
    <3> QED BY <1>1, <1>2, <2>1, <3>1 DEF CacheTypeOK
  <2>3. CASE \E k \in Key : EvictOldest(rep, k)
    BY <1>1, <1>2, <2>3, NoEntryTyped DEF EvictOldest, CacheTypeOK
  <2> QED BY <1>7, <2>2, <2>3
<1>8. ASSUME NEW l \in Lookup, NEW rep \in Replica, NEW k \in Key, Ask(l, rep, k) PROVE Typed
  <2>1. [at |-> "asking", replica |-> rep, key |-> k, asked |-> now] \in Asked
    BY <1>2 DEF Asked
  <2>2. lookup' \in [Lookup -> {Idle} \cup Asked \cup Told]
    BY <1>2, <1>8, <2>1 DEF Ask
  <2> QED BY <1>1, <1>2, <1>8, <2>2 DEF Ask, CacheTypeOK
<1>9. ASSUME NEW l \in Lookup, Evaluate(l) PROVE Typed
  <2> DEFINE told == [at |-> "told", replica |-> lookup[l].replica, key |-> lookup[l].key,
                      asked |-> lookup[l].asked, answer |-> Truth(lookup[l].key[1]), excused |-> FALSE]
  <2>1. lookup[l] \in Asked
    BY <1>2, <1>9 DEF Evaluate, Idle, Told
  <2>2. lookup[l].key \in Key /\ lookup[l].key[1] \in User /\ lookup[l].replica \in Replica
        /\ lookup[l].asked \in Nat
    BY <2>1 DEF Asked, Key
  <2>3. Truth(lookup[l].key[1]) \in Answer
    BY <2>2, TruthTyped DEF MembersInv
  <2>4. told \in Told
    <3> HIDE DEF Truth
    <3> QED BY <2>2, <2>3 DEF Told
  <2>5. lookup' = [lookup EXCEPT ![l] = told]
    BY <1>9 DEF Evaluate
  <2>6. lookup' \in [Lookup -> {Idle} \cup Asked \cup Told]
    <3> HIDE DEF told
    <3> QED BY <1>2, <2>4, <2>5
  <2> QED BY <1>1, <1>2, <1>9, <2>6 DEF Evaluate, CacheTypeOK
<1>10. ASSUME NEW l \in Lookup, Fill(l) PROVE Typed
  <2>1. lookup' \in [Lookup -> {Idle} \cup Asked \cup Told]
    BY <1>2, <1>10 DEF Fill
  <2>2. Stored(lookup[l]) \in Entry
    BY <1>10, StoredTyped DEF Fill
  <2>3. cache' \in [Replica -> [Key -> Entry]]
    <3> HIDE DEF Stored
    <3> QED BY <1>2, <1>10, <2>2 DEF Fill
  <2> QED BY <1>1, <1>2, <1>10, <2>1, <2>3 DEF Fill, CacheTypeOK
<1>11. CASE Tick
  BY <1>1, <1>2, <1>11, NewlyTyped DEF Tick, CacheTypeOK
<1>12. CASE UNCHANGED tenantVars
  BY <1>1, <1>2, <1>12 DEF tenantVars, cacheVars, CacheTypeOK
<1> QED
  BY <1>1, <1>3, <1>4, <1>5, <1>6, <1>7, <1>8, <1>9, <1>10, <1>11, <1>12 DEF CacheNext

-----------------------------------------------------------------------------
(* Why a cached answer is wrong. *)

(* An invalidation excuses what it should have removed and does not: nothing *)
(* gets wrong if somebody expects another one where this one never comes.   *)
LEMMA ClearKeepsRace ==
    ASSUME RaceInv, NEW here, NEW unheard, NEW u, Clear(here, u, unheard),
           members' = members, now' = now,
           \A rep \in Replica, v \in User :
              Expected(rep, v) /\ ~ (v = u /\ rep \in here \cup unheard) => Expected(rep, v)'
    PROVE  StaleOnlyIfRaced' /\ ToldOnlyIfRaced'
<1>1. CacheTypes /\ StaleOnlyIfRaced /\ ToldOnlyIfRaced
  BY DEF RaceInv
<1>2. \A v : Truth(v)' = Truth(v)
  BY DEF Truth, Active
<1> HIDE DEF Truth
<1>3. StaleOnlyIfRaced'
  <2> SUFFICES ASSUME NEW rep \in Replica, NEW k \in Key,
                      now < cache'[rep][k].expiresAt, cache'[rep][k].answer # Truth(k[1])
               PROVE  Expected(rep, k[1])' \/ cache'[rep][k].excused
    BY <1>2 DEF StaleOnlyIfRaced, Live
  <2>1. cache'[rep][k] # NoEntry
    BY <1>1 DEF NoEntry, CacheTypes, CacheTypeOK
  <2>2. /\ cache'[rep][k].answer = cache[rep][k].answer
        /\ cache'[rep][k].expiresAt = cache[rep][k].expiresAt
        /\ cache[rep][k].excused => cache'[rep][k].excused
        /\ k[1] = u => rep \notin here
        /\ k[1] = u /\ rep \in unheard /\ Live(rep, k) => cache'[rep][k].excused
    BY <1>1, <2>1, Clearing
  <2>3. Live(rep, k) /\ cache[rep][k].answer # Truth(k[1])
    BY <2>2 DEF Live
  <2>4. Expected(rep, k[1]) \/ cache[rep][k].excused
    BY <1>1, <2>3 DEF StaleOnlyIfRaced
  <2>5. k[1] \in User
    BY DEF Key
  <2> QED BY <2>2, <2>3, <2>4, <2>5
<1>4. ToldOnlyIfRaced'
  <2> SUFFICES ASSUME NEW l \in Lookup, lookup'[l].at = "told", lookup'[l].answer # Truth(lookup'[l].key[1])
               PROVE  Expected(lookup[l].replica, lookup[l].key[1])' \/ lookup'[l].excused
    BY <1>2 DEF ToldOnlyIfRaced
  <2>1. lookup'[l].at = lookup[l].at /\ lookup[l].at = "told"
    BY <1>1, Clearing
  <2>2. /\ lookup'[l].replica = lookup[l].replica /\ lookup'[l].key = lookup[l].key
        /\ lookup'[l].answer = lookup[l].answer
        /\ lookup[l].excused => lookup'[l].excused
        /\ lookup[l].replica \in here \cup unheard /\ lookup[l].key[1] = u => lookup'[l].excused
    BY <1>1, <2>1, Clearing
  <2>3. Expected(lookup[l].replica, lookup[l].key[1]) \/ lookup[l].excused
    BY <1>1, <2>1, <2>2 DEF ToldOnlyIfRaced
  <2>4. lookup[l].replica \in Replica /\ lookup[l].key[1] \in User
    BY <1>1, <2>1, StoredTyped DEF Told, Key
  <2> QED BY <2>2, <2>3, <2>4 DEF Expected
<1> QED BY <1>3, <1>4

(* The call that writes is expected until it returns or fails. *)
LEMMA ChangeKeepsExpected ==
    ASSUME CacheTypes, NEW c \in Call, Change(c)
    PROVE  /\ \A rep \in Replica, v \in User : Expected(rep, v) => Expected(rep, v)'
           /\ \A rep \in Replica, v \in User : Truth(v)' # Truth(v) => Expected(rep, v)'
<1>1. CallStep(c) /\ inbox' = inbox /\ at \in [Call -> Places] /\ request' = request
  BY DEF Change, CacheTypes, MembersInv, MembersTypeOK, CallStep, Begin, ReadExisting, Reactivate, Create,
         Count, Confirm, ReadCurrent, WriteActive, Read, Write
<1>2. at[c] # "written" /\ \A d \in Call : d # c => at'[d] = at[d]
  BY <1>1 DEF CallStep, Begin, ReadExisting, Reactivate, Create, Count, Confirm, ReadCurrent,
              WriteActive, Read, Write, Goto
<1>3. \A rep \in Replica, v \in User : Expected(rep, v) => Expected(rep, v)'
  BY <1>1, <1>2 DEF Expected
<1>4. ASSUME NEW rep \in Replica, NEW v \in User, Truth(v)' # Truth(v) PROVE Expected(rep, v)'
  <2>1. members'[v] # members[v]
    BY <1>4 DEF Truth, Active
  <2>2. \E row : Write(c, row)
    BY <1>1, <2>1 DEF CallStep, Begin, ReadExisting, Reactivate, Create, Count, Confirm, ReadCurrent,
                      WriteActive, Read
  <2>3. request[c].user = v /\ at'[c] = "written"
    BY <1>1, <2>1, <2>2 DEF Write, Goto, CacheTypes, MembersInv, MembersTypeOK
  <2> QED BY <1>1, <2>3 DEF Expected
<1> QED BY <1>3, <1>4

(* RaceInv is inductive.  A quiet step leaves the rows and what is expected *)
(* alone; of those, <1>8 is about the ones that can only lose entries.      *)
LEMMA RaceStep == RaceInv /\ [CacheNext]_tenantVars => RaceInv'
<1> SUFFICES ASSUME RaceInv, [CacheNext]_tenantVars PROVE RaceInv'
  OBVIOUS
<1> DEFINE Raced == StaleOnlyIfRaced' /\ ToldOnlyIfRaced'
<1>1. CacheTypes /\ StaleOnlyIfRaced /\ ToldOnlyIfRaced /\ CacheTypes'
  BY CacheTypesStep DEF RaceInv
<1>2. /\ now \in Nat /\ cache \in [Replica -> [Key -> Entry]] /\ lookup \in [Lookup -> {Idle} \cup Asked \cup Told]
      /\ inbox \in [Replica -> SUBSET User] /\ at \in [Call -> Places] /\ request \in [Call -> Request]
      /\ Home \in [Call -> Replica]
  BY <1>1, CacheAssumption DEF CacheTypes, CacheTypeOK, MembersTypeOK
<1>3. ASSUME NEW c \in Call, Change(c) PROVE Raced
  <2>1. /\ \A rep \in Replica, v \in User : Expected(rep, v) => Expected(rep, v)'
        /\ \A rep \in Replica, v \in User : Truth(v)' # Truth(v) => Expected(rep, v)'
    BY <1>1, <1>3, ChangeKeepsExpected
  <2>2. UNCHANGED <<now, cache, lookup>>
    BY <1>3 DEF Change
  <2>3. StaleOnlyIfRaced'
    <3> SUFFICES ASSUME NEW rep \in Replica, NEW k \in Key, Live(rep, k), cache[rep][k].answer # Truth(k[1])'
                 PROVE  Expected(rep, k[1])' \/ cache[rep][k].excused
      BY <2>2 DEF StaleOnlyIfRaced, Live
    <3>1. k[1] \in User
      BY DEF Key
    <3> HIDE DEF Truth
    <3> QED BY <1>1, <2>1, <3>1 DEF StaleOnlyIfRaced
  <2>4. ToldOnlyIfRaced'
    <3> SUFFICES ASSUME NEW l \in Lookup, lookup[l].at = "told", lookup[l].answer # Truth(lookup[l].key[1])'
                 PROVE  Expected(lookup[l].replica, lookup[l].key[1])' \/ lookup[l].excused
      BY <2>2 DEF ToldOnlyIfRaced
    <3>1. PICK rep \in Replica, v \in User : lookup[l].replica = rep /\ lookup[l].key[1] = v
      BY <1>1, StoredTyped DEF Told, Key
    <3>2. lookup[l].answer # Truth(v)'
      BY <2>2, <3>1
    <3>3. Expected(rep, v)' \/ lookup[l].excused
      BY <1>1, <2>1, <3>1, <3>2 DEF ToldOnlyIfRaced
    <3> QED BY <2>2, <3>1, <3>3
  <2> QED BY <2>3, <2>4
<1>4. ASSUME NEW c \in Call, Invalidate(c) PROVE Raced
  <2> DEFINE u == request[c].user
  <2>1. /\ u \in User /\ UNCHANGED <<members, request, now>>
        /\ \A d \in Call : d # c => at'[d] = at[d]
    BY <1>2, <1>4 DEF Invalidate, Return, Read, Goto, Request
  <2> HIDE DEF u
  <2>2. CASE /\ inbox' = [rep \in Replica |-> inbox[rep] \cup {u}]
             /\ Clear({Home[c]}, u, {})
    <3>1. \A rep \in Replica, v \in User : Expected(rep, v) => Expected(rep, v)'
      BY <1>2, <2>1, <2>2 DEF Expected, u
    <3> QED BY <2>1, <2>2, <3>1, ClearKeepsRace
  <2>3. CASE UNCHANGED inbox /\ Clear({Home[c]}, u, Replica \ {Home[c]})
    <3>1. \A rep \in Replica, v \in User :
             Expected(rep, v) /\ ~ (v = u /\ rep \in {Home[c]} \cup (Replica \ {Home[c]})) => Expected(rep, v)'
      BY <1>2, <2>1, <2>3 DEF Expected, u
    <3> QED BY <2>1, <2>3, <3>1, ClearKeepsRace
  <2> QED BY <1>4, <2>2, <2>3 DEF Invalidate, u
<1>5. ASSUME NEW c \in Call, FailedCall(c) PROVE Raced
  <2>1. /\ UNCHANGED <<members, request, now, inbox>>
        /\ \A d \in Call : d # c => at'[d] = at[d]
    BY <1>2, <1>5 DEF FailedCall, Fail, Goto
  <2>2. CASE at[c] = "written" /\ Clear({}, request[c].user, Replica)
    <3>1. \A rep \in Replica, v \in User :
             Expected(rep, v) /\ ~ (v = request[c].user /\ rep \in {} \cup Replica) => Expected(rep, v)'
      BY <2>1 DEF Expected
    <3> QED BY <2>1, <2>2, <3>1, ClearKeepsRace
  <2>3. CASE at[c] # "written" /\ UNCHANGED <<cache, lookup>>
    <3>1. \A rep, v : Expected(rep, v) => Expected(rep, v)'
      BY <2>1, <2>3 DEF Expected
    <3>2. \A v : Truth(v)' = Truth(v)
      BY <2>1 DEF Truth, Active
    <3> HIDE DEF Truth
    <3> QED BY <1>1, <2>1, <2>3, <3>1, <3>2 DEF StaleOnlyIfRaced, ToldOnlyIfRaced, Live
  <2> QED BY <1>5, <2>2, <2>3 DEF FailedCall
<1>6. ASSUME NEW rep \in Replica, NEW u \in User, Receive(rep, u) \/ Miss(rep, u) PROVE Raced
  <2>1. /\ UNCHANGED <<members, at, request, now>>
        /\ inbox' = [inbox EXCEPT ![rep] = @ \ {u}]
    BY <1>6 DEF Receive, Miss, memberVars
  <2>2. \A r \in Replica, v \in User : Expected(r, v) /\ ~ (v = u /\ r \in {rep}) => Expected(r, v)'
    BY <1>2, <2>1 DEF Expected
  <2>3. CASE Clear({rep}, u, {})
    BY <2>1, <2>2, <2>3, ClearKeepsRace
  <2>4. CASE Clear({}, u, {rep})
    BY <2>1, <2>2, <2>4, ClearKeepsRace
  <2> QED BY <1>6, <2>3, <2>4 DEF Receive, Miss
<1> DEFINE Quiet == UNCHANGED <<memberVars, inbox>>
<1>7. ASSUME Quiet PROVE /\ \A v : Truth(v)' = Truth(v)
                         /\ \A r, v : Expected(r, v)' = Expected(r, v)
  BY <1>7 DEF Truth, Active, Expected, memberVars
<1>8. ASSUME Quiet, now \in Nat /\ now' \in Nat /\ now <= now', lookup' = lookup,
             \A rep \in Replica, k \in Key : cache'[rep][k] \in {cache[rep][k], NoEntry}
      PROVE  Raced
  <2>1. ASSUME NEW rep \in Replica, NEW k \in Key, Live(rep, k)'
        PROVE  cache'[rep][k] = cache[rep][k] /\ Live(rep, k)
    <3>1. cache[rep][k].expiresAt \in Nat /\ NoEntry.expiresAt = 0
      BY <1>2 DEF Entry, NoEntry
    <3>2. cache'[rep][k] = cache[rep][k]
      BY <1>8, <2>1, <3>1 DEF Live
    <3> QED BY <1>8, <2>1, <3>1, <3>2 DEF Live
  <2> HIDE DEF Truth, Expected, Live
  <2> QED BY <1>1, <1>7, <1>8, <2>1 DEF StaleOnlyIfRaced, ToldOnlyIfRaced
<1>9. ASSUME NEW rep \in Replica, evictExpired(rep) \/ \E k \in Key : EvictOldest(rep, k) PROVE Raced
  <2>1. UNCHANGED <<memberVars, now, lookup, inbox>>
    BY <1>9 DEF evictExpired, EvictOldest
  <2>2. ASSUME NEW r \in Replica, NEW k \in Key PROVE cache'[r][k] \in {cache[r][k], NoEntry}
    <3>1. CASE evictExpired(rep)
      BY <1>2, <3>1 DEF evictExpired
    <3>2. CASE \E j \in Key : EvictOldest(rep, j)
      BY <1>2, <3>2 DEF EvictOldest
    <3> QED BY <1>9, <3>1, <3>2
  <2>3. now <= now'
    BY <1>2, <2>1
  <2> QED BY <1>2, <1>8, <2>1, <2>2, <2>3
<1>10. ASSUME Tick PROVE Raced
  <2>1. Quiet /\ lookup' = lookup
    BY <1>10 DEF Tick
  <2>2. now' \in Nat /\ now <= now'
    BY <1>2, <1>10 DEF Tick
  <2>3. \A rep \in Replica, k \in Key : cache'[rep][k] \in {cache[rep][k], NoEntry}
    BY <1>10 DEF Tick
  <2> QED BY <1>2, <1>8, <2>1, <2>2, <2>3
<1>11. ASSUME NEW l \in Lookup, NEW rep \in Replica, NEW k \in Key, Ask(l, rep, k) PROVE Raced
  <2>1. Quiet /\ UNCHANGED <<now, cache>> /\ \A m \in Lookup : lookup'[m].at = "told" => lookup'[m] = lookup[m]
    BY <1>2, <1>11 DEF Ask
  <2> HIDE DEF Truth, Expected
  <2> QED BY <1>1, <1>7, <2>1 DEF StaleOnlyIfRaced, ToldOnlyIfRaced, Live
<1>12. ASSUME NEW l \in Lookup, Evaluate(l) PROVE Raced
  <2>1. Quiet /\ UNCHANGED <<now, cache>> /\ \A m \in Lookup : m # l => lookup'[m] = lookup[m]
    BY <1>2, <1>12 DEF Evaluate
  <2>2. lookup'[l].answer = Truth(lookup'[l].key[1])
    <3> HIDE DEF Truth
    <3> QED BY <1>2, <1>12 DEF Evaluate
  <2> HIDE DEF Truth, Expected
  <2> QED BY <1>1, <1>7, <2>1, <2>2 DEF StaleOnlyIfRaced, ToldOnlyIfRaced, Live
<1>13. ASSUME NEW l \in Lookup, Fill(l) PROVE Raced
  <2> DEFINE q == lookup[l]
             stored == Stored(q)
  <2>1. /\ Quiet /\ now' = now /\ lookup' = [lookup EXCEPT ![l] = Idle]
        /\ \/ cache' = cache
           \/ cache' = [cache EXCEPT ![q.replica][q.key] = stored]
    BY <1>13 DEF Fill
  <2>2. /\ q.at = "told" /\ q \in Told /\ stored \in Entry
        /\ stored = NoEntry \/ (stored.answer = q.answer /\ stored.excused = q.excused)
    BY <1>1, <1>13, StoredTyped DEF Fill
  <2>3. ToldOnlyIfRaced'
    <3>1. \A m \in Lookup : lookup'[m].at = "told" => lookup'[m] = lookup[m]
      BY <1>2, <2>1 DEF Idle
    <3> HIDE DEF Truth, Expected
    <3> QED BY <1>1, <1>7, <2>1, <3>1 DEF ToldOnlyIfRaced
  <2>4. StaleOnlyIfRaced'
    <3> SUFFICES ASSUME NEW rep \in Replica, NEW k \in Key,
                        now < cache'[rep][k].expiresAt, cache'[rep][k].answer # Truth(k[1])
                 PROVE  Expected(rep, k[1]) \/ cache'[rep][k].excused
      BY <1>7, <2>1 DEF StaleOnlyIfRaced, Live
    <3> HIDE DEF stored
    <3>1. CASE cache'[rep][k] = cache[rep][k]
      BY <1>1, <3>1 DEF StaleOnlyIfRaced, Live
    <3>2. CASE cache'[rep][k] # cache[rep][k]
      <4>1. rep = q.replica /\ k = q.key /\ cache'[rep][k] = stored
        BY <1>2, <2>1, <2>2, <3>2 DEF Told
      <4>2. stored # NoEntry
        BY <1>2, <4>1 DEF NoEntry
      <4>3. Expected(rep, k[1]) \/ q.excused
        BY <1>1, <2>2, <4>1, <4>2 DEF ToldOnlyIfRaced
      <4> QED BY <2>2, <4>1, <4>2, <4>3
    <3> QED BY <3>1, <3>2
  <2> QED BY <2>3, <2>4
<1>14. ASSUME UNCHANGED tenantVars PROVE Raced
  <2>1. Quiet /\ lookup' = lookup
    BY <1>14 DEF tenantVars, cacheVars
  <2>2. now' \in Nat /\ now <= now'
    BY <1>2, <1>14 DEF tenantVars, cacheVars
  <2>3. \A rep \in Replica, k \in Key : cache'[rep][k] \in {cache[rep][k], NoEntry}
    BY <1>14 DEF tenantVars, cacheVars
  <2> QED BY <1>2, <1>8, <2>1, <2>2, <2>3
<1> QED
  BY <1>1, <1>3, <1>4, <1>5, <1>6, <1>9, <1>10, <1>11, <1>12, <1>13, <1>14 DEF CacheNext, RaceInv

(* No cache is filled and no lookup is out at the start. *)
LEMMA CacheStart == CacheInit => RaceInv /\ AgeInv
<1> SUFFICES ASSUME CacheInit PROVE RaceInv /\ AgeInv
  OBVIOUS
<1>1. MembersInv /\ MembersTypeOK
  BY MembersStart DEF CacheInit, MembersInv
<1>2. /\ now = 0 /\ lookup = [l \in Lookup |-> Idle]
      /\ cache = [rep \in Replica |-> [k \in Key |-> NoEntry]]
      /\ lastTrue = [u \in User |-> [a \in Answer |-> 0]]
      /\ inbox = [rep \in Replica |-> {}]
  BY DEF CacheInit
<1>3. CacheTypes
  BY <1>1, <1>2, NoEntryTyped DEF CacheTypes, CacheTypeOK
<1>4. /\ \A rep \in Replica, k \in Key : ~ Live(rep, k)
      /\ \A l \in Lookup : lookup[l].at = "idle"
  BY <1>2 DEF Live, NoEntry, Idle
<1>5. TruthInv
  BY <1>1, <1>2, TruthTyped DEF TruthInv
<1> HIDE DEF Live
<1> QED BY <1>3, <1>4, <1>5 DEF RaceInv, AgeInv, StaleOnlyIfRaced, ToldOnlyIfRaced, LookupInv, EntryInv

(* Whatever the calls, the lookups and the clock do, and whatever Redis     *)
(* delivers: a cached answer is wrong for the reasons StaleOnlyIfRaced      *)
(* names.                                                                  *)
THEOREM StaleCorrect == CacheSpec => []StaleOnlyIfRaced
<1>1. RaceInv => StaleOnlyIfRaced
  BY DEF RaceInv
<1> QED BY <1>1, CacheStart, RaceStep, PTL DEF CacheSpec

-----------------------------------------------------------------------------
(* How old a cached answer is. *)

(* While nothing becomes true, the ages of the other answers only grow with  *)
(* the clock: a step that leaves the rows, the clock and the history alone.  *)
LEMMA ClearKeepsAge ==
    ASSUME AgeInv, NEW here, NEW unheard, NEW u, Clear(here, u, unheard),
           members' = members, now' = now, lastTrue' = lastTrue
    PROVE  TruthInv' /\ LookupInv' /\ EntryInv'
<1>1. CacheTypes /\ TruthInv /\ LookupInv /\ EntryInv
  BY DEF AgeInv
<1>2. \A v : Truth(v)' = Truth(v)
  BY DEF Truth, Active
<1>3. TruthInv'
  <2> HIDE DEF Truth
  <2> QED BY <1>1, <1>2 DEF TruthInv
<1>4. LookupInv'
  <2> SUFFICES ASSUME NEW l \in Lookup, lookup'[l].at # "idle"
               PROVE  /\ lookup'[l].asked <= now /\ now <= lookup'[l].asked + QueryTime
                      /\ lookup'[l].at = "told" => lookup'[l].asked <= lastTrue[lookup'[l].key[1]][lookup'[l].answer]
    BY DEF LookupInv
  <2>1. /\ lookup'[l].at = lookup[l].at
        /\ lookup[l].at # "told" => lookup'[l] = lookup[l]
        /\ lookup[l].at = "told" => /\ lookup'[l].asked = lookup[l].asked /\ lookup'[l].key = lookup[l].key
                                    /\ lookup'[l].answer = lookup[l].answer
    BY <1>1, Clearing
  <2> QED BY <1>1, <2>1 DEF LookupInv
<1>5. EntryInv'
  <2> SUFFICES ASSUME NEW rep \in Replica, NEW k \in Key, now < cache'[rep][k].expiresAt
               PROVE  cache'[rep][k].expiresAt <= lastTrue[k[1]][cache'[rep][k].answer] + Slack(k)
    BY DEF EntryInv, Live, Slack
  <2>1. cache'[rep][k] # NoEntry
    BY <1>1 DEF NoEntry, CacheTypes, CacheTypeOK
  <2>2. cache'[rep][k].answer = cache[rep][k].answer /\ cache'[rep][k].expiresAt = cache[rep][k].expiresAt
    BY <1>1, <2>1, Clearing
  <2> QED BY <1>1, <2>2 DEF EntryInv, Live
<1> QED BY <1>3, <1>4, <1>5

(* When the right answers are recorded again, no answer gets older than the  *)
(* clock has moved: a call's write, and a tick while no lookup is overdue.  *)
LEMMA NewlyKeepsAge ==
    ASSUME AgeInv, MembersTypeOK', now' \in Nat, now <= now', NewlyTrue(now'),
           UNCHANGED <<cache, lookup>>,
           \A l \in Lookup : lookup[l].at # "idle" => now' <= lookup[l].asked + QueryTime
    PROVE  TruthInv' /\ LookupInv' /\ EntryInv'
<1>1. CacheTypes /\ TruthInv /\ LookupInv /\ EntryInv
  BY DEF AgeInv
<1>2. /\ now \in Nat /\ cache \in [Replica -> [Key -> Entry]] /\ lookup \in [Lookup -> {Idle} \cup Asked \cup Told]
      /\ lastTrue \in [User -> [Answer -> Nat]] /\ Ttl \in Nat /\ QueryTime \in Nat
  BY <1>1, CacheAssumption DEF CacheTypes, CacheTypeOK
<1>3. /\ lastTrue' \in [User -> [Answer -> Nat]]
      /\ \A u \in User : Truth(u)' \in Answer /\ lastTrue'[u][Truth(u)'] = now'
      /\ \A u \in User, a \in Answer : lastTrue'[u][a] \in {lastTrue[u][a], now'}
  <2> DEFINE time == now'
  <2>1. time \in Nat /\ NewlyTrue(time)
    OBVIOUS
  <2> HIDE DEF time
  <2>2. /\ lastTrue' \in [User -> [Answer -> Nat]]
        /\ \A u \in User : Truth(u)' \in Answer /\ lastTrue'[u][Truth(u)'] = time
        /\ \A u \in User, a \in Answer : lastTrue'[u][a] \in {lastTrue[u][a], time}
    BY <1>1, <2>1, NewlyTyped
  <2> QED BY <2>2 DEF time
<1>4. \A u \in User, a \in Answer : lastTrue[u][a] <= now
  BY <1>1 DEF TruthInv
<1>5. \A u \in User, a \in Answer : /\ lastTrue[u][a] \in Nat /\ lastTrue'[u][a] \in Nat
                                    /\ lastTrue[u][a] <= lastTrue'[u][a] /\ lastTrue'[u][a] <= now'
  BY <1>2, <1>3, <1>4
<1>6. TruthInv'
  <2> HIDE DEF Truth
  <2> QED BY <1>3, <1>5 DEF TruthInv
<1>7. LookupInv'
  <2> SUFFICES ASSUME NEW l \in Lookup, lookup[l].at # "idle"
               PROVE  /\ lookup[l].asked <= now' /\ now' <= lookup[l].asked + QueryTime
                      /\ lookup[l].at = "told" => lookup[l].asked <= lastTrue'[lookup[l].key[1]][lookup[l].answer]
    BY DEF LookupInv
  <2>1. lookup[l].asked \in Nat /\ lookup[l].asked <= now
    BY <1>1, <1>2 DEF LookupInv, Idle, Asked, Told
  <2>2. CASE lookup[l].at = "told"
    <3>1. lookup[l].key[1] \in User /\ lookup[l].answer \in Answer
      BY <1>1, <2>2, StoredTyped DEF Told, Key
    <3>2. lookup[l].asked <= lastTrue[lookup[l].key[1]][lookup[l].answer]
      BY <1>1, <2>2 DEF LookupInv
    <3> QED BY <1>2, <1>5, <2>1, <3>1, <3>2
  <2> QED BY <1>2, <2>1, <2>2
<1>8. EntryInv'
  <2> SUFFICES ASSUME NEW rep \in Replica, NEW k \in Key, now' < cache[rep][k].expiresAt
               PROVE  cache[rep][k].expiresAt <= lastTrue'[k[1]][cache[rep][k].answer] + Slack(k)
    BY DEF EntryInv, Live, Slack
  <2>1. /\ k[1] \in User /\ cache[rep][k].answer \in Answer
        /\ cache[rep][k].expiresAt \in Nat /\ Slack(k) \in Nat
    BY <1>2 DEF Entry, Key, Slack
  <2>2. cache[rep][k].expiresAt <= lastTrue[k[1]][cache[rep][k].answer] + Slack(k)
    BY <1>1, <1>2, <2>1 DEF EntryInv, Live
  <2> QED BY <1>5, <2>1, <2>2
<1> QED BY <1>6, <1>7, <1>8

(* AgeInv is inductive. *)
LEMMA AgeStep == AgeInv /\ [CacheNext]_tenantVars => AgeInv'
<1> SUFFICES ASSUME AgeInv, [CacheNext]_tenantVars PROVE AgeInv'
  OBVIOUS
<1> DEFINE Aged == TruthInv' /\ LookupInv' /\ EntryInv'
<1>1. CacheTypes /\ TruthInv /\ LookupInv /\ EntryInv /\ CacheTypes' /\ MembersTypeOK'
  BY CacheTypesStep DEF AgeInv, CacheTypes, CacheTypeOK
<1>2. /\ now \in Nat /\ cache \in [Replica -> [Key -> Entry]] /\ lookup \in [Lookup -> {Idle} \cup Asked \cup Told]
      /\ lastTrue \in [User -> [Answer -> Nat]] /\ Ttl \in Nat /\ QueryTime \in Nat
  BY <1>1, CacheAssumption DEF CacheTypes, CacheTypeOK
<1>3. ASSUME NEW c \in Call, Change(c) PROVE Aged
  <2>1. NewlyTrue(now') /\ now' = now /\ UNCHANGED <<cache, lookup>>
    BY <1>3 DEF Change
  <2>2. \A l \in Lookup : lookup[l].at # "idle" => now' <= lookup[l].asked + QueryTime
    BY <1>1, <2>1 DEF LookupInv
  <2> QED BY <1>1, <1>2, <2>1, <2>2, NewlyKeepsAge
<1>4. ASSUME Tick PROVE Aged
  <2>1. NewlyTrue(now') /\ now' = now + 1 /\ UNCHANGED <<cache, lookup>>
    BY <1>4 DEF Tick
  <2>2. \A l \in Lookup : lookup[l].at # "idle" => now' <= lookup[l].asked + QueryTime
    <3> SUFFICES ASSUME NEW l \in Lookup, lookup[l].at # "idle" PROVE now' <= lookup[l].asked + QueryTime
      OBVIOUS
    <3>1. now < lookup[l].asked + QueryTime
      BY <1>4 DEF Tick
    <3>2. lookup[l].asked \in Nat
      BY <1>2 DEF Idle, Asked, Told
    <3> QED BY <1>2, <2>1, <3>1, <3>2
  <2> QED BY <1>1, <1>2, <2>1, <2>2, NewlyKeepsAge
<1>5. ASSUME NEW here, NEW unheard, NEW u, Clear(here, u, unheard),
             UNCHANGED <<members, now, lastTrue>>
      PROVE  Aged
  BY <1>5, ClearKeepsAge
<1>6. ASSUME NEW c \in Call, Invalidate(c) PROVE Aged
  <2>1. UNCHANGED <<members, now, lastTrue>>
    BY <1>6 DEF Invalidate, Return, Read
  <2>2. PICK here, unheard : Clear(here, request[c].user, unheard)
    BY <1>6 DEF Invalidate
  <2> QED BY <1>5, <2>1, <2>2
<1>7. ASSUME NEW rep \in Replica, NEW u \in User, Receive(rep, u) \/ Miss(rep, u) PROVE Aged
  <2>1. UNCHANGED <<members, now, lastTrue>>
    BY <1>7 DEF Receive, Miss, memberVars
  <2>2. PICK here, unheard : Clear(here, u, unheard)
    BY <1>7 DEF Receive, Miss
  <2> QED BY <1>5, <2>1, <2>2
<1> DEFINE Quiet == UNCHANGED <<members, now, lastTrue>>
<1>8. ASSUME Quiet PROVE TruthInv'
  <2>1. \A v : Truth(v)' = Truth(v)
    BY <1>8 DEF Truth, Active
  <2> HIDE DEF Truth
  <2> QED BY <1>1, <1>8, <2>1 DEF TruthInv
<1>9. ASSUME Quiet, \A rep \in Replica, k \in Key : cache'[rep][k] \in {cache[rep][k], NoEntry}
      PROVE  EntryInv'
  <2>1. \A rep \in Replica, k \in Key : Live(rep, k)' => cache'[rep][k] = cache[rep][k] /\ Live(rep, k)
    BY <1>2, <1>9 DEF Live, NoEntry
  <2> HIDE DEF Live
  <2> QED BY <1>1, <1>9, <2>1 DEF EntryInv, Slack
<1>10. ASSUME Quiet, lookup' = lookup PROVE LookupInv'
  BY <1>1, <1>10 DEF LookupInv
<1>11. ASSUME NEW c \in Call, FailedCall(c) PROVE Aged
  <2>1. Quiet
    BY <1>11 DEF FailedCall, Fail
  <2>2. CASE UNCHANGED <<cache, lookup>>
    BY <1>8, <1>9, <1>10, <2>1, <2>2
  <2>3. CASE Clear({}, request[c].user, Replica)
    BY <1>5, <2>1, <2>3
  <2> QED BY <1>11, <2>2, <2>3 DEF FailedCall
<1>12. ASSUME NEW rep \in Replica, evictExpired(rep) \/ \E k \in Key : EvictOldest(rep, k) PROVE Aged
  <2>1. Quiet /\ lookup' = lookup
    BY <1>12 DEF evictExpired, EvictOldest, memberVars
  <2>2. ASSUME NEW r \in Replica, NEW k \in Key PROVE cache'[r][k] \in {cache[r][k], NoEntry}
    <3>1. CASE evictExpired(rep)
      BY <1>2, <3>1 DEF evictExpired
    <3>2. CASE \E j \in Key : EvictOldest(rep, j)
      BY <1>2, <3>2 DEF EvictOldest
    <3> QED BY <1>12, <3>1, <3>2
  <2> QED BY <1>8, <1>9, <1>10, <2>1, <2>2
<1>13. ASSUME NEW l \in Lookup, NEW rep \in Replica, NEW k \in Key, Ask(l, rep, k) PROVE Aged
  <2> DEFINE asking == [at |-> "asking", replica |-> rep, key |-> k, asked |-> now]
  <2>1. Quiet /\ cache' = cache /\ lookup' = [lookup EXCEPT ![l] = asking]
    BY <1>13 DEF Ask, memberVars
  <2>2. asking.at = "asking" /\ asking.asked = now
    OBVIOUS
  <2> HIDE DEF asking
  <2>3. LookupInv'
    BY <1>1, <1>2, <2>1, <2>2 DEF LookupInv
  <2>4. \A r \in Replica, j \in Key : cache'[r][j] \in {cache[r][j], NoEntry}
    BY <2>1
  <2> QED BY <1>8, <1>9, <2>1, <2>3, <2>4
<1>14. ASSUME NEW l \in Lookup, Evaluate(l) PROVE Aged
  <2> DEFINE told == [at |-> "told", replica |-> lookup[l].replica, key |-> lookup[l].key,
                      asked |-> lookup[l].asked, answer |-> Truth(lookup[l].key[1]), excused |-> FALSE]
  <2>1. Quiet /\ cache' = cache /\ lookup' = [lookup EXCEPT ![l] = told] /\ lookup[l].at = "asking"
    BY <1>14 DEF Evaluate, memberVars
  <2>2. lookup[l].key[1] \in User /\ lookup[l].asked \in Nat
    BY <1>2, <2>1 DEF Idle, Asked, Told, Key
  <2>3. told.at = "told" /\ told.key = lookup[l].key /\ told.asked = lookup[l].asked
        /\ told.answer = Truth(lookup[l].key[1])
    <3> HIDE DEF Truth
    <3> QED OBVIOUS
  <2>4. lastTrue[told.key[1]][told.answer] = now
    <3> HIDE DEF Truth, told
    <3> QED BY <1>1, <2>2, <2>3 DEF TruthInv
  <2> HIDE DEF told
  <2>5. LookupInv'
    BY <1>1, <1>2, <2>1, <2>3, <2>4 DEF LookupInv
  <2>6. \A r \in Replica, j \in Key : cache'[r][j] \in {cache[r][j], NoEntry}
    BY <2>1
  <2> QED BY <1>8, <1>9, <2>1, <2>5, <2>6
<1>15. ASSUME NEW l \in Lookup, Fill(l) PROVE Aged
  <2> DEFINE q == lookup[l]
             stored == Stored(q)
  <2>1. /\ Quiet /\ lookup' = [lookup EXCEPT ![l] = Idle]
        /\ \/ cache' = cache
           \/ cache' = [cache EXCEPT ![q.replica][q.key] = stored]
    BY <1>15 DEF Fill, memberVars
  <2>2. /\ q.at = "told" /\ q \in Told /\ stored \in Entry
        /\ stored = NoEntry \/ (stored.answer = q.answer /\ stored.expiresAt = Expiry(q))
    BY <1>1, <1>15, StoredTyped DEF Fill
  <2>3. LookupInv'
    BY <1>1, <1>2, <2>1 DEF LookupInv, Idle
  <2>4. Expiry(q) <= lastTrue[q.key[1]][q.answer] + Slack(q.key)
    <3>1. /\ q.asked \in Nat /\ q.asked <= now /\ now <= q.asked + QueryTime
          /\ q.asked <= lastTrue[q.key[1]][q.answer]
      BY <1>1, <2>2 DEF LookupInv, Told
    <3>2. lastTrue[q.key[1]][q.answer] \in Nat
      BY <1>2, <2>2 DEF Told, Key
    <3> DEFINE t == lastTrue[q.key[1]][q.answer]
               a == q.asked
               m == q.key[2] = "membership"
    <3>3. Expiry(q) = (IF m THEN a ELSE now) + Ttl /\ Slack(q.key) = Ttl + (IF m THEN 0 ELSE QueryTime)
      BY DEF Expiry, Slack
    <3>4. a \in Nat /\ t \in Nat /\ a <= now /\ now <= a + QueryTime /\ a <= t
      BY <3>1, <3>2
    <3> HIDE DEF t, a, m
    <3>5. Expiry(q) <= t + Slack(q.key)
      BY <1>2, <3>3, <3>4
    <3> QED BY <3>5 DEF t
  <2>5. EntryInv'
    <3> SUFFICES ASSUME NEW rep \in Replica, NEW k \in Key, now < cache'[rep][k].expiresAt
                 PROVE  cache'[rep][k].expiresAt <= lastTrue[k[1]][cache'[rep][k].answer] + Slack(k)
      BY <2>1 DEF EntryInv, Live, Slack
    <3> HIDE DEF stored
    <3>1. CASE cache'[rep][k] = cache[rep][k]
      BY <1>1, <3>1 DEF EntryInv, Live
    <3>2. CASE cache'[rep][k] # cache[rep][k]
      <4>1. rep = q.replica /\ k = q.key /\ cache'[rep][k] = stored
        BY <1>2, <2>1, <2>2, <3>2 DEF Told
      <4>2. stored # NoEntry
        BY <1>2, <4>1 DEF NoEntry
      <4> QED BY <2>2, <2>4, <4>1, <4>2
    <3> QED BY <3>1, <3>2
  <2> QED BY <1>8, <2>1, <2>3, <2>5
<1>16. ASSUME UNCHANGED tenantVars PROVE Aged
  <2>1. Quiet /\ UNCHANGED <<lookup, cache>>
    BY <1>16 DEF tenantVars, cacheVars, memberVars
  <2>2. \A r \in Replica, k \in Key : cache'[r][k] \in {cache[r][k], NoEntry}
    BY <2>1
  <2> QED BY <1>8, <1>9, <1>10, <2>1, <2>2
<1> QED
  BY <1>1, <1>3, <1>4, <1>6, <1>7, <1>11, <1>12, <1>13, <1>14, <1>15, <1>16 DEF CacheNext, AgeInv

(* The guard never answers from its cache what was last the truth a Ttl ago  *)
(* or earlier; for the list of tenants, a Ttl and the time of a query.      *)
THEOREM StalenessCorrect == CacheSpec => []BoundedStaleness
<1>1. AgeInv => BoundedStaleness
  <2> SUFFICES ASSUME AgeInv, NEW rep \in Replica, NEW k \in Key, Live(rep, k)
               PROVE  now - lastTrue[k[1]][cache[rep][k].answer] < Slack(k)
    BY DEF BoundedStaleness, Slack
  <2>1. /\ now \in Nat /\ cache[rep][k] \in Entry /\ lastTrue \in [User -> [Answer -> Nat]]
        /\ k[1] \in User /\ Slack(k) \in Nat
    BY CacheAssumption DEF AgeInv, CacheTypes, CacheTypeOK, Key, Slack
  <2>2. lastTrue[k[1]][cache[rep][k].answer] \in Nat /\ cache[rep][k].expiresAt \in Nat
    BY <2>1 DEF Entry
  <2>3. cache[rep][k].expiresAt <= lastTrue[k[1]][cache[rep][k].answer] + Slack(k)
    BY DEF AgeInv, EntryInv
  <2>4. now < cache[rep][k].expiresAt
    BY DEF Live
  <2> HIDE DEF Slack
  <2> QED BY <2>1, <2>2, <2>3, <2>4
<1> QED BY <1>1, CacheStart, AgeStep, PTL DEF CacheSpec
=============================================================================
