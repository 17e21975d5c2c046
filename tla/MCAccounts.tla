----------------------------- MODULE MCAccounts -----------------------------
(* The accounts of a person: how the two ways of signing in stay in step,    *)
(* the mails that are sent to an address, and the roles that the replicas   *)
(* remember.  They share nothing but the clock, so a behaviour exercises    *)
(* one of them, its subject.                                                *)
EXTENDS MCUserIdentity, AuthMails, RoleCache

CONSTANTS plain, boss, r1, k1, k2, m1, m2, m3

VARIABLE subject

Until == [identity |-> 0, mails |-> 1, roles |-> 2]

(* Callers, addresses and passwords are alike.  So are the accounts, of     *)
(* which the second one is only taken beside the first.                     *)
Renamings == Permutations(Caller) \cup Permutations(Address) \cup Permutations(Password)
FirstFree == accounts[k2].owner = 0 /\ accounts'[k2].owner # 0 => accounts[k1].owner # 0

(* mails: three of them, begun in turn, two at a time and the third once the *)
(* second is over; one slot is lost                                        *)
TwoMails ==
    /\ Cardinality({m \in Mailing : ~ In(m, "idle") /\ ~ In(m, "done")}) <= 2
    /\ Cardinality(torn) <= 1
    /\ ~ In(m2, "idle") => ~ In(m1, "idle")
    /\ ~ In(m3, "idle") => In(m2, "done")

(* roles: of somebody who had more at first; two replicas are alike, so     *)
(* calls are served by one.  Only calls bring back what was before, and the *)
(* last change leaves time to see it.                                       *)
HadMore == \A m \in Member : stands[m] = [roles |-> boss, verified |-> FALSE]
FewStandings ==
    /\ \A c \in Changer : changers[c].does \in {"nothing", "over"} \/ changers[c].on = r1
    /\ \A m \in Member : Cardinality({s \in DOMAIN stood[m] : stood[m][s] >= 0}) <= 2
OnlyCallsReturn == changers' # changers \/ \A m \in Member : stands'[m] # stands[m] => stood[m][stands'[m]] = -1
EarlyChange == stands' # stands => now < Until["roles"]

AccountsInit ==
    /\ IdentityInit /\ AuthMailsInit /\ RolesInit
    /\ subject \in DOMAIN Until
    /\ HadMore /\ (subject = "roles" \/ linked = {})

AccountsNext ==
    /\ \/ /\ subject = "identity" /\ OneByOne /\ FirstFree
          /\ UNCHANGED <<now, mailVars, roleVars>>
       \/ /\ subject = "mails" /\ AuthMailsNext /\ TwoMails'
          /\ UNCHANGED <<identityVars, roleVars>>
       \/ /\ subject = "roles" /\ RolesNext /\ FewStandings' /\ OnlyCallsReturn /\ EarlyChange
          /\ UNCHANGED <<identityVars, mailVars>>
    /\ now' <= Until[subject]
    /\ UNCHANGED subject

AccountsSpec == AccountsInit /\ [][AccountsNext]_<<now, identityVars, mailVars, roleVars, subject>>

AccountsTypeOK ==
    CASE subject = "identity" -> IdentityTypeOK
      [] subject = "mails"    -> MailTypeOK
      [] subject = "roles"    -> RolesTypeOK
=============================================================================
