---------------------------- MODULE UserIdentity ----------------------------
(***************************************************************************)
(* One person known to two ways of signing in, the legacy one and          *)
(* Better-Auth (IAM).  Both use the document in `users`; the legacy one    *)
(* checks its password, IAM that of a document in `account`.               *)
(*                                                                         *)
(*   src/core/modules/user/core-user.service.ts                            *)
(*   src/core/modules/better-auth/core-better-auth-user.mapper.ts          *)
(*   src/core/modules/better-auth/core-better-auth.controller.ts           *)
(*   src/core/modules/auth/services/core-auth.service.ts                   *)
(*                                                                         *)
(* Every call is a chain of requests to MongoDB, between which other calls *)
(* run.  A hash is represented by the text it was made of.                 *)
(***************************************************************************)
EXTENDS Integers, FiniteSets

CONSTANTS
    Caller,
    Address,
    Password,
    AccountId,  \* bound: accounts there may be
    MaxUser,    \* bound: how often the person signs up
    Hashes,     \* the option sha256: a plain password is hashed before bcrypt
    Delegated   \* the legacy AuthService was given the services of Better-Auth

ASSUME IdentityAssumption ==
    /\ {Hashes, Delegated} \subseteq BOOLEAN /\ MaxUser \in Nat \ {0}
    /\ "none" \notin Address

VARIABLES
    user,      \* the document in `users`, or NoUser
    accounts,  \* those in `account`
    sessions,  \* the users with sessions of IAM
    callers,   \* what each caller is doing
    apart      \* history: why the two ways of signing in may have parted

identityVars == <<user, accounts, sessions, callers, apart>>

(* What a client sends as a password: plain, or its sha256 in hex. *)
Text      == [of : Password, sha256 : BOOLEAN]
NoText    == [of |-> "none", sha256 |-> FALSE]
sha256(t) == [t EXCEPT !.sha256 = TRUE]

(* normalizePasswordForIam, and the normalisation before a bcrypt hash *)
normalizePasswordForIam(t) == sha256(t)
Bcrypted(t) == IF Hashes THEN sha256(t) ELSE t

UserDoc   == [id : 1..MaxUser, email : Address, password : Text \cup {NoText},
              iamId : BOOLEAN, resetToken : BOOLEAN]
NoUser    == [id |-> 0, email |-> "none", password |-> NoText, iamId |-> FALSE, resetToken |-> FALSE]
NoAccount == [owner |-> 0, password |-> NoText]
Operation == {"signInIam", "signUpIam", "signInLegacy", "signUpLegacy", "reset", "update", "delete"}
Place == {"idle", "migrate", "findAccount", "link", "insert", "check", "session", "upsert",
          "signUp", "linkNew", "toLegacy", "saveReset", "read", "save", "endSessions",
          "syncUser", "syncAccount", "syncWrite", "remove", "cleanSessions", "cleanAccounts"}
Idle == [op |-> "none", at |-> "idle", text |-> NoText, email |-> "none", old |-> "none", seen |-> NoUser]

Reasons == {"failed", "hashed", "address", "migration", "writers", "overwritten", "signIn"}
Because(reason, holds) == apart' = IF holds THEN apart \cup {reason} ELSE apart

AccountsOf(id) == {a \in AccountId : accounts[a].owner = id}
Found(email)   == IF user.email = email THEN user ELSE NoUser
At(c, place)   == callers[c].at = place
Goto(c, place) == callers' = [callers EXCEPT ![c].at = place]
See(c, place, doc) == callers' = [callers EXCEPT ![c].at = place, ![c].seen = doc]
Return(c)      == callers' = [callers EXCEPT ![c] = Idle]
Data           == UNCHANGED <<user, accounts, sessions>>

(* bcrypt.compare of the text, and of its sha256 *)
Compares(t, hash) == hash # NoText /\ (t = hash \/ (~ t.sha256 /\ sha256(t) = hash))
(* nativeScryptVerify of what the caller hands to api.signInEmail *)
Verifies(t, id)   == \E a \in AccountsOf(id) : accounts[a].password = t

(* The text each API hands to Better-Auth: the controller normalises it,    *)
(* the legacy service does not.                                             *)
Passed(c) == IF callers[c].op \in {"signInIam", "signUpIam"}
             THEN normalizePasswordForIam(callers[c].text) ELSE callers[c].text

IdentityInit ==
    /\ user = NoUser
    /\ accounts = [a \in AccountId |-> NoAccount]
    /\ sessions = {}
    /\ callers = [c \in Caller |-> Idle]
    /\ apart = {}

-----------------------------------------------------------------------------
FirstPlace == [signInIam |-> "migrate", signInLegacy |-> "check", signUpIam |-> "signUp",
               signUpLegacy |-> "signUp", reset |-> "saveReset", update |-> "read", delete |-> "remove"]

(* Where a legacy sign-in goes on that has read the user *)
LegacyPlace == IF ~ Delegated THEN "read" ELSE IF user.iamId THEN "check" ELSE "migrate"

(* A call starts; the operations that look the user up first do so here.    *)
Enter(c, op, text, email) ==
    /\ At(c, "idle")
    /\ CASE op \in {"signInIam", "signUpIam", "signUpLegacy"} -> text # NoText /\ email # "none"
         [] op = "signInLegacy" -> /\ text # NoText /\ email = user.email
                                   /\ LegacyPlace # "check" => Compares(text, user.password)
         [] op = "reset"  -> user.resetToken /\ text # NoText /\ email = user.email
         [] op = "update" -> user # NoUser
         [] op = "delete" -> user # NoUser /\ text = NoText /\ email = user.email
    /\ callers' = [callers EXCEPT ![c] =
                     [op |-> op, text |-> text, email |-> email, old |-> user.email, seen |-> user,
                      at |-> IF op = "signInLegacy" THEN LegacyPlace ELSE FirstPlace[op]]]
    /\ Data /\ UNCHANGED apart

(* setPasswordResetTokenForEmail *)
ForgotPassword ==
    /\ user # NoUser
    /\ user' = [user EXCEPT !.resetToken = TRUE]
    /\ UNCHANGED <<accounts, sessions, callers, apart>>

-----------------------------------------------------------------------------
(* migrateAccountToIam; whatever comes of it, the sign-in goes on.          *)
AfterMigration(c) == Goto(c, IF callers[c].op = "signInIam" THEN "check" ELSE "read")

ReadUser(c) ==
    /\ At(c, "migrate")
    /\ IF Found(callers[c].email).password = NoText THEN AfterMigration(c)
       ELSE See(c, "findAccount", user)
    /\ Data /\ UNCHANGED apart

FindAccount(c) ==
    /\ At(c, "findAccount")
    /\ IF \/ AccountsOf(callers[c].seen.id) # {}
          \/ ~ Compares(callers[c].text, callers[c].seen.password)
       THEN AfterMigration(c) ELSE Goto(c, "link")
    /\ Data /\ UNCHANGED apart

LinkId(c) ==
    /\ At(c, "link")
    /\ user' = IF user.id = callers[c].seen.id THEN [user EXCEPT !.iamId = TRUE] ELSE user
    /\ Goto(c, "insert")
    /\ UNCHANGED <<accounts, sessions, apart>>

(* There is no unique index on the accounts of a user. *)
InsertAccount(c) ==
    LET seen == callers[c].seen
    IN  /\ At(c, "insert")
        /\ \E a \in AccountsOf(0) :
              accounts' = [accounts EXCEPT ![a] =
                  [owner |-> seen.id, password |-> normalizePasswordForIam(callers[c].text)]]
        /\ Because("migration", \/ AccountsOf(seen.id) # {}
                                \/ user.id # seen.id \/ user.password # seen.password)
        /\ AfterMigration(c)
        /\ UNCHANGED <<user, sessions>>

-----------------------------------------------------------------------------
(* api.signInEmail of the library: find and verify, then create a session. *)
Check(c) ==
    LET doc == Found(callers[c].email)
    IN  /\ At(c, "check")
        /\ IF doc # NoUser /\ Verifies(Passed(c), doc.id) THEN See(c, "session", doc) ELSE Return(c)
        /\ Data /\ UNCHANGED apart

CreateSession(c) ==
    /\ At(c, "session")
    /\ sessions' = sessions \cup {callers[c].seen.id}
    /\ Because("signIn", user.id # callers[c].seen.id \/ user.email # callers[c].seen.email)
    /\ Goto(c, IF callers[c].op = "signInIam" THEN "upsert" ELSE "read")
    /\ UNCHANGED <<user, accounts>>

(* linkOrCreateUser: found by the address or by the ID of IAM; otherwise a  *)
(* user is inserted.                                                        *)
linkOrCreateUser(c) ==
    LET seen == callers[c].seen
    IN  IF user.email = seen.email \/ (user.id = seen.id /\ seen.iamId)
        THEN /\ user' = [user EXCEPT !.iamId = TRUE, !.email = seen.email]
             /\ Because("signIn", user.email # seen.email)
        ELSE /\ user = NoUser /\ seen.id < MaxUser
             /\ user' = [NoUser EXCEPT !.id = seen.id + 1, !.email = seen.email, !.iamId = TRUE]
             /\ Because("signIn", TRUE)

Upsert(c) == At(c, "upsert") /\ linkOrCreateUser(c) /\ Return(c) /\ UNCHANGED <<accounts, sessions>>

-----------------------------------------------------------------------------
(* Signing up.  api.signUpEmail of the library creates a user, its account  *)
(* and a session.                                                           *)
Newest == CHOOSE id \in 0..MaxUser :
            /\ \A a \in AccountId : accounts[a].owner <= id
            /\ \A s \in sessions \cup {callers[c].seen.id : c \in Caller} : s <= id
            /\ id = 0 \/ id \in sessions \cup {callers[c].seen.id : c \in Caller}
                              \cup {accounts[a].owner : a \in AccountId}
NewUser(c) == [NoUser EXCEPT !.id = Newest + 1, !.email = callers[c].email]

SignUpIam(c) ==
    /\ At(c, "signUp") /\ user = NoUser /\ Newest < MaxUser
    /\ callers[c].op = "signUpIam" \/ Delegated
    /\ user' = NewUser(c)
    /\ \E a \in AccountsOf(0) :
          accounts' = [accounts EXCEPT ![a] = [owner |-> Newest + 1, password |-> Passed(c)]]
    /\ sessions' = sessions \cup {Newest + 1}
    /\ See(c, "linkNew", NewUser(c))
    /\ UNCHANGED apart

(* The create of the crud service *)
SignUpLegacy(c) ==
    /\ At(c, "signUp") /\ user = NoUser /\ Newest < MaxUser
    /\ callers[c].op = "signUpLegacy" /\ ~ Delegated
    /\ user' = [NewUser(c) EXCEPT !.password = Bcrypted(callers[c].text)]
    /\ Return(c)
    /\ UNCHANGED <<accounts, sessions, apart>>

Refused(c) == At(c, "signUp") /\ user # NoUser /\ Return(c) /\ Data /\ UNCHANGED apart

LinkNew(c) ==
    /\ At(c, "linkNew") /\ linkOrCreateUser(c) /\ Goto(c, "toLegacy")
    /\ UNCHANGED <<accounts, sessions>>

(* Mutant: the update of a password inserts what it does not find. *)
SyncInserts(c) ==
    /\ At(c, "toLegacy")
    /\ user' = [user EXCEPT !.password = normalizePasswordForIam(callers[c].text)]
    /\ Because("writers", user.password # NoText \/ user.id # callers[c].seen.id)
    /\ Return(c)
    /\ UNCHANGED <<accounts, sessions>>

(* syncPasswordToLegacy *)
SyncToLegacy(c) ==
    /\ At(c, "toLegacy")
    /\ IF user.email = callers[c].email \/ user.id = callers[c].seen.id
       THEN user' = [user EXCEPT !.password = normalizePasswordForIam(callers[c].text)]
       ELSE UNCHANGED user
    /\ Because("writers", user.password # NoText \/ user.id # callers[c].seen.id)
    /\ Return(c)
    /\ UNCHANGED <<accounts, sessions>>

-----------------------------------------------------------------------------
(* resetPassword and update write the user, then IAM.                       *)
PlainText(c)    == callers[c].text # NoText /\ ~ callers[c].text.sha256
SyncPassword(c) == IF PlainText(c) THEN Goto(c, "syncUser") ELSE Return(c)

(* A hash is not passed on to IAM. *)
SentHashed(c)   == callers[c].op # "signInLegacy" /\ callers[c].text # NoText
                     /\ ~ PlainText(c) /\ AccountsOf(user.id) # {}

(* The save of a document writes what was assigned to it.                   *)
SaveReset(c) ==
    /\ At(c, "saveReset")
    /\ IF user.id # callers[c].seen.id THEN Return(c) /\ UNCHANGED <<user, apart>>
       ELSE /\ user' = [user EXCEPT !.password = Bcrypted(callers[c].text), !.resetToken = FALSE]
            /\ SyncPassword(c)
            /\ Because("hashed", SentHashed(c))
    /\ UNCHANGED <<accounts, sessions>>

(* update of the crud service reads the document and writes all of it back, *)
(* for the tokens of a legacy sign-in as well.                              *)
ReadDocument(c) ==
    /\ At(c, "read")
    /\ IF user.id # callers[c].seen.id THEN Return(c) ELSE See(c, "save", user)
    /\ Data /\ UNCHANGED apart

WithInput(c) ==
    IF callers[c].op = "signInLegacy" THEN callers[c].seen
    ELSE [callers[c].seen EXCEPT
            !.email    = IF callers[c].email = "none" THEN @ ELSE callers[c].email,
            !.password = IF callers[c].text = NoText THEN @ ELSE Bcrypted(callers[c].text)]

Save(c) ==
    /\ At(c, "save")
    /\ IF user.id # callers[c].seen.id THEN Return(c) /\ UNCHANGED <<user, apart>>
       ELSE /\ user' = WithInput(c)
            /\ IF callers[c].op = "signInLegacy" THEN Return(c)
               ELSE IF callers[c].email \notin {"none", callers[c].old} THEN Goto(c, "endSessions")
               ELSE SyncPassword(c)
            /\ apart' = apart \cup (IF SentHashed(c) THEN {"hashed"} ELSE {})
                       \cup (IF user.password # callers[c].seen.password THEN {"overwritten"} ELSE {})
    /\ UNCHANGED <<accounts, sessions>>

(* syncEmailChangeFromLegacy finds the user by the new or the old address.  *)
EndSessions(c) ==
    /\ At(c, "endSessions")
    /\ sessions' = IF user.email \in {callers[c].email, callers[c].old}
                   THEN sessions \ {user.id} ELSE sessions
    /\ SyncPassword(c)
    /\ UNCHANGED <<user, accounts, apart>>

(* Mutant: the user is not looked for by the address. *)
SyncNobody(c) == At(c, "syncUser") /\ Return(c) /\ Data /\ UNCHANGED apart

(* syncPasswordChangeToIam looks the user up by the address of before.      *)
SyncUser(c) ==
    /\ At(c, "syncUser")
    /\ IF user.email = callers[c].old THEN See(c, "syncAccount", user) /\ UNCHANGED apart
       ELSE Return(c) /\ Because("address", user # NoUser /\ AccountsOf(user.id) # {})
    /\ Data

SyncAccount(c) ==
    /\ At(c, "syncAccount")
    /\ IF AccountsOf(callers[c].seen.id) = {} THEN Return(c) ELSE Goto(c, "syncWrite")
    /\ Data /\ UNCHANGED apart

SyncWrite(c) ==
    LET mine == AccountsOf(callers[c].seen.id)
    IN  /\ At(c, "syncWrite")
        /\ IF mine = {} THEN UNCHANGED accounts
           ELSE \E a \in mine : accounts' = [accounts EXCEPT ![a].password = normalizePasswordForIam(callers[c].text)]
        /\ Because("writers", user.id = callers[c].seen.id /\ user.password # Bcrypted(callers[c].text))
        /\ Return(c)
        /\ UNCHANGED <<user, sessions>>

-----------------------------------------------------------------------------
(* delete removes the user, then what IAM has of it, by its _id.            *)
Remove(c) ==
    /\ At(c, "remove")
    /\ IF user.id = callers[c].seen.id THEN user' = NoUser /\ Goto(c, "cleanSessions")
       ELSE UNCHANGED user /\ Return(c)
    /\ UNCHANGED <<accounts, sessions, apart>>

(* Mutant: only the sessions are cleaned up. *)
CleanSessionsOnly(c) ==
    /\ At(c, "cleanSessions")
    /\ sessions' = sessions \ {callers[c].seen.id}
    /\ Return(c)
    /\ UNCHANGED <<user, accounts, apart>>

CleanSessions(c) ==
    /\ At(c, "cleanSessions")
    /\ sessions' = sessions \ {callers[c].seen.id}
    /\ Goto(c, "cleanAccounts")
    /\ UNCHANGED <<user, accounts, apart>>

CleanAccounts(c) ==
    /\ At(c, "cleanAccounts")
    /\ accounts' = [a \in AccountId |-> IF a \in AccountsOf(callers[c].seen.id) THEN NoAccount ELSE accounts[a]]
    /\ Return(c)
    /\ UNCHANGED <<user, sessions, apart>>

(* A request fails, which the later steps only log, or the process dies. *)
Throw(c) ==
    /\ ~ At(c, "idle")
    /\ Return(c)
    /\ Because("failed", callers[c].at \in {"linkNew", "toLegacy", "endSessions", "syncUser", "syncAccount",
                                            "syncWrite", "cleanSessions", "cleanAccounts"})
    /\ Data

CallStep(c) ==
    \/ ReadUser(c) \/ FindAccount(c) \/ LinkId(c) \/ InsertAccount(c)
    \/ Check(c) \/ CreateSession(c) \/ Upsert(c)
    \/ SignUpIam(c) \/ SignUpLegacy(c) \/ Refused(c) \/ LinkNew(c) \/ SyncToLegacy(c)
    \/ SaveReset(c) \/ ReadDocument(c) \/ Save(c) \/ EndSessions(c) \/ SyncUser(c) \/ SyncAccount(c) \/ SyncWrite(c)
    \/ Remove(c) \/ CleanSessions(c) \/ CleanAccounts(c) \/ Throw(c)

IdentityNext ==
    \/ \E c \in Caller :
          \/ CallStep(c)
          \/ \E op \in Operation, text \in Text \cup {NoText}, email \in Address \cup {"none"} : Enter(c, op, text, email)
    \/ ForgotPassword

IdentitySpec == IdentityInit /\ [][IdentityNext]_identityVars

-----------------------------------------------------------------------------
IdentityTypeOK ==
    /\ user \in UserDoc \cup {NoUser}
    /\ accounts \in [AccountId -> [owner : 1..MaxUser, password : Text] \cup {NoAccount}]
    /\ sessions \subseteq 1..MaxUser
    /\ callers \in [Caller -> [op : Operation \cup {"none"}, at : Place, text : Text \cup {NoText},
                               email : Address \cup {"none"}, old : Address \cup {"none"}, seen : UserDoc \cup {NoUser}]]
    /\ apart \subseteq Reasons

Quiet == \A c \in Caller : At(c, "idle")

(* What signIn of the legacy service and of the controller let in. *)
LegacyAccepts(t) ==
    IF Delegated /\ user.iamId THEN Verifies(t, user.id) ELSE Compares(t, user.password)
IamAccepts(t) == Verifies(normalizePasswordForIam(t), user.id)

SameDoors == \A t \in Text : ~ t.sha256 /\ AccountsOf(user.id) # {} => (LegacyAccepts(t) <=> IamAccepts(t))

(* "This ensures users can sign in via either system after any password     *)
(* change or reset", and a password that was replaced opens neither: once   *)
(* no call is running, whatever calls overlapped, unless a synchronisation  *)
(* failed or could not be done, a migration inserted its account after the  *)
(* user changed, or two calls wrote the password at once.                   *)
EitherDoor == Quiet /\ apart = {} => SameDoors

(* "This ensures no orphaned auth data remains after user deletion": with   *)
(* the same exceptions and that of a sign-in the deletion overtook.         *)
NoOrphans ==
    Quiet /\ apart = {} => /\ sessions \subseteq {user.id}
                           /\ \A a \in AccountId : accounts[a].owner \in {0, user.id}

(* "When a user changes their password via UserService.update(), the new    *)
(* password is synced", the address changing with it or not.                *)
ChangeReachesIam == Quiet /\ apart \subseteq {"address"} => SameDoors
=============================================================================
