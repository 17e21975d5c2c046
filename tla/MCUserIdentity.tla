--------------------------- MODULE MCUserIdentity ---------------------------
(* Two callers, two addresses and two passwords of one person, who may sign *)
(* up again after a deletion.  Behaviours end where the two ways of signing *)
(* in have a reason to part: what follows says nothing more.                *)
EXTENDS UserIdentity, TLC

Alike == Permutations(Caller) \cup Permutations(Password) \cup Permutations(Address) \cup Permutations(AccountId)

(* Only a reset sends a hash, and only the first user is changed or deleted. *)
Sent(c)   == callers[c].text.sha256 => callers[c].op = "reset"
Update(c) == callers[c].op \in {"update", "reset", "delete"} => callers[c].seen.id = 1
Forgot    == user.resetToken => user.id = 1
OneUpdate == Cardinality({c \in Caller : callers[c].op = "update"}) <= 1

(* What a call finds that begins: somebody to sign up when there is nobody   *)
(* or a deletion is on its way; what the person knows to sign in with; and  *)
(* the address or the password to update, one of the two.  Nothing begins   *)
(* once the person has signed up again.                                     *)
Begins(c) ==
    LET call == callers'[c]
    IN  At(c, "idle") /\ call.at # "idle" =>
            /\ user.id < 2
            /\ call.op \in {"signUpIam", "signUpLegacy"} =>
                   user = NoUser \/ \E d \in Caller : callers[d].op = "delete"
            /\ call.op = "signInIam" =>
                   call.email = user.email /\ (Compares(call.text, user.password) \/ IamAccepts(call.text))
            /\ call.op = "update" =>
                   call.email # user.email /\ (call.email = "none" <=> call.text # NoText)

OneByOne ==
    /\ apart = {} /\ IdentityNext /\ OneUpdate'
    /\ \A c \in Caller : Begins(c) /\ (Sent(c) /\ Update(c) /\ Forgot)'
    /\ UNCHANGED callers => Quiet

(* An update may change both. *)
AddressSpec ==
    /\ IdentityInit
    /\ [][apart \subseteq {"address"} /\ IdentityNext /\ \A c \in Caller : Sent(c)']_identityVars
=============================================================================
