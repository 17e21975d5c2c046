--------------------------- MODULE LegacySessions ---------------------------
(***************************************************************************)
(* The sessions of one user of the legacy authentication                   *)
(* (src/core/modules/auth/services/core-auth.service.ts): signIn,          *)
(* refreshTokens and logout, and the update of a user they all end in      *)
(* (src/core/common/services/crud.service.ts).                             *)
(*                                                                         *)
(* The user document holds, per device, the token ID of its session and    *)
(* the temporary token that parallel refreshes share.  A call works on the *)
(* user it read when the request was authenticated; update reads the       *)
(* document again, merges, and writes all of it back.  Each request to     *)
(* MongoDB is a step.                                                      *)
(***************************************************************************)
EXTENDS Clock, FiniteSets

CONSTANTS
    Device,
    Call,
    SignedIn,  \* the devices with a session at first
    Renewal,   \* jwt.refresh.renewal
    Period,    \* jwt.sameTokenIdPeriod, 0 for none
    MaxTokens  \* bound: token IDs in all

ASSUME SessionsAssumption == /\ SignedIn \subseteq Device /\ IsFiniteSet(Device) /\ Device # {}
                             /\ Renewal \in BOOLEAN
                             /\ {Period, MaxTokens} \subseteq Nat
                             /\ Cardinality(SignedIn) <= MaxTokens

VARIABLES
    document,  \* of the user: refreshTokens and tempTokens
    minted,    \* the device of each token ID so far, by ID
    clients,   \* the tokens the clients of the devices hold
    at,        \* what each call does next
    request,   \* its operation and device
    snapshot,  \* the user it was authenticated as
    copy,      \* the document its update merged
    token,     \* the token ID it answers with
    seen,      \* history: the sessions stored while it ran, by device
    alone      \* history: no other call has written while it ran

sessionVars == <<now, document, minted, clients, at, request, snapshot, copy, token, seen, alone>>
callVars    == <<at, request, snapshot, copy, token>>

NoToken  == 0
TokenId  == 1..MaxTokens
NoTemp   == [tokenId |-> NoToken, createdAt |-> 0]
Temp     == [tokenId : TokenId \cup {NoToken}, createdAt : 0..now]
Document == [refreshTokens : [Device -> TokenId \cup {NoToken}], tempTokens : [Device -> Temp]]
Empty    == [refreshTokens |-> [d \in Device |-> NoToken], tempTokens |-> [d \in Device |-> NoTemp]]
Op       == {"signIn", "refresh", "logout", "logoutAll", "update"}
Steps    == {"idle", "mint", "load", "store", "mintAgain", "loadAgain", "storeAgain",
             "answer", "done", "refused", "failed"}
Pending(c) == at[c] \notin {"idle", "done", "refused", "failed"}
device(c)  == request[c].device

SessionsInit ==
    /\ now = 0
    /\ \E id \in [SignedIn -> 1..Cardinality(SignedIn)] :
          /\ \A d, e \in SignedIn : id[d] = id[e] => d = e
          /\ minted = [i \in 1..Cardinality(SignedIn) |-> CHOOSE d \in SignedIn : id[d] = i]
          /\ document = [refreshTokens |-> [d \in Device |-> IF d \in SignedIn THEN id[d] ELSE NoToken],
                         tempTokens |-> [d \in Device |-> IF d \in SignedIn
                                            THEN [tokenId |-> id[d], createdAt |-> 0] ELSE NoTemp]]
          /\ clients = {<<d, id[d]>> : d \in SignedIn}
    /\ at = [c \in Call |-> "idle"]
    /\ request = [c \in Call |-> [op |-> "update", device |-> CHOOSE d \in Device : TRUE]]
    /\ snapshot = [c \in Call |-> Empty] /\ copy = [c \in Call |-> Empty]
    /\ token = [c \in Call |-> NoToken]
    /\ seen = [c \in Call |-> [d \in Device |-> {}]]
    /\ alone = [c \in Call |-> FALSE]

Proceed(c, place) == at' = [at EXCEPT ![c] = place]

-----------------------------------------------------------------------------
(* A request arrives.  The JWT strategies read the user and compare the     *)
(* token ID of the device (validateUser); signIn reads the user by email    *)
(* and checks the password; any other update of the user just starts.      *)
BeginAs(c, op, d, held) ==
    /\ at[c] = "idle"
    /\ request' = [request EXCEPT ![c] = [op |-> op, device |-> d]]
    /\ snapshot' = [snapshot EXCEPT ![c] = held]
    /\ seen' = [seen EXCEPT ![c] = [e \in Device |-> {document.refreshTokens[e]}]]
    /\ alone' = [alone EXCEPT ![c] = TRUE]
    /\ \/ op = "signIn" /\ Proceed(c, "mint") /\ UNCHANGED token
       \/ op = "update" /\ Proceed(c, "load") /\ UNCHANGED token
       \/ /\ op \in {"refresh", "logout", "logoutAll"}
          /\ \E id \in TokenId :
                /\ <<d, id>> \in clients
                /\ token' = [token EXCEPT ![c] = id]
                /\ Proceed(c, CASE held.refreshTokens[d] # id -> "refused"
                             [] op = "refresh" -> "mint"
                             [] OTHER          -> "load")
    /\ UNCHANGED <<now, document, minted, clients, copy>>

(* Mutant: a request is authenticated as the user another one holds. *)
BeginCached(c, op, d) ==
    \E held \in {document} \cup {snapshot[b] : b \in {b \in Call : Pending(b)}} : BeginAs(c, op, d, held)

Begin(c, op, d) == BeginAs(c, op, d, document)

(* createTokens: the temporary token of the device while it is fresh, read  *)
(* from the document as it is now, and a new ID otherwise.  Without renewal *)
(* updateRefreshToken leaves it at that.                                   *)
Fresh(temp) == Period > 0 /\ temp.tokenId # NoToken /\ temp.createdAt >= now - Period

MintOf(c, temp) ==
    /\ \/ Fresh(temp) /\ token' = [token EXCEPT ![c] = temp.tokenId] /\ UNCHANGED minted
       \/ /\ ~ Fresh(temp) /\ Cardinality(DOMAIN minted) < MaxTokens
          /\ LET id == Cardinality(DOMAIN minted) + 1
             IN  /\ token' = [token EXCEPT ![c] = id]
                 /\ minted' = [i \in DOMAIN minted \cup {id} |-> IF i = id THEN device(c) ELSE minted[i]]
    /\ \/ /\ request[c].op = "signIn" \/ Renewal
          /\ Proceed(c, IF at[c] = "mint" THEN "load" ELSE "loadAgain")
       \/ /\ request[c].op = "refresh" /\ ~ Renewal
          /\ Proceed(c, IF at[c] = "mint" THEN "mintAgain" ELSE "answer")
    /\ UNCHANGED <<now, document, clients, request, snapshot, copy, seen, alone>>

Mint(c) == at[c] \in {"mint", "mintAgain"} /\ MintOf(c, document.tempTokens[device(c)])

(* Mutant: the data of the session before come last. *)
StagedOld(c) ==
    LET old == snapshot[c].refreshTokens[device(c)]
        new == IF old # NoToken THEN old ELSE token[c]
    IN  IF request[c].op \in {"signIn", "refresh"}
        THEN [refreshTokens |-> [snapshot[c].refreshTokens EXCEPT ![device(c)] = new],
              tempTokens |-> [snapshot[c].tempTokens EXCEPT ![device(c)] =
                                 [tokenId |-> new, createdAt |-> now]]]
        ELSE snapshot[c]

(* updateRefreshToken and logout change the user they hold. *)
Staged(c) ==
    CASE request[c].op \in {"signIn", "refresh"} ->
           [refreshTokens |-> [snapshot[c].refreshTokens EXCEPT ![device(c)] = token[c]],
            tempTokens |-> [snapshot[c].tempTokens EXCEPT ![device(c)] =
                               [tokenId |-> token[c], createdAt |-> now]]]
      [] request[c].op = "logout" ->
           [snapshot[c] EXCEPT !.refreshTokens[device(c)] = NoToken]
      [] request[c].op = "logoutAll" ->
           [snapshot[c] EXCEPT !.refreshTokens = Empty.refreshTokens]
      [] OTHER -> snapshot[c]

(* mergePlain: the entries of the input replace those of the document; an   *)
(* entry the input does not have stays.                                    *)
Overlay(input, old, none) == [d \in Device |-> IF input[d] = none THEN old[d] ELSE input[d]]

Merged(c, held) ==
    [refreshTokens |-> IF request[c].op = "update" THEN document.refreshTokens
                       ELSE Overlay(held.refreshTokens, document.refreshTokens, NoToken),
     tempTokens |-> IF request[c].op \in {"signIn", "refresh"}
                    THEN Overlay(held.tempTokens, document.tempTokens, NoTemp) ELSE document.tempTokens]

(* CrudService.update: findById, then findByIdAndUpdate of the whole        *)
(* document.                                                               *)
Load(c) ==
    /\ at[c] \in {"load", "loadAgain"}
    /\ snapshot' = [snapshot EXCEPT ![c] = Staged(c)]
    /\ copy' = [copy EXCEPT ![c] = Merged(c, Staged(c))]
    /\ Proceed(c, IF at[c] = "load" THEN "store" ELSE "storeAgain")
    /\ UNCHANGED <<now, document, minted, clients, request, token, seen, alone>>

(* refreshTokens creates and stores tokens, and getResult does so again.    *)
WriteBack(c) ==
    /\ at[c] \in {"store", "storeAgain"}
    /\ document' = copy[c]
    /\ Proceed(c, IF at[c] = "store" /\ request[c].op = "refresh" THEN "mintAgain" ELSE "answer")
    /\ seen' = [b \in Call |-> [d \in Device |-> IF Pending(b)
                   THEN seen[b][d] \cup {copy[c].refreshTokens[d]} ELSE {}]]
    /\ alone' = [b \in Call |-> alone[b] /\ (b = c \/ ~ Pending(b))]
    /\ copy' = [copy EXCEPT ![c] = Empty]
    /\ UNCHANGED <<now, minted, clients, request, snapshot, token>>

(* What a call held is gone when it ends. *)
End(c, place) ==
    /\ Proceed(c, place)
    /\ snapshot' = [snapshot EXCEPT ![c] = Empty] /\ copy' = [copy EXCEPT ![c] = Empty]
    /\ token' = [token EXCEPT ![c] = NoToken]
    /\ seen' = [seen EXCEPT ![c] = [d \in Device |-> {}]]
    /\ alone' = [alone EXCEPT ![c] = FALSE]
    /\ UNCHANGED <<now, document, minted, request>>

Answer(c) ==
    /\ at[c] = "answer"
    /\ clients' = IF request[c].op \in {"signIn", "refresh"}
                  THEN clients \cup {<<device(c), token[c]>>} ELSE clients
    /\ End(c, "done")

(* A request to MongoDB fails, or the process dies. *)
Fail(c) == Pending(c) /\ End(c, "failed") /\ UNCHANGED clients

SessionTick == now < MaxTime /\ now' = now + 1 /\ UNCHANGED <<document, minted, clients, callVars, seen, alone>>

SessionsNext ==
    \/ SessionTick
    \/ \E c \in Call : \/ \E op \in Op, d \in Device : Begin(c, op, d)
                       \/ Mint(c) \/ Load(c) \/ WriteBack(c) \/ Answer(c) \/ Fail(c)
SessionsSpec == SessionsInit /\ [][SessionsNext]_sessionVars

-----------------------------------------------------------------------------
(* "Token ID to make sure that there is only one RefreshToken for each      *)
(* device": whatever the updates of the user overwrite, a device never has  *)
(* the session of another one.                                             *)
DevicesApart == \A d \in Device : document.refreshTokens[d] # NoToken => minted[document.refreshTokens[d]] = d

SessionsTypeOK ==
    /\ now \in 0..MaxTime
    /\ document \in Document
    /\ \E n \in 0..MaxTokens : minted \in [1..n -> Device]
    /\ clients \subseteq Device \X DOMAIN minted
    /\ at \in [Call -> Steps]
    /\ request \in [Call -> [op : Op, device : Device]]
    /\ snapshot \in [Call -> Document] /\ copy \in [Call -> Document]
    /\ token \in [Call -> TokenId \cup {NoToken}]
    /\ alone \in [Call -> BOOLEAN]
    /\ DevicesApart

Stores(c)  == at[c] \in {"store", "storeAgain"} /\ at'[c] \notin {at[c], "failed"}
Answers(c) == at[c] = "answer" /\ at'[c] = "done"

(* What an update writes back for the other devices of the user is a        *)
(* session each of them had while the call ran: a lost update loses what    *)
(* happened meanwhile, and nothing before.                                 *)
LostOnlyMeanwhile ==
    [][\A c \in Call : Stores(c) => \A d \in Device \ {device(c)} :
          document'.refreshTokens[d] \in seen[c][d]]_sessionVars

(* The tokens signIn and refreshTokens answer with are the session of the   *)
(* device, unless another update of the user was written while they ran.   *)
AnswersValid ==
    [][\A c \in Call : Answers(c) /\ request[c].op \in {"signIn", "refresh"} /\ alone[c]
          => document.refreshTokens[device(c)] = token[c]]_sessionVars

(* "Logs a user out from a specific device": the device has no session when *)
(* logout answers, unless another update was written while it ran.         *)
LogoutEnds ==
    [][\A c \in Call : Answers(c) /\ request[c].op = "logout" /\ alone[c]
          => document.refreshTokens[device(c)] = NoToken]_sessionVars
=============================================================================
