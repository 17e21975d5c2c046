------------------------------ MODULE McpOAuth ------------------------------
(***************************************************************************)
(* The authorization codes and refresh tokens of the OAuth layer of MCP     *)
(* (src/core/modules/ai/services/core-ai-mcp-oauth.service.ts), kept in     *)
(* MongoDB.  A code is exchanged once, for a refresh token that is replaced *)
(* whenever it is used: what a user once consented to, the grant, is passed *)
(* on from one to the next.                                                 *)
(***************************************************************************)
EXTENDS Integers

CONSTANTS
    Client,    \* registered clients
    Grant,     \* consents of users, each with a code of its own
    ClientOf,  \* the client a grant was given to
    Exchange,  \* requests to the token endpoint
    MaxTokens  \* bound: refresh tokens issued

ASSUME OAuthAssumption == ClientOf \in [Grant -> Client] /\ MaxTokens \in Nat

VARIABLES
    granted,    \* grants given so far
    codes,      \* grants whose code is stored
    refresh,    \* stored refresh tokens, as [id, grant]
    issued,     \* how many there have been
    exchanges   \* what each request is doing

oauthVars == <<granted, codes, refresh, issued, exchanges>>

NoExchange == [at |-> "none"]
Answered   == [at |-> "done"]

OAuthInit ==
    /\ granted = {} /\ codes = {} /\ refresh = {} /\ issued = 0
    /\ exchanges = [x \in Exchange |-> NoExchange]

Stored == UNCHANGED <<granted, codes, refresh, issued>>
Answer(x) == exchanges' = [exchanges EXCEPT ![x] = Answered]
Redeem(x, g) == exchanges' = [exchanges EXCEPT ![x] = [at |-> "issue", grant |-> g]]

-----------------------------------------------------------------------------
(* The user consents. *)
saveAuthorizationCode(g) ==
    /\ g \notin granted
    /\ granted' = granted \cup {g} /\ codes' = codes \cup {g}
    /\ UNCHANGED <<refresh, issued, exchanges>>

(* challengeForAuthorizationCode: a code that is not stored, or a verifier  *)
(* that does not fit, ends the request; the code stays.                     *)
Challenge(x, g, c) ==
    /\ exchanges[x] = NoExchange /\ g \in granted
    /\ \/ g \in codes /\ exchanges' = [exchanges EXCEPT ![x] = [at |-> "consume", grant |-> g, client |-> c]]
       \/ Answer(x)
    /\ Stored

(* Mutant: the code found for the challenge is the one that is redeemed. *)
RedeemChallenged(x) ==
    /\ exchanges[x].at = "consume"
    /\ LET g == exchanges[x].grant
       IN  /\ IF ClientOf[g] = exchanges[x].client THEN Redeem(x, g) ELSE Answer(x)
           /\ codes' = codes \ {g}
    /\ UNCHANGED <<granted, refresh, issued>>

(* consumeAuthorizationCode: findOneAndDelete, and the client compared only *)
(* then.                                                                    *)
consumeAuthorizationCode(x) ==
    /\ exchanges[x].at = "consume"
    /\ LET g == exchanges[x].grant
       IN  /\ IF g \in codes /\ ClientOf[g] = exchanges[x].client THEN Redeem(x, g) ELSE Answer(x)
           /\ codes' = codes \ {g}
    /\ UNCHANGED <<granted, refresh, issued>>

(* rotateRefreshToken: findOneAndDelete by token and client *)
rotateRefreshToken(x, id, c) ==
    /\ exchanges[x] = NoExchange /\ id \in 1..issued
    /\ \/ \E t \in refresh :
             /\ t.id = id /\ ClientOf[t.grant] = c
             /\ refresh' = refresh \ {t} /\ Redeem(x, t.grant)
       \/ /\ \A t \in refresh : t.id = id => ClientOf[t.grant] # c
          /\ UNCHANGED refresh /\ Answer(x)
    /\ UNCHANGED <<granted, codes, issued>>

(* issueRefreshToken, and the answer with it and an access token *)
issueRefreshToken(x) ==
    /\ exchanges[x].at = "issue" /\ issued < MaxTokens
    /\ issued' = issued + 1
    /\ refresh' = refresh \cup {[id |-> issued + 1, grant |-> exchanges[x].grant]}
    /\ Answer(x)
    /\ UNCHANGED <<granted, codes>>

(* A request fails, or the process dies; what was taken out is gone. *)
Abandon(x) ==
    /\ exchanges[x].at \in {"consume", "issue"}
    /\ Answer(x)
    /\ Stored

(* The TTL index; refresh tokens have none. *)
ExpireCode(g) ==
    /\ g \in codes /\ codes' = codes \ {g}
    /\ UNCHANGED <<granted, refresh, issued, exchanges>>

ExchangeStep(x) ==
    \/ \E c \in Client : \/ \E g \in Grant : Challenge(x, g, c)
                         \/ \E id \in 1..issued : rotateRefreshToken(x, id, c)
    \/ consumeAuthorizationCode(x) \/ issueRefreshToken(x) \/ Abandon(x)

OAuthNext ==
    \/ \E x \in Exchange : ExchangeStep(x)
    \/ \E g \in Grant : saveAuthorizationCode(g) \/ ExpireCode(g)

OAuthSpec == OAuthInit /\ [][OAuthNext]_oauthVars

-----------------------------------------------------------------------------
Doing == {NoExchange, Answered} \cup [at : {"consume"}, grant : Grant, client : Client]
            \cup [at : {"issue"}, grant : Grant]

OAuthTypeOK ==
    /\ codes \subseteq granted /\ granted \subseteq Grant
    /\ issued \in Nat
    /\ refresh \subseteq [id : 1..issued, grant : granted]
    /\ exchanges \in [Exchange -> Doing]
    /\ \A x \in Exchange : exchanges[x].at = "issue" => exchanges[x].grant \in granted

(* What a grant has been passed on to *)
Heirs(g) ==
    (IF g \in codes THEN {<<"code", 0>>} ELSE {})
        \cup {<<"token", t.id>> : t \in {u \in refresh : u.grant = g}}
        \cup {<<"request", x>> : x \in {y \in Exchange : exchanges[y] = [at |-> "issue", grant |-> g]}}

(* "One-time use", of codes and of refresh tokens: a grant is held by its   *)
(* code, by one refresh token or by the one request that is about to issue  *)
(* the next, whichever requests present the same code or token at a time.   *)
OneHeir == \A g \in Grant : \A a, b \in Heirs(g) : a = b
=============================================================================
