---------------------------- MODULE McpSessions ----------------------------
(***************************************************************************)
(* The sessions of MCP clients (src/core/modules/ai/                        *)
(* core-ai-mcp.controller.ts).  The transport of a session lives in the     *)
(* memory of one replica; a registry in Redis names that replica, so that   *)
(* another can tell the client where to go.  Writes to the registry are not *)
(* awaited, and a request is long: the session may be closed, evicted or    *)
(* the replica shut down before its handler goes on.                        *)
(***************************************************************************)
EXTENDS Replicas

CONSTANTS
    Session,            \* ids, each given to one transport
    OwnerOf,            \* the user who initializes it
    Post,               \* POST requests of any session
    MaxSessionsPerUser, \* caps of a replica
    MaxSessions

Nowhere == "nowhere"
Free    == "free"

ASSUME SessionAssumption == /\ {MaxSessionsPerUser, MaxSessions} \subseteq Nat \ {0}
                            /\ Nowhere \notin Replica /\ Free \notin Session

VARIABLES
    home,       \* the replica that made the transport of each session
    transports, \* of each replica: the sessions it holds
    open,       \* sessions whose transport is not closed
    registered, \* sessions the registry has; it names their home
    posts,      \* the session each POST is about, once it has one
    phase,      \* how far the shutdown of each replica is
    leaving,    \* the sessions it held when that began
    unclosed,   \* those it held and could not close
    astray      \* history: sessions whose entry may be wrong, and why

mcpVars == <<home, transports, open, registered, posts, phase, leaving, unclosed, astray>>

Phase == {"up", "closing", "cleared", "gone"}
Cause == {"unheard", "returned", "unclosed", "crashed"}

McpInit ==
    /\ home = [s \in Session |-> Nowhere]
    /\ transports = [rep \in Replica |-> {}]
    /\ open = {} /\ registered = {}
    /\ posts = [k \in Post |-> Free]
    /\ phase = [rep \in Replica |-> "up"]
    /\ leaving = [rep \in Replica |-> {}]
    /\ unclosed = {} /\ astray = {}

Serves(rep) == phase[rep] # "gone"
Holds(rep, s) == s \in transports[rep]
OfUser(rep, u) == {s \in transports[rep] : OwnerOf[s] = u}

(* SET and DEL, of which each may be lost.  A key may also expire.          *)
registerSession(s, reg) == {reg, reg \cup {s}}

(* The registry, and what is astray, after the keys of some sessions were   *)
(* to be deleted *)
releaseSession(gone, reg) ==
    \E heard \in SUBSET (gone \cap reg) :
        /\ registered' = reg \ heard
        /\ astray' = astray \cup {<<s, "unheard">> : s \in (gone \cap reg) \ heard}

(* transport.close() and its onclose, which runs whatever was done before   *)
Close(rep, s) ==
    /\ open' = open \ {s}
    /\ transports' = [transports EXCEPT ![rep] = @ \ {s}]
    /\ releaseSession({s}, registered)

-----------------------------------------------------------------------------
(* A POST of a session that nobody here holds, and that the registry does   *)
(* not tell to be elsewhere, makes a transport; if it is an initialize, the *)
(* transport has an id from now on.                                         *)
Initialize(k, rep, s) ==
    /\ posts[k] = Free /\ Serves(rep) /\ home[s] = Nowhere
    /\ home' = [home EXCEPT ![s] = rep]
    /\ open' = open \cup {s}
    /\ posts' = [posts EXCEPT ![k] = s]
    /\ UNCHANGED <<transports, registered, phase, leaving, unclosed, astray>>

(* A POST of a session that is held here, by its owner *)
handlePost(k, rep, s) ==
    /\ posts[k] = Free /\ Serves(rep) /\ Holds(rep, s)
    /\ posts' = [posts EXCEPT ![k] = s]
    /\ UNCHANGED <<home, transports, open, registered, phase, leaving, unclosed, astray>>

(* Whom evictIfNeeded may choose from; which of them is the least recently  *)
(* used is left open.                                                       *)
evictIfNeeded(rep, u) ==
    LET most == {s \in transports[rep] : \A v \in Session :
                    Cardinality(OfUser(rep, OwnerOf[v])) <= Cardinality(OfUser(rep, OwnerOf[s]))}
    IN  IF Cardinality(OfUser(rep, u)) >= MaxSessionsPerUser THEN OfUser(rep, u)
        ELSE IF Cardinality(transports[rep]) >= MaxSessions THEN most ELSE {}

(* handleRequest is done.  A session that is not in the map is put there,   *)
(* be it new, or closed while the request was handled.                      *)
Registered(k) ==
    LET s == posts[k]  rep == home[s]
    IN  /\ s # Free
        /\ posts' = [posts EXCEPT ![k] = Free]
        /\ \E set \in registerSession(s, registered) :
              IF Holds(rep, s)
              THEN registered' = set /\ UNCHANGED <<transports, open, unclosed, astray>>
              ELSE LET victims == evictIfNeeded(rep, OwnerOf[s])
                   IN  \E out \in IF victims = {} THEN {{}} ELSE {{v} : v \in victims} :
                          /\ transports' = [transports EXCEPT ![rep] = (@ \ out) \cup {s}]
                          /\ open' = open \ out
                          /\ unclosed' = unclosed \ {s}
                          /\ \E heard \in SUBSET (out \cap set) :
                                /\ registered' = set \ heard
                                /\ astray' = astray \cup {<<v, "unheard">> : v \in (out \cap set) \ heard}
                                      \cup (IF s \in open /\ phase[rep] # "cleared" THEN {} ELSE {<<s, "returned">>})
        /\ UNCHANGED <<home, phase, leaving>>

(* It throws instead, or the connection is gone. *)
PostFails(k) ==
    /\ posts[k] # Free
    /\ posts' = [posts EXCEPT ![k] = Free]
    /\ UNCHANGED <<home, transports, open, registered, phase, leaving, unclosed, astray>>

(* A GET renews the entry, before the stream it opens.                      *)
handleGet(rep, s) ==
    /\ Serves(rep) /\ Holds(rep, s)
    /\ registered' \in registerSession(s, registered)
    /\ UNCHANGED <<home, transports, open, posts, phase, leaving, unclosed, astray>>

(* Mutant: the entry is renewed when the request was handled. *)
DeleteThenRegister(rep, s) ==
    /\ Serves(rep) /\ Holds(rep, s)
    /\ open' = open \ {s}
    /\ transports' = [transports EXCEPT ![rep] = @ \ {s}]
    /\ registered' \in registerSession(s, registered \ {s})
    /\ UNCHANGED <<home, posts, phase, leaving, unclosed, astray>>

(* So does a DELETE, which then closes the transport. *)
handleDelete(rep, s) ==
    /\ Serves(rep) /\ Holds(rep, s)
    /\ open' = open \ {s}
    /\ transports' = [transports EXCEPT ![rep] = @ \ {s}]
    /\ \E set \in registerSession(s, registered) : releaseSession({s}, set)
    /\ UNCHANGED <<home, posts, phase, leaving, unclosed>>

Expire(s) ==
    /\ s \in registered /\ registered' = registered \ {s}
    /\ UNCHANGED <<home, transports, open, posts, phase, leaving, unclosed, astray>>

-----------------------------------------------------------------------------
(* onModuleDestroy closes one transport after the other, those that come    *)
(* meanwhile too, and goes on when one cannot be closed; then it drops what *)
(* it still holds, and deletes the keys of those it began with.  Until the  *)
(* server has stopped, requests are handled as before.                      *)
onModuleDestroy(rep) ==
    /\ phase[rep] = "up"
    /\ phase' = [phase EXCEPT ![rep] = "closing"]
    /\ leaving' = [leaving EXCEPT ![rep] = transports[rep]]
    /\ UNCHANGED <<home, transports, open, registered, posts, unclosed, astray>>

CloseNext(rep) ==
    /\ phase[rep] = "closing"
    /\ \E s \in transports[rep] \ unclosed :
          \/ Close(rep, s) /\ UNCHANGED unclosed
          \/ \* close() throws before its onclose
             unclosed' = unclosed \cup {s} /\ UNCHANGED <<transports, open, registered, astray>>
    /\ UNCHANGED <<home, posts, phase, leaving>>

Cleared(rep) ==
    /\ phase[rep] = "closing" /\ transports[rep] \subseteq unclosed
    /\ phase' = [phase EXCEPT ![rep] = "cleared"]
    /\ transports' = [transports EXCEPT ![rep] = {}]
    /\ leaving' = [leaving EXCEPT ![rep] = {}]
    /\ unclosed' = {s \in unclosed : home[s] # rep}
    /\ \E heard \in SUBSET (leaving[rep] \cap registered) :
          /\ registered' = registered \ heard
          /\ astray' = astray \cup {<<s, "unheard">> : s \in (leaving[rep] \cap registered) \ heard}
                       \cup {<<s, "unclosed">> : s \in (transports[rep] \ leaving[rep]) \cap registered}
    /\ UNCHANGED <<home, open, posts>>

(* The process ends, or dies before it got here. *)
Exit(rep) ==
    /\ Serves(rep)
    /\ phase' = [phase EXCEPT ![rep] = "gone"]
    /\ transports' = [transports EXCEPT ![rep] = {}]
    /\ leaving' = [leaving EXCEPT ![rep] = {}]
    /\ open' = {s \in open : home[s] # rep}
    /\ unclosed' = {s \in unclosed : home[s] # rep}
    /\ posts' = [k \in Post |-> IF posts[k] # Free /\ home[posts[k]] = rep THEN Free ELSE posts[k]]
    /\ astray' = IF phase[rep] = "cleared" THEN astray
                 ELSE astray \cup {<<s, "crashed">> : s \in {t \in registered : home[t] = rep}}
    /\ UNCHANGED <<home, registered>>

McpNext ==
    \/ \E k \in Post : \/ \E rep \in Replica, s \in Session : Initialize(k, rep, s) \/ handlePost(k, rep, s)
                       \/ Registered(k) \/ PostFails(k)
    \/ \E rep \in Replica :
          \/ onModuleDestroy(rep) \/ CloseNext(rep) \/ Cleared(rep) \/ Exit(rep)
          \/ \E s \in Session : handleGet(rep, s) \/ handleDelete(rep, s)
    \/ \E s \in Session : Expire(s)

McpSpec == McpInit /\ [][McpNext]_mcpVars

-----------------------------------------------------------------------------
McpTypeOK ==
    /\ home \in [Session -> Replica \cup {Nowhere}]
    /\ \A rep \in Replica :
          /\ transports[rep] \cup leaving[rep] \subseteq {s \in Session : home[s] = rep}
          /\ Cardinality(transports[rep]) <= MaxSessions
          /\ \A s \in Session : Cardinality(OfUser(rep, OwnerOf[s])) <= MaxSessionsPerUser
    /\ open \cup registered \cup unclosed \subseteq Session
    /\ posts \in [Post -> Session \cup {Free}]
    /\ phase \in [Replica -> Phase]
    /\ astray \subseteq Session \X Cause

(* What a replica that does not hold a session tells its owner *)
foreignSessionOwner(rep, s) == IF s \in registered /\ home[s] # rep THEN home[s] ELSE Nowhere

(* A client that is sent to another replica finds its session open there:   *)
(* an entry outlives its transport only if the replica died, the DEL was    *)
(* lost, a POST that outlasted its session, or the shutdown, put it back,   *)
(* or one that came during the shutdown could not be closed.                *)
SentToHolder ==
    \A rep \in Replica, s \in Session :
        foreignSessionOwner(rep, s) # Nowhere /\ (\A why \in Cause : <<s, why>> \notin astray)
            => Holds(home[s], s) /\ s \in open
=============================================================================
