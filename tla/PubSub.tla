------------------------------- MODULE PubSub -------------------------------
(***************************************************************************)
(* CoreRedisPubSub (src/core/common/services/core-redis-pubsub.ts) of one   *)
(* process and the handlers of one channel.  A first handler sends          *)
(* SUBSCRIBE and enters its map only when the answer has come; later ones   *)
(* enter the map at once, and the last that leaves sends UNSUBSCRIBE.       *)
(* Redis takes the commands of a connection in order.                       *)
(***************************************************************************)
EXTENDS Naturals, Sequences, FiniteSets

CONSTANT Listener   \* calls of subscribe; each may make the map of handlers

NoMap == "none"
Maps  == Listener \cup {NoMap}

ASSUME ListenerAssumption == NoMap \notin Listener

VARIABLES
    handlers,    \* who made the map of the channel, or NoMap
    members,     \* the handlers in each map
    listeners,   \* how far each call is, and the map it holds
    wire,        \* commands that Redis has still to answer
    subscribed,  \* Redis delivers the channel to this process
    overtaken    \* history: subscriptions whose map was dropped in between

pubSubVars == <<handlers, members, listeners, wire, subscribed, overtaken>>

Stands == {"idle", "waiting", "live", "left", "failed"}

PubSubInit ==
    /\ handlers = NoMap
    /\ members = [m \in Listener |-> {}]
    /\ listeners = [l \in Listener |-> [at |-> "idle", map |-> NoMap]]
    /\ wire = <<>>
    /\ subscribed = FALSE
    /\ overtaken = {}

Are(place)  == {l \in Listener : listeners[l].at = place}
Command(cmd, l) == wire' = Append(wire, [cmd |-> cmd, by |-> l])
Put(l, place) == listeners' = [listeners EXCEPT ![l].at = place]
Join(l, m) ==
    /\ listeners' = [listeners EXCEPT ![l] = [at |-> "live", map |-> m]]
    /\ members' = [members EXCEPT ![m] = @ \cup {l}]

(* The map of the channel is dropped, under those who wait to enter it, or  *)
(* are in it.                                                               *)
DropMap == handlers' = NoMap
Under(ls) == overtaken' = overtaken \cup Are("waiting") \cup ls

-----------------------------------------------------------------------------
SubscribeIf(l, first) ==
    /\ listeners[l].at = "idle"
    /\ IF first
       THEN /\ listeners' = [listeners EXCEPT ![l] = [at |-> "waiting", map |-> l]]
            /\ handlers' = l
            /\ Command("SUBSCRIBE", l)
            /\ UNCHANGED members
       ELSE Join(l, handlers) /\ UNCHANGED <<handlers, wire>>
    /\ UNCHANGED <<subscribed, overtaken>>

(* Mutant: an empty map is as good as none. *)
subscribeIfEmpty(l) == SubscribeIf(l, handlers = NoMap \/ members[handlers] = {})

subscribe(l) == SubscribeIf(l, handlers = NoMap)

(* The answers.  One that fails drops the map of the channel, whoever made  *)
(* it by now.                                                               *)
Subscribed ==
    /\ wire # <<>> /\ Head(wire).cmd = "SUBSCRIBE"
    /\ LET l == Head(wire).by
       IN  \/ /\ subscribed' = TRUE
              /\ Join(l, listeners[l].map)
              /\ UNCHANGED <<handlers, overtaken>>
           \/ /\ Put(l, "failed")
              /\ DropMap /\ Under(IF handlers = NoMap THEN {} ELSE members[handlers])
              /\ UNCHANGED <<members, subscribed>>
    /\ wire' = Tail(wire)

Unsubscribed ==
    /\ wire # <<>> /\ Head(wire).cmd = "UNSUBSCRIBE"
    /\ subscribed' \in {FALSE, subscribed}
    /\ wire' = Tail(wire)
    /\ UNCHANGED <<handlers, members, listeners, overtaken>>

(* Whoever leaves is looked for in the map of now, which may be another one *)
(* than it entered; a map that is empty then is dropped.                    *)
unsubscribe(l) ==
    /\ listeners[l].at = "live"
    /\ Put(l, "left")
    /\ members' = IF handlers = NoMap THEN members ELSE [members EXCEPT ![handlers] = @ \ {l}]
    /\ IF handlers # NoMap /\ members'[handlers] = {}
       THEN DropMap /\ Under({}) /\ Command("UNSUBSCRIBE", l)
       ELSE UNCHANGED <<handlers, overtaken, wire>>
    /\ UNCHANGED subscribed

(* onModuleDestroy: every subscription is forgotten. *)
onModuleDestroy ==
    /\ handlers # NoMap \/ Are("live") # {}
    /\ listeners' = [l \in Listener |-> IF l \in Are("live") THEN [listeners[l] EXCEPT !.at = "left"]
                                        ELSE listeners[l]]
    /\ IF handlers = NoMap THEN UNCHANGED wire ELSE Command("UNSUBSCRIBE", handlers)
    /\ DropMap /\ Under({})
    /\ UNCHANGED <<members, subscribed>>

PubSubNext ==
    \/ \E l \in Listener : subscribe(l) \/ unsubscribe(l)
    \/ Subscribed \/ Unsubscribed \/ onModuleDestroy

PubSubSpec == PubSubInit /\ [][PubSubNext]_pubSubVars

-----------------------------------------------------------------------------
PubSubTypeOK ==
    /\ handlers \in Maps
    /\ members \in [Listener -> SUBSET Listener]
    /\ listeners \in [Listener -> [at : Stands, map : Maps]]
    /\ Len(wire) <= 2 * Cardinality(Listener)
    /\ \A i \in DOMAIN wire : wire[i] \in [cmd : {"SUBSCRIBE", "UNSUBSCRIBE"}, by : Listener]
    /\ subscribed \in BOOLEAN /\ overtaken \subseteq Listener

(* dispatch: a message goes to the handlers in the map of its channel. *)
Reached == IF subscribed /\ handlers # NoMap THEN members[handlers] ELSE {}

(* "GraphQL subscriptions are delivered across ALL replicas": once Redis has *)
(* answered every command, a message reaches every subscription, except one *)
(* whose map was dropped while it waited for Redis, or under it by another  *)
(* whose SUBSCRIBE failed.                                                  *)
DeafOnlyIfOvertaken == wire = <<>> => Are("live") \subseteq Reached \cup overtaken
=============================================================================
