--------------------------- MODULE AiConnections ---------------------------
(***************************************************************************)
(* The connections of the AI assistant to its models, one of which is the   *)
(* default, and the preferences of tenants and users for one of them        *)
(* (src/core/modules/ai/services/core-ai-connection*.service.ts).  Every    *)
(* call is a few requests to MongoDB, between which others come.            *)
(***************************************************************************)
EXTENDS FiniteSets

CONSTANTS
    Connection,  \* ids
    Existing,    \* those there are when the replicas start
    Job,         \* calls
    Patch,       \* inputs of create and update: some of the fields
    Chooser      \* the tenant and the users that may have a preference

Doc    == [enabled : BOOLEAN, isDefault : BOOLEAN]
Schema == [enabled |-> TRUE, isDefault |-> FALSE]   \* what a field defaults to

ASSUME ConnectionAssumption ==
    /\ Existing \subseteq Connection
    /\ \A p \in Patch : DOMAIN p \subseteq DOMAIN Schema /\ \A f \in DOMAIN p : p[f] \in BOOLEAN

VARIABLES
    life,         \* of each connection
    connections,  \* its document
    preferences,  \* the connection each chooser prefers
    jobs,         \* what each call is doing
    spoilt        \* history: how there came to be two defaults, or a
                  \* preference for a connection that is gone

connectionVars == <<life, connections, preferences, jobs, spoilt>>

Nothing == "nothing"
NoJob   == [at |-> "idle", on |-> Nothing, seen |-> Schema, input |-> Schema, for |-> Nothing]
Because(reason, holds) == spoilt' = IF holds THEN spoilt \cup {reason} ELSE spoilt

ConnectionInit ==
    /\ life = [c \in Connection |-> IF c \in Existing THEN "stored" ELSE "none"]
    /\ connections \in [Connection -> {Schema, [Schema EXCEPT !.isDefault = TRUE]}]
    /\ \A c, d \in Connection : connections[c].isDefault => c \in Existing /\ (connections[d].isDefault => c = d)
    /\ preferences = [r \in Chooser |-> Nothing]
    /\ jobs = [j \in Job |-> NoJob]
    /\ spoilt = {}

Does(j, at) == jobs[j].at = at
NowDoes(j, at) == jobs' = [jobs EXCEPT ![j].at = at]
Usable(c) == life[c] = "stored" /\ connections[c].enabled
Onto(input, doc) == [f \in DOMAIN doc |-> IF f \in DOMAIN input THEN input[f] ELSE doc[f]]
Setting(input) == "isDefault" \in DOMAIN input /\ input.isDefault

-----------------------------------------------------------------------------
(* Mutant: only create keeps the default unique. *)
AfterCreate(op, input) == IF op = "create" /\ Setting(input) THEN "unset" ELSE "done"

(* What follows the write of a create or an update *)
AfterWrite(op, input) == IF Setting(input) THEN "unset" ELSE "done"

create(j, c, input) ==
    /\ Does(j, "idle") /\ life[c] = "none"
    /\ life' = [life EXCEPT ![c] = "stored"]
    /\ connections' = [connections EXCEPT ![c] = Onto(input, Schema)]
    /\ jobs' = [jobs EXCEPT ![j].at = AfterWrite("create", input), ![j].on = c]
    /\ UNCHANGED <<preferences, spoilt>>

(* update of the crud service reads the document and writes all of it back. *)
ReadConnection(j, c, input) ==
    /\ Does(j, "idle") /\ life[c] = "stored"
    /\ jobs' = [jobs EXCEPT ![j] = [NoJob EXCEPT !.at = "write", !.on = c, !.seen = connections[c], !.input = input]]
    /\ UNCHANGED <<life, connections, preferences, spoilt>>

WriteConnection(j) ==
    LET c == jobs[j].on  input == jobs[j].input
    IN  /\ Does(j, "write")
        /\ connections' = IF life[c] = "stored" THEN [connections EXCEPT ![c] = Onto(input, jobs[j].seen)] ELSE connections
        /\ NowDoes(j, AfterWrite("update", input))
        /\ Because("stale", ~ Setting(input) /\ connections'[c].isDefault /\ ~ connections[c].isDefault)
        /\ UNCHANGED <<life, preferences>>

unsetOtherDefaults(j) ==
    /\ Does(j, "unset")
    /\ connections' = [c \in Connection |-> IF c = jobs[j].on THEN connections[c]
                                            ELSE [connections[c] EXCEPT !.isDefault = FALSE]]
    /\ NowDoes(j, "done")
    /\ UNCHANGED <<life, preferences, spoilt>>

(* A replica that starts counts, and inserts a default if there is none. *)
seedDefaultConnection(j) ==
    /\ Does(j, "idle")
    /\ NowDoes(j, IF \E c \in Connection : life[c] = "stored" THEN "done" ELSE "seed")
    /\ UNCHANGED <<life, connections, preferences, spoilt>>

InsertSeed(j, c) ==
    /\ Does(j, "seed") /\ life[c] = "none"
    /\ life' = [life EXCEPT ![c] = "stored"]
    /\ connections' = [connections EXCEPT ![c] = [Schema EXCEPT !.isDefault = TRUE]]
    /\ NowDoes(j, "done")
    /\ Because("seeded", \E d \in Connection : life[d] = "stored")
    /\ UNCHANGED preferences

-----------------------------------------------------------------------------
delete(j, c) ==
    /\ Does(j, "idle") /\ life[c] = "stored"
    /\ life' = [life EXCEPT ![c] = "deleted"]
    /\ connections' = [connections EXCEPT ![c] = Schema]
    /\ jobs' = [jobs EXCEPT ![j].at = "clean", ![j].on = c]
    /\ UNCHANGED <<preferences, spoilt>>

Cleaned(c) == \A j \in Job : ~ (Does(j, "clean") /\ jobs[j].on = c)

deleteByConnectionId(j) ==
    /\ Does(j, "clean")
    /\ preferences' = [r \in Chooser |-> IF preferences[r] = jobs[j].on THEN Nothing ELSE preferences[r]]
    /\ NowDoes(j, "done")
    /\ UNCHANGED <<life, connections, spoilt>>

(* setUserConnection and setPreference see that the connection is usable,   *)
(* and then write.                                                          *)
setPreference(j, r, c) ==
    /\ Does(j, "idle")
    /\ jobs' = [jobs EXCEPT ![j] = IF Usable(c) THEN [NoJob EXCEPT !.at = "prefer", !.on = c, !.for = r]
                                   ELSE [NoJob EXCEPT !.at = "done"]]
    /\ UNCHANGED <<life, connections, preferences, spoilt>>

upsertPreference(j) ==
    LET c == jobs[j].on
    IN  /\ Does(j, "prefer")
        /\ preferences' = [preferences EXCEPT ![jobs[j].for] = c]
        /\ NowDoes(j, "done")
        /\ Because("late", life[c] = "deleted" /\ Cleaned(c))
        /\ UNCHANGED <<life, connections>>

(* A request fails, or the process dies.  A clean-up that fails is logged.  *)
Cut(j) ==
    /\ ~ Does(j, "idle") /\ ~ Does(j, "done")
    /\ NowDoes(j, "done")
    /\ Because("cut", Does(j, "unset") \/ Does(j, "clean"))
    /\ UNCHANGED <<life, connections, preferences>>

ConnectionNext ==
    \E j \in Job :
        \/ \E c \in Connection :
              \/ delete(j, c) \/ InsertSeed(j, c)
              \/ \E input \in Patch : create(j, c, input) \/ ReadConnection(j, c, input)
              \/ \E r \in Chooser : setPreference(j, r, c)
        \/ seedDefaultConnection(j) \/ WriteConnection(j) \/ unsetOtherDefaults(j)
        \/ deleteByConnectionId(j) \/ upsertPreference(j) \/ Cut(j)

ConnectionSpec == ConnectionInit /\ [][ConnectionNext]_connectionVars

-----------------------------------------------------------------------------
ConnectionTypeOK ==
    /\ life \in [Connection -> {"none", "stored", "deleted"}]
    /\ connections \in [Connection -> Doc]
    /\ preferences \in [Chooser -> Connection \cup {Nothing}]
    /\ jobs \in [Job -> [at : {"idle", "write", "unset", "seed", "clean", "prefer", "done"},
                         on : Connection \cup {Nothing}, seen : Doc, input : Patch \cup {Schema},
                         for : Chooser \cup {Nothing}]]
    /\ \A c \in Connection : connections[c].isDefault => life[c] = "stored"
    /\ spoilt \subseteq {"stale", "seeded", "late", "cut"}

(* "One connection can be `isDefault`; the service keeps it unique", once   *)
(* the calls are over, unless one of them was cut off, wrote back a default *)
(* that had been taken away meanwhile, or was a replica that seeded beside  *)
(* another.                                                                 *)
OneDefault ==
    spoilt \subseteq {"late"} /\ (\A j \in Job : ~ Does(j, "unset")) =>
        \A c, d \in Connection : connections[c].isDefault /\ connections[d].isDefault => c = d

(* "avoids dangling preferences": no preference is for a connection that    *)
(* was deleted, once its deletion is over, unless the clean-up failed or    *)
(* somebody was about to choose it.                                         *)
NoneDangling ==
    spoilt \cap {"late", "cut"} = {} =>
        \A r \in Chooser : preferences[r] # Nothing /\ life[preferences[r]] = "deleted" => ~ Cleaned(preferences[r])

(* Both of what several requests of one call may leave half done            *)
ConnectionsKept == OneDefault /\ NoneDangling
=============================================================================
