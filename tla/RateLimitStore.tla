--------------------------- MODULE RateLimitStore ---------------------------
(***************************************************************************)
(* The counters of the rate limiters (src/core/common/services/            *)
(* rate-limit-store.ts): the store in Redis that all replicas share, and   *)
(* the store in memory that each of them falls back to while a request to  *)
(* Redis fails, or has alone when Redis is not configured.                 *)
(*                                                                         *)
(* A counter belongs to a client (its address and the endpoint), or is one *)
(* of the overflow slots that clients share once a store is full.  A hit   *)
(* passes when the counter it was charged to is within the limit.          *)
(***************************************************************************)
EXTENDS Replicas

CONSTANTS
    Client,
    Slot,      \* the overflow counters
    SlotOf,    \* the one each client is folded into
    Shared,    \* the store in Redis
    Capacity,  \* maxKeys of the one in Redis, maxEntries of the others
    Limit,     \* max of the limiter
    Window     \* bound: windowSeconds, on the clock of the model

ASSUME RateAssumption == /\ SlotOf \in [Client -> Slot]
                         /\ Client \cap Slot = {}
                         /\ Shared \notin Replica
                         /\ Capacity \in [Replica \cup {Shared} -> Nat]
                         /\ Limit \in Nat
                         /\ Window \in Nat \ {0}

VARIABLES
    counters,     \* of each store, for each client and slot
    cardinality,  \* of Redis: the clients that asked for a counter of their own
    passes        \* history: the hits that passed by a counter, for a window:
                  \* the time of each, and its number among those of the time

rateVars == <<now, counters, cardinality, passes>>

Store == Replica \cup {Shared}
Cell  == Client \cup Slot

(* A count beyond these bounds says no more than the bound does. *)
MaxCount == (IF Limit > Capacity[Shared] THEN Limit ELSE Capacity[Shared]) + 1
Counter  == [count : 1..MaxCount, until : Nat]
NoCounter == [count |-> 0, until |-> 0]

RateInit ==
    /\ now = 0
    /\ counters = [s \in Store |-> [x \in Cell |-> NoCounter]]
    /\ cardinality = NoCounter
    /\ passes = [s \in Store |-> [x \in Cell |-> {}]]

Open(counter) == now < counter.until

(* The window is fixed: a hit does not move its end. *)
Bump(counter) ==
    IF Open(counter) THEN [counter EXCEPT !.count = IF @ < MaxCount THEN @ + 1 ELSE @]
    ELSE [count |-> 1, until |-> now + Window]

Kept(table)       == {c \in Client : table[c] # NoCounter}
WithoutExpired(t) == [x \in Cell |-> IF x \in Client /\ ~ Open(t[x]) THEN NoCounter ELSE t[x]]

(* Mutant: a full store drops the counter closest to its end. *)
DropClosest(t) ==
    LET first == CHOOSE c \in Kept(t) : \A d \in Kept(t) : t[c].until <= t[d].until
    IN  IF Kept(WithoutExpired(t)) # Kept(t) THEN WithoutExpired(t) ELSE [t EXCEPT ![first] = NoCounter]

(* evictOldest, which never drops a counter whose window is open *)
evictOldest(t) == WithoutExpired(t)

(* The counters of a store after a hit, and the one it was charged to. *)
Charge(table, cell) == [table |-> [table EXCEPT ![cell] = Bump(@)], cell |-> cell]

(* InMemoryRateLimitStore.hit: a client that has no entry makes room. *)
hitLocal(rep, c) ==
    LET table  == counters[rep]
        isNew  == table[c] = NoCounter
        isFull == Cardinality(Kept(table)) >= Capacity[rep]
        room   == IF isNew /\ isFull THEN evictOldest(table) ELSE table
    IN  Charge(room, IF isNew /\ Cardinality(Kept(room)) >= Capacity[rep] THEN SlotOf[c] ELSE c)

(* HIT_SCRIPT, which Redis runs as one step. *)
Counted(c)   == IF Open(counters[Shared][c]) THEN cardinality ELSE Bump(cardinality)
hitShared(c) ==
    Charge(counters[Shared],
           IF ~ Open(counters[Shared][c]) /\ Counted(c).count > Capacity[Shared] THEN SlotOf[c] ELSE c)

NextPass(log) == <<now, Cardinality({e \in log : e[1] = now}) + 1>>

(* The limiter's check: count <= limit *)
Passed(s, hit) ==
    passes' = IF hit.table[hit.cell].count <= Limit
              THEN [passes EXCEPT ![s][hit.cell] = @ \cup {NextPass(@)}] ELSE passes

-----------------------------------------------------------------------------
Hit(c) ==
    LET hit == hitShared(c)
    IN  /\ counters' = [counters EXCEPT ![Shared] = hit.table]
        /\ cardinality' = Counted(c)
        /\ Passed(Shared, hit)
        /\ UNCHANGED now

(* Redis is not configured, or the request failed without effect. *)
HitFallback(rep, c) ==
    LET hit == hitLocal(rep, c)
    IN  /\ counters' = [counters EXCEPT ![rep] = hit.table]
        /\ Passed(rep, hit)
        /\ UNCHANGED <<now, cardinality>>

(* The request had its effect and its answer was late: both stores count. *)
HitTwice(rep, c) ==
    LET hit == hitLocal(rep, c)
    IN  /\ counters' = [counters EXCEPT ![Shared] = hitShared(c).table, ![rep] = hit.table]
        /\ cardinality' = Counted(c)
        /\ Passed(rep, hit)
        /\ UNCHANGED now

(* resetByPrefix clears the client's counter here and, unless the requests  *)
(* fail, in Redis; not the slot it may be folded into.                      *)
resetByPrefix(rep, c) ==
    \E where \in {{rep}, {rep, Shared}} :
        /\ counters' = [s \in Store |-> IF s \in where THEN [counters[s] EXCEPT ![c] = NoCounter] ELSE counters[s]]
        /\ passes' = [s \in Store |-> IF s \in where THEN [passes[s] EXCEPT ![c] = {}] ELSE passes[s]]
        /\ UNCHANGED <<now, cardinality>>

(* clear empties the store here and, unless the requests fail, the whole    *)
(* namespace in Redis, cardinality and overflow included.                   *)
clear(rep) ==
    \E where \in {{rep}, {rep, Shared}} :
        /\ counters' = [s \in Store |-> IF s \in where THEN [x \in Cell |-> NoCounter] ELSE counters[s]]
        /\ passes' = [s \in Store |-> IF s \in where THEN [x \in Cell |-> {}] ELSE passes[s]]
        /\ cardinality' = IF Shared \in where THEN NoCounter ELSE cardinality
        /\ UNCHANGED now

(* The cleanup interval *)
removeExpired(rep) ==
    /\ counters' = [counters EXCEPT ![rep] = WithoutExpired(@)]
    /\ UNCHANGED <<now, cardinality, passes>>

(* A new process starts with an empty store. *)
Restart(rep) ==
    /\ counters' = [counters EXCEPT ![rep] = [x \in Cell |-> NoCounter]]
    /\ passes' = [passes EXCEPT ![rep] = [x \in Cell |-> {}]]
    /\ UNCHANGED <<now, cardinality>>

(* Redis drops a key when its time is over; passes are forgotten when a     *)
(* window has gone by.                                                      *)
RateTick ==
    /\ now < MaxTime
    /\ now' = now + 1
    /\ counters' = [counters EXCEPT ![Shared] = [x \in Cell |-> IF now + 1 < @[x].until THEN @[x] ELSE NoCounter]]
    /\ cardinality' = IF now + 1 < cardinality.until THEN cardinality ELSE NoCounter
    /\ passes' = [s \in Store |-> [x \in Cell |-> {e \in passes[s][x] : now + 1 < e[1] + Window}]]

RateNext ==
    \/ \E c \in Client :
          \/ Hit(c)
          \/ \E rep \in Replica : HitFallback(rep, c) \/ HitTwice(rep, c) \/ resetByPrefix(rep, c)
    \/ \E rep \in Replica : clear(rep) \/ removeExpired(rep) \/ Restart(rep)
    \/ RateTick

RateSpec == RateInit /\ [][RateNext]_rateVars

-----------------------------------------------------------------------------
(* "That bounds the live keyspace at roughly maxKeys": a store in memory    *)
(* keeps its capacity, and Redis holds the counters of two windows of its   *)
(* cardinality counter at most.                                             *)
KeyspaceBounded ==
    /\ \A rep \in Replica : Cardinality(Kept(counters[rep])) <= Capacity[rep]
    /\ Cardinality(Kept(counters[Shared])) <= 2 * Capacity[Shared]

RateTypeOK ==
    /\ now \in Nat
    /\ counters \in [Store -> [Cell -> Counter \cup {NoCounter}]]
    /\ cardinality \in Counter \cup {NoCounter}
    /\ passes \in [Store -> [Cell -> SUBSET (Nat \X Nat)]]
    /\ KeyspaceBounded

(* "A degraded limit for new clients, never no limit at all": in any        *)
(* interval of the length of a window a counter lets twice its limit pass   *)
(* at most, on either side of the end of a fixed window.  Filling the       *)
(* store, failing requests and falling back and forth change nothing of it. *)
NeverNoLimit == \A s \in Store, x \in Cell : Cardinality(passes[s][x]) <= 2 * Limit
=============================================================================
