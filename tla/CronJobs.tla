------------------------------ MODULE CronJobs ------------------------------
(***************************************************************************)
(* One distributed cron job on the replicas of a deployment                *)
(* (src/core/common/services/core-cron-jobs.service.ts): its timer on      *)
(* every replica, the lease each tick needs, runOnInit, the trigger of the *)
(* Hub, and the bounded wait for running jobs at a shutdown.  With BullMQ  *)
(* the queue hands each tick to one replica instead.                       *)
(*                                                                         *)
(* A request for a lease may fail before or after it took effect.          *)
(***************************************************************************)
EXTENDS Replicas

CONSTANTS
    Fires,        \* the times the job is scheduled for
    Lag,          \* the longest a timer or a request for a lease is late
    LeaseTtl,     \* CRON_LOCK_TTL_SECONDS
    InitTtl,      \* CRON_INIT_LOCK_TTL_SECONDS
    DrainTime,    \* timeoutMs of drainRunningJobs
    RunParallel   \* the most executions of one process at a time

ASSUME CronAssumption == /\ Fires \subseteq 1..MaxTime
                         /\ {Lag, InitTtl, DrainTime} \subseteq Nat
                         /\ LeaseTtl \in Nat /\ Lag < LeaseTtl
                         /\ RunParallel \in Nat \ {0}

VARIABLES
    bullMq,     \* the job is a scheduler of BullMQ
    queued,     \* its ticks that wait in the queue
    up,         \* each process: not started, running, draining or gone
    drainBy,    \* when a draining process stops to wait
    ticks,      \* what each process does about each tick
    leases,     \* until when each lease is held
    executed,   \* history: ticks somebody ran
    openly,     \* history: those that were run without their lease
    lost        \* history: ticks whose holder died, or was busy with another

cronVars == <<now, bullMq, queued, up, drainBy, ticks, leases, executed, openly, lost>>

(* The startup run and a manual one are ticks without a time. *)
StartUp == 0
Manual  == -1
Tick  == Fires \cup {StartUp, Manual}
Stage == {"none", "leasing", "running", "ended"}

CronInit ==
    /\ now = 0
    /\ bullMq \in BOOLEAN
    /\ queued = {}
    /\ up = [rep \in Replica |-> "off"]
    /\ drainBy = [rep \in Replica |-> 0]
    /\ ticks = [rep \in Replica |-> [t \in Tick |-> "none"]]
    /\ leases = [t \in Tick |-> 0]
    /\ executed = {}
    /\ openly = {}
    /\ lost = {}

Serving(rep) == up[rep] \in {"up", "draining"}
Running(rep) == {t \in Tick : ticks[rep][t] = "running"}

To(rep, t, stage) == ticks' = [ticks EXCEPT ![rep][t] = stage]
History == UNCHANGED <<executed, openly, lost>>
Process == UNCHANGED <<now, bullMq, up, drainBy>>

-----------------------------------------------------------------------------
(* onApplicationBootstrap registers the job; runOnInit is its default. *)
Register(rep) ==
    /\ up[rep] = "off"
    /\ up' = [up EXCEPT ![rep] = "up"]
    /\ To(rep, StartUp, "leasing")
    /\ History /\ UNCHANGED <<now, bullMq, queued, drainBy, leases>>

(* lastDate of the timer, which onTick also notes for itself *)
lastDate(rep) == LET fired == {f \in Fires : ticks[rep][f] # "none"}
                 IN  IF fired = {} THEN 0 ELSE CHOOSE f \in fired : \A g \in fired : g <= f

(* The timer of a replica; the timers of a process that drains are still    *)
(* set.                                                                     *)
Fire(rep, f) ==
    /\ ~ bullMq /\ Serving(rep)
    /\ now \in f..(f + Lag)
    /\ ticks[rep][f] = "none"
    /\ To(rep, f, "leasing")
    /\ History /\ Process /\ UNCHANGED <<queued, leases>>

(* The tick that a manual trigger becomes: a timer that has not fired yet,  *)
(* and the registry entry of a BullMQ job, take it for the startup run.     *)
Triggered(rep) == IF bullMq \/ lastDate(rep) = 0 THEN StartUp ELSE Manual

Trigger(rep) ==
    LET t == Triggered(rep)
    IN  /\ up[rep] = "up"
        /\ ticks[rep][t] \in {"none", "ended"}
        /\ To(rep, t, "leasing")
        /\ History /\ Process /\ UNCHANGED <<queued, leases>>

-----------------------------------------------------------------------------
(* Mutant: every lease has the life of the startup one. *)
TtlOfInit(t) == InitTtl

Ttl(t) == IF t = StartUp THEN InitTtl ELSE LeaseTtl

(* A manual run has a key that nobody else has. *)
Held(t) == t # Manual /\ now < leases[t]

(* runTick after the lease: it gives up when the process is busy. *)
runTick(rep, t) ==
    IF Cardinality(Running(rep)) >= RunParallel
    THEN To(rep, t, "ended") /\ lost' = lost \cup {t} /\ UNCHANGED executed
    ELSE To(rep, t, "running") /\ executed' = executed \cup {t} /\ UNCHANGED lost

acquireLease(rep, t) ==
    /\ Serving(rep) /\ ticks[rep][t] = "leasing"
    /\ IF Held(t) THEN To(rep, t, "ended") /\ History /\ UNCHANGED leases
       ELSE /\ leases' = [leases EXCEPT ![t] = now + Ttl(t)]
            /\ runTick(rep, t)
            /\ UNCHANGED openly
    /\ Process /\ UNCHANGED queued

(* Mutant: a lease that cannot be asked for is not held. *)
FailClosed(rep, t) ==
    /\ Serving(rep) /\ ticks[rep][t] = "leasing"
    /\ leases' \in {leases, IF Held(t) THEN leases ELSE [leases EXCEPT ![t] = now + Ttl(t)]}
    /\ To(rep, t, "ended")
    /\ History /\ Process /\ UNCHANGED queued

(* The request fails, or its answer does: the tick is run anyway. *)
failOpen(rep, t) ==
    /\ Serving(rep) /\ ticks[rep][t] = "leasing"
    /\ leases' \in {leases, IF Held(t) THEN leases ELSE [leases EXCEPT ![t] = now + Ttl(t)]}
    /\ runTick(rep, t)
    /\ openly' = openly \cup (executed' \cap {t})
    /\ Process /\ UNCHANGED queued

(* The job returns or throws: it leaves the running ones either way. *)
Finish(rep, t) ==
    /\ Serving(rep) /\ ticks[rep][t] = "running"
    /\ To(rep, t, "ended")
    /\ History /\ Process /\ UNCHANGED <<queued, leases>>

(* The queue of BullMQ: a tick is due, and one worker takes it. *)
Enqueue(f) ==
    /\ bullMq /\ now = f /\ f \notin queued \cup executed \cup lost
    /\ \E rep \in Replica : up[rep] # "off"
    /\ queued' = queued \cup {f}
    /\ History /\ Process /\ UNCHANGED <<ticks, leases>>

(* The worker is closed after the drain only. *)
Take(rep, f) ==
    /\ Serving(rep) /\ f \in queued
    /\ queued' = queued \ {f}
    /\ runTick(rep, f)
    /\ Process /\ UNCHANGED <<leases, openly>>

-----------------------------------------------------------------------------
(* A process that dies takes the ticks along that it has a lease for, or    *)
(* whose request for one is on its way.  BullMQ may hand a stalled one to   *)
(* another worker.                                                          *)
Leave(rep) ==
    \E taken \in SUBSET {t \in Tick : ticks[rep][t] = "leasing" /\ ~ Held(t)} :
        /\ up' = [up EXCEPT ![rep] = "gone"]
        /\ drainBy' = [drainBy EXCEPT ![rep] = 0]
        /\ leases' = [t \in Tick |-> IF t \in taken THEN now + Ttl(t) ELSE leases[t]]
        /\ lost' = lost \cup Running(rep) \cup taken
        /\ ticks' = [ticks EXCEPT ![rep] = [t \in Tick |->
                        IF @[t] = "leasing" /\ t \notin taken THEN "none"
                        ELSE IF @[t] = "none" THEN "none" ELSE "ended"]]
        /\ queued' \in {queued, IF bullMq THEN queued \cup (Running(rep) \cap Fires) ELSE queued}
        /\ UNCHANGED <<now, bullMq, executed, openly>>

Die(rep) == Serving(rep) /\ Leave(rep)

Shutdown(rep) ==
    /\ up[rep] = "up"
    /\ up' = [up EXCEPT ![rep] = "draining"]
    /\ drainBy' = [drainBy EXCEPT ![rep] = now + DrainTime]
    /\ History /\ UNCHANGED <<now, bullMq, queued, ticks, leases>>

(* drainRunningJobs: nothing runs, or the time is over. *)
Drained(rep) ==
    /\ up[rep] = "draining"
    /\ Running(rep) = {} \/ now >= drainBy[rep]
    /\ Leave(rep)

(* A request for a lease waits for Lag at most, from the time of the tick.  *)
CronTick ==
    /\ now < MaxTime
    /\ \A rep \in Replica, f \in Fires : ticks[rep][f] = "leasing" => now < f + Lag
    /\ now' = now + 1
    /\ History /\ UNCHANGED <<bullMq, queued, up, drainBy, ticks, leases>>

CronNext ==
    \/ \E rep \in Replica :
          \/ Register(rep) \/ Trigger(rep) \/ Die(rep) \/ Shutdown(rep) \/ Drained(rep)
          \/ \E f \in Fires : Fire(rep, f) \/ Take(rep, f)
          \/ \E t \in Tick : acquireLease(rep, t) \/ failOpen(rep, t) \/ Finish(rep, t)
    \/ \E f \in Fires : Enqueue(f)
    \/ CronTick

CronSpec == CronInit /\ [][CronNext]_cronVars

-----------------------------------------------------------------------------
CronTypeOK ==
    /\ now \in Nat /\ bullMq \in BOOLEAN
    /\ queued \subseteq Fires
    /\ up \in [Replica -> {"off", "up", "draining", "gone"}]
    /\ drainBy \in [Replica -> Nat]
    /\ ticks \in [Replica -> [Tick -> Stage]]
    /\ leases \in [Tick -> Nat]
    /\ openly \subseteq executed /\ executed \cup lost \subseteq Tick

(* "Only ONE replica executes each tick", however late the timers are: the  *)
(* lease of a scheduled tick is given once, and that of the startup run     *)
(* once in the time in which "a fleet counts as starting up", so that two   *)
(* executions of a tick mean that a request for its lease failed.           *)
WonOnce ==
    [][\A t \in Tick \ {Manual}, r, s \in Replica :
          /\ leases'[t] # leases[t] /\ leases[t] # 0 => t = StartUp /\ now >= leases[t]
          /\ {t} \subseteq Running(r)' \cap Running(s)' /\ r # s
                => t \in openly' \/ t = StartUp]_cronVars

(* "A missing lock must never stop the job": when a replica is through with *)
(* a tick, it has been executed, here or elsewhere, or the process that had *)
(* its lease died or was busy with an earlier execution.                    *)
NoTickLost == \A t \in Tick, rep \in Replica : ticks[rep][t] = "ended" => t \in executed \cup lost
=============================================================================
