---------------------------- MODULE MCDeployment ----------------------------
(* The components that the replicas of a deployment share through MongoDB,  *)
(* Redis and the disk.  They have only the clock in common, so a behaviour  *)
(* exercises one of them, its subject, and leaves the others as they are.   *)
EXTENDS SystemSetup, LegacySessions, RateLimitStore, CronJobs, TusUpload, PubSub, FileStore

CONSTANTS boot1, boot2, http, r1, r2, slot, file1, file2, x1, x2, x3, x4

VARIABLE subject

(* Callers that are alike begin in turn: of two that are new before a step,  *)
(* the one that comes later is not taken while the other one stays new.     *)
(* That cuts off renamings of behaviours only                              *)
Turn == <<x1, x2, x3, x4>>
InTurn(new, still) ==
    \A i, j \in DOMAIN Turn :
        i < j /\ {Turn[i], Turn[j]} \subseteq new /\ Turn[j] \notin still => Turn[i] \notin still

(* setup: two replicas boot with the same address, and a caller of the      *)
(* public endpoint has another one; one of the three may die or fail        *)
Addresses == [c \in Creator |-> IF c = http THEN "visitor" ELSE "admin"]
Skews     == [c \in Creator |-> IF c = boot2 THEN 1 ELSE 0]
OneFails  == Cardinality({c \in Creator : pc[c] \in {"crashed", "release", "failed"}}) <= 1

(* sessions: three calls, the first two at a time if one of them deals in    *)
(* tokens, the third by itself once they have ended                        *)
Uncalled == {c \in Call : at[c] = "idle"}
TwoCalls ==
    \A b, c \in Call : Pending(b) /\ Pending(c) /\ b # c =>
        /\ x3 \notin {b, c}
        /\ \A d \in Call \ {b, c} : ~ Pending(d)
        /\ {request[b].op, request[c].op} \cap {"signIn", "refresh"} # {}

(* rates: stores of one counter, one overflow slot, and a single replica     *)
(* that falls back to its own store                                        *)
Folds == [c \in Client |-> slot]
Unseen == {c \in Client : \A s \in Store : counters[s][c] = NoCounter /\ passes[s][c] = {}}
Caps  == [s \in Replica \cup {Shared} |-> 1]

(* cron: one thing goes wrong, or is done by hand *)
Incidents == Cardinality({rep \in Replica : up[rep] \in {"draining", "gone"}})
             + Cardinality(openly) + Cardinality({rep \in Replica : ticks[rep][Manual] # "none"})

(* tus: of all requests one fails or is overtaken; the third one begins once *)
(* the first one is over                                                   *)
Unserved == {r \in Request : requests[r].at = "idle"}
OneLapse ==
    /\ Cardinality(lapsed \cup {r \in Request : requests[r].at \in {"crashed", "failed"}}) <= 1
    /\ requests[x3].at # "idle" => ~ Served(x1)

(* pubsub *)
Silent == {l \in Listener : listeners[l].at = "idle"}

(* files: two of two owners at first; the first call creates or deletes for  *)
(* somebody who is signed in, the second one is any call of anybody         *)
Uploads   == <<file1, file2>>
OneTenant == [p \in Person |-> "tenant"]
OneWrites ==
    /\ transfers[x1].op \in {"none", "createFile", "deleteFile"}
    /\ transfers[x1].op # "none" => transfers[x1].by # Anonymous

setupState    == <<claim, users, accounts, admins, pc, began, unheard>>
sessionsState == <<document, minted, clients, callVars, seen, alone>>
ratesState    == <<counters, cardinality, passes>>
cronState     == <<bullMq, queued, up, drainBy, ticks, leases, executed, openly, lost>>
tusState      == <<staging, staged, touched, stored, holder, lockUntil, requests, sweep, lapsed, removed, cut>>
allVars == <<now, setupState, sessionsState, ratesState, cronState, tusState, pubSubVars, fileVars, subject>>

Subject == {"setup", "sessions", "rates", "cron", "tus", "pubsub", "files"}
Until   == [setup |-> 4, sessions |-> 2, rates |-> 2, cron |-> 2, tus |-> 2, pubsub |-> 0, files |-> 0]

MCInit ==
    /\ SetupInit /\ SessionsInit /\ RateInit /\ CronInit /\ TusInit /\ PubSubInit /\ FilesInit
    /\ subject \in Subject
    /\ subject = "cron" \/ ~ bullMq
    /\ subject = "tus" \/ (staging = "disk" /\ \A r \in Request : requests[r].offset = 0)
    /\ IF subject = "files" THEN files[file1].key # files[file2].key
       ELSE \A f \in Given : files[f].store = "gridfs" /\ files[f].key = NoKey

MCNext ==
    /\ \/ /\ subject = "setup" /\ SetupNext /\ OneFails'
          /\ UNCHANGED <<sessionsState, ratesState, cronState, tusState, pubSubVars, fileVars>>
       \/ /\ subject = "sessions" /\ SessionsNext /\ TwoCalls' /\ InTurn(Uncalled, Uncalled')
          /\ UNCHANGED <<setupState, ratesState, cronState, tusState, pubSubVars, fileVars>>
       \/ /\ subject = "rates" /\ RateNext /\ UNCHANGED counters[r2] /\ InTurn(Unseen, Unseen')
          /\ UNCHANGED <<sessionsState, setupState, cronState, tusState, pubSubVars, fileVars>>
       \/ /\ subject = "cron" /\ CronNext /\ Incidents' <= 1
          /\ UNCHANGED <<sessionsState, setupState, ratesState, tusState, pubSubVars, fileVars>>
       \/ /\ subject = "tus" /\ TusNext /\ OneLapse' /\ InTurn(Unserved, Unserved')
          /\ UNCHANGED <<sessionsState, setupState, ratesState, cronState, pubSubVars, fileVars>>
       \/ /\ subject = "pubsub" /\ PubSubNext /\ InTurn(Silent, Silent')
          /\ UNCHANGED <<now, sessionsState, setupState, ratesState, cronState, tusState, fileVars>>
       \/ /\ subject = "files" /\ FilesNext /\ OneWrites'
          /\ UNCHANGED <<now, sessionsState, setupState, ratesState, cronState, tusState, pubSubVars>>
    /\ now' <= Until[subject]
    /\ UNCHANGED subject

MCSpec == MCInit /\ [][MCNext]_allVars

DeploymentTypeOK ==
    CASE subject = "setup"    -> SetupTypeOK
      [] subject = "sessions" -> SessionsTypeOK
      [] subject = "rates"    -> RateTypeOK
      [] subject = "cron"     -> CronTypeOK
      [] subject = "tus"      -> TusTypeOK
      [] subject = "pubsub"   -> PubSubTypeOK
      [] subject = "files"    -> FilesTypeOK
=============================================================================
