-------------------------- MODULE DeploymentProofs --------------------------
(***************************************************************************)
(* Services that replicas share: the upload and its lock, the subscriptions *)
(* of a Redis channel, the refresh tokens of an account, cron jobs and rate *)
(* limits.                                                                  *)
(***************************************************************************)
EXTENDS TusUpload, PubSub, LegacySessions, CronJobs, RateLimitStore, SequenceTheorems, FiniteSetTheorems, TLAPS

-----------------------------------------------------------------------------
(* Uploads, for any number of requests, any size and all times to live.     *)

LEMMA TusTypes == TusSpec => []TusTypeOK
<1>1. TusInit => TusTypeOK
  <2> SUFFICES ASSUME TusInit PROVE TusTypeOK
    OBVIOUS
  <2>1. requests \in [Request -> [at : Phases, offset : {Delete} \cup 0..Size]]
    BY DEF TusInit, Phases
  <2>2. 0 \in 0..Size
    BY TusAssumption
  <2>3. staged \in {NoUpload} \cup 0..Size /\ stored \in 0..2 /\ {now, touched, lockUntil} \subseteq Nat
    BY <2>2 DEF TusInit
  <2> QED BY <2>1, <2>3 DEF TusInit, TusTypeOK
<1>2. TusTypeOK /\ [TusNext]_tusVars => TusTypeOK'
  <2> SUFFICES ASSUME TusTypeOK, [TusNext]_tusVars PROVE TusTypeOK'
    OBVIOUS
  <2> USE TusAssumption DEF TusTypeOK, Phases, Inside, Move, Is, Lock, Upload, Others, NoUpload
  <2>1. ASSUME NEW r \in Request, RequestStep(r) PROVE TusTypeOK'
    <3>1. CASE lock(r)
      BY <3>1 DEF lock
    <3>2. CASE Timeout(r)
      BY <3>2 DEF Timeout
    <3>3. CASE heartbeat(r)
      BY <3>3 DEF heartbeat
    <3>4. CASE unlock(r)
      BY <3>4 DEF unlock
    <3>5. CASE Read(r)
      BY <3>5 DEF Read
    <3>6. CASE Write(r)
      BY <3>6 DEF Write, Delete
    <3>7. CASE Terminate(r)
      BY <3>7 DEF Terminate
    <3>8. CASE readStagedUpload(r)
      BY <3>8 DEF readStagedUpload
    <3>9. CASE writeFile(r)
      BY <3>9 DEF writeFile
    <3>10. CASE deleteStagedUpload(r)
      BY <3>10 DEF deleteStagedUpload
    <3>11. CASE Break(r)
      BY <3>11 DEF Break
    <3> QED BY <2>1, <3>1, <3>2, <3>3, <3>4, <3>5, <3>6, <3>7, <3>8, <3>9, <3>10, <3>11 DEF RequestStep
  <2>2. CASE FindExpired \/ DeleteExpired
    BY <2>2 DEF FindExpired, DeleteExpired
  <2>3. CASE TusTick
    BY <2>3 DEF TusTick
  <2>4. CASE UNCHANGED tusVars
    BY <2>4 DEF tusVars
  <2> QED BY <2>1, <2>2, <2>3, <2>4 DEF TusNext
<1> QED BY <1>1, <1>2, PTL DEF TusSpec

(* A request that is served has the lock, or has lost it: it is the lock in *)
(* Redis that is shared, so two requests are compared through it.           *)
HasLock == \A r \in Request : Served(r) => holder = r \/ r \in lapsed

(* A second copy is on its way when somebody stores what is stored already, *)
(* so whoever has stored an upload is the only one at work until the staged *)
(* one is gone.                                                             *)
StoredOnce ==
    cut \/ lapsed # {} \/
      /\ stored <= 1
      /\ stored = 1 => /\ staged = NoUpload \/ \E r \in Request : Is(r, "cleaning")
                       /\ \A r \in Request : ~ Is(r, "storing")

CleansWhatIsStored == \A r \in Request : Is(r, "cleaning") => stored > 0

UploadInv == HasLock /\ CleansWhatIsStored /\ StoredOnce /\ NothingLost

(* Of two requests that are served one has lost its lock.                   *)
LEMMA HasLockSuffices == HasLock => OneWriter
BY DEF HasLock, OneWriter

LEMMA UploadStep == ASSUME TusTypeOK, UploadInv, [TusNext]_tusVars PROVE UploadInv'
<1> USE TusAssumption DEF TusTypeOK, Served, Is, Move, Inside
<1>1. HasLock'
  <2> USE DEF UploadInv, HasLock
  <2>1. ASSUME NEW r \in Request, RequestStep(r) PROVE HasLock'
    <3>1. CASE lock(r)
      BY <3>1 DEF lock
    <3>2. CASE heartbeat(r)
      BY <3>2 DEF heartbeat
    <3>3. CASE unlock(r)
      BY <3>3 DEF unlock
    <3>4. CASE ~ (lock(r) \/ heartbeat(r) \/ unlock(r))
      BY <2>1, <3>4 DEF RequestStep, Timeout, Read, Write, Terminate, readStagedUpload, writeFile, deleteStagedUpload, Break, Lock
    <3> QED BY <3>1, <3>2, <3>3, <3>4
  <2>2. CASE TusTick
    BY <2>2 DEF TusTick
  <2>3. CASE FindExpired \/ DeleteExpired \/ UNCHANGED tusVars
    BY <2>3 DEF FindExpired, DeleteExpired, tusVars, Lock
  <2> QED BY <2>1, <2>2, <2>3 DEF TusNext
<1>2. CleansWhatIsStored' /\ NothingLost'
  <2> USE DEF UploadInv, CleansWhatIsStored, NothingLost, Lock, Upload, Others, NoUpload
  <2>1. ASSUME NEW r \in Request, RequestStep(r) PROVE CleansWhatIsStored' /\ NothingLost'
    <3>1. CASE Write(r)
      BY <3>1 DEF Write, Delete
    <3>2. CASE writeFile(r)
      BY <3>2 DEF writeFile
    <3>3. CASE deleteStagedUpload(r)
      BY <3>3 DEF deleteStagedUpload
    <3>4. CASE Terminate(r)
      BY <3>4 DEF Terminate
    <3>5. CASE ~ (Write(r) \/ writeFile(r) \/ deleteStagedUpload(r) \/ Terminate(r))
      BY <2>1, <3>5 DEF RequestStep, lock, Timeout, heartbeat, unlock, Read, readStagedUpload, Break
    <3> QED BY <3>1, <3>2, <3>3, <3>4, <3>5
  <2>2. CASE FindExpired \/ DeleteExpired \/ TusTick \/ UNCHANGED tusVars
    BY <2>2 DEF FindExpired, DeleteExpired, TusTick, tusVars
  <2> QED BY <2>1, <2>2 DEF TusNext
<1>3. StoredOnce'
  <2>1. CASE cut' \/ lapsed' # {}
    BY <2>1 DEF StoredOnce
  <2> SUFFICES ASSUME ~ cut', lapsed' = {} PROVE StoredOnce'
    BY <2>1
  <2>2. ~ cut /\ lapsed = {}
    <3> SUFFICES (cut => cut') /\ lapsed \subseteq lapsed'
      OBVIOUS
    <3>1. ASSUME NEW r \in Request, RequestStep(r) PROVE (cut => cut') /\ lapsed \subseteq lapsed'
      BY <3>1 DEF RequestStep, lock, Timeout, heartbeat, unlock, Read, Write, Terminate, readStagedUpload, writeFile, deleteStagedUpload, Break, Lock, Upload
    <3> QED BY <3>1 DEF TusNext, FindExpired, DeleteExpired, TusTick, tusVars, Lock, Upload
  <2>3. \A r, s \in Request : Served(r) /\ Served(s) => r = s
    BY <2>2 DEF UploadInv, HasLock
  <2> USE <2>2, <2>3 DEF UploadInv, StoredOnce, Lock, Upload, Others, NoUpload
  <2>4. ASSUME NEW r \in Request, RequestStep(r) PROVE StoredOnce'
    <3>1. CASE Write(r)
      BY <3>1 DEF Write
    <3>2. CASE readStagedUpload(r)
      BY <3>2 DEF readStagedUpload
    <3>3. CASE writeFile(r)
      BY <3>3 DEF writeFile
    <3>4. CASE deleteStagedUpload(r)
      BY <3>4 DEF deleteStagedUpload
    <3>5. CASE Terminate(r)
      BY <3>5 DEF Terminate
    <3>6. CASE ~ (Write(r) \/ readStagedUpload(r) \/ writeFile(r) \/ deleteStagedUpload(r) \/ Terminate(r))
      <4>1. UNCHANGED <<stored, staged>>
        BY <2>4, <3>6 DEF RequestStep, lock, Timeout, heartbeat, unlock, Read, Break
      <4>2. \A s \in Request : (Is(s, "storing")' => Is(s, "storing")) /\ (Is(s, "cleaning") => Is(s, "cleaning")')
        <5>1. CASE Break(r)
          <6>1. ~ Is(r, "cleaning")
            BY <5>1 DEF Break
          <6> QED BY <5>1, <6>1 DEF Break
        <5> QED BY <2>4, <3>6, <5>1 DEF RequestStep, lock, Timeout, heartbeat, unlock, Read
      <4> QED BY <4>1, <4>2
    <3> QED BY <3>1, <3>2, <3>3, <3>4, <3>5, <3>6
  <2>5. CASE FindExpired \/ DeleteExpired \/ TusTick \/ UNCHANGED tusVars
    BY <2>5 DEF FindExpired, DeleteExpired, TusTick, tusVars
  <2> QED BY <2>4, <2>5 DEF TusNext
<1> QED BY <1>1, <1>2, <1>3 DEF UploadInv

LEMMA UploadInvariant == TusSpec => [](TusTypeOK /\ UploadInv)
<1>1. TusInit => UploadInv
  BY DEF TusInit, UploadInv, HasLock, CleansWhatIsStored, StoredOnce, NothingLost, Served, Is, Inside, NoUpload
<1>2. TusTypeOK /\ UploadInv /\ [TusNext]_tusVars => UploadInv'
  BY UploadStep
<1> QED BY <1>1, <1>2, TusTypes, PTL DEF TusSpec

(* The locker keeps two replicas from writing into one upload, as long as   *)
(* no heartbeats fail for the time to live of a lock.                       *)
THEOREM OneWriterCorrect == TusSpec => []OneWriter
<1>1. UploadInv => OneWriter
  BY HasLockSuffices DEF UploadInv
<1> QED BY <1>1, UploadInvariant, PTL

(* In every order of failures, crashes and lapsed locks an upload that was  *)
(* accepted is staged or stored until it is deleted, and stored twice only  *)
(* if a request was cut off before it cleaned up, or lost its lock.         *)
THEOREM UploadKeptCorrect == TusSpec => []UploadKept
<1>1. TusTypeOK /\ UploadInv => UploadKept
  BY DEF TusTypeOK, UploadInv, StoredOnce, UploadKept, TwiceOnlyIfCut
<1> QED BY <1>1, UploadInvariant, PTL

-----------------------------------------------------------------------------
(* Subscriptions, for any number of listeners.                              *)

(* What a command that is sent, or answered, does to the wire. *)
LEMMA Sent ==
  ASSUME NEW S, NEW s \in Seq(S), NEW x \in S
  PROVE  LET t == Append(s, x)
         IN  /\ t \in Seq(S) /\ t # <<>> /\ t[Len(t)] = x
             /\ \A i \in DOMAIN t : (t[i] = x /\ i = Len(s) + 1) \/ (i \in DOMAIN s /\ t[i] = s[i])
<1> DEFINE t == Append(s, x)
<1>1. /\ t \in Seq(S) /\ t # <<>> /\ Len(t) = Len(s) + 1 /\ t[Len(s) + 1] = x
      /\ \A i \in 1..Len(s) : t[i] = s[i]
  BY AppendProperties
<1> HIDE DEF t
<1>2. Len(s) \in Nat /\ DOMAIN s = 1..Len(s) /\ DOMAIN t = 1..Len(t)
  BY <1>1, LenProperties
<1>3. \A i \in DOMAIN t : (t[i] = x /\ i = Len(s) + 1) \/ (i \in DOMAIN s /\ t[i] = s[i])
  BY <1>1, <1>2
<1>4. t[Len(t)] = x
  BY <1>1
<1> QED BY <1>1, <1>3, <1>4 DEF t

LEMMA Answered ==
  ASSUME NEW S, NEW s \in Seq(S), s # <<>>
  PROVE  LET t == Tail(s)
         IN  /\ t \in Seq(S) /\ Head(s) = s[1] /\ s[1] \in S /\ 1 \in DOMAIN s
             /\ \A i \in DOMAIN t : i + 1 \in DOMAIN s /\ i + 1 # 1 /\ t[i] = s[i + 1] /\ i \in Nat /\ t[i] \in S
             /\ IF t = <<>> THEN s[Len(s)] = s[1] ELSE t[Len(t)] = s[Len(s)]
<1> DEFINE t == Tail(s)
<1>1. t \in Seq(S) /\ Len(t) = Len(s) - 1 /\ \A i \in 1..Len(t) : t[i] = s[i + 1]
  BY HeadTailProperties
<1>2. Len(s) \in Nat \ {0} /\ DOMAIN s = 1..Len(s) /\ \A i \in DOMAIN s : s[i] \in S
  BY EmptySeq, LenProperties
<1>3. Head(s) = s[1]
  OBVIOUS
<1> HIDE DEF t
<1>4. Len(t) \in Nat /\ DOMAIN t = 1..Len(t)
  BY <1>1, LenProperties
<1>5. \A i \in DOMAIN t : i + 1 \in DOMAIN s /\ i + 1 # 1 /\ t[i] = s[i + 1] /\ i \in Nat /\ t[i] \in S
  BY <1>1, <1>2, <1>4
<1>6. s[1] \in S /\ 1 \in DOMAIN s
  BY <1>2
<1>7. IF t = <<>> THEN s[Len(s)] = s[1] ELSE t[Len(t)] = s[Len(s)]
  <2>1. CASE t = <<>>
    BY <1>1, <1>2, <2>1, EmptySeq
  <2>2. CASE t # <<>>
    <3>1. Len(t) # 0
      BY <1>1, <2>2, EmptySeq
    <3> QED BY <1>1, <1>2, <1>4, <2>2, <3>1
  <2> QED BY <2>1, <2>2
<1> QED BY <1>1, <1>3, <1>5, <1>6, <1>7 DEF t

WireCommand == [cmd : {"SUBSCRIBE", "UNSUBSCRIBE"}, by : Listener]

WireTypeOK ==
    /\ handlers \in Maps
    /\ members \in [Listener -> SUBSET Listener]
    /\ listeners \in [Listener -> [at : Stands, map : Maps]]
    /\ wire \in Seq(WireCommand)
    /\ subscribed \in BOOLEAN /\ overtaken \subseteq Listener

(* Every SUBSCRIBE on the wire is of a listener that waits with a map of its *)
(* own, and nobody waits without one.                                       *)
Awaited ==
    /\ \A i \in DOMAIN wire : wire[i].cmd = "SUBSCRIBE" =>
          listeners[wire[i].by] = [at |-> "waiting", map |-> wire[i].by]
    /\ \A i, j \in DOMAIN wire : wire[i].cmd = "SUBSCRIBE" /\ wire[j].cmd = "SUBSCRIBE" /\ wire[i].by = wire[j].by => i = j

(* While there is a map Redis has subscribed the channel, or will have when *)
(* it has answered every command: nothing is sent after the SUBSCRIBE of a  *)
(* map before the map is dropped.                                           *)
Delivering ==
    handlers # NoMap => IF wire = <<>> THEN subscribed ELSE wire[Len(wire)].cmd = "SUBSCRIBE"

(* Whom nobody has overtaken is in the map of now, or waits to enter it.    *)
InMap ==
    \A l \in Listener : l \notin overtaken =>
        /\ listeners[l].at = "live" => handlers # NoMap /\ l \in members[handlers]
        /\ listeners[l].at = "waiting" => handlers = l

PubSubInv == WireTypeOK /\ Awaited /\ Delivering /\ InMap

LEMMA DeafStep == ASSUME PubSubInv, [PubSubNext]_pubSubVars PROVE PubSubInv'
<1> USE ListenerAssumption DEF PubSubInv, WireTypeOK, Maps, Stands
<1>1. ASSUME NEW l \in Listener, subscribe(l) PROVE PubSubInv'
  <2> USE <1>1 DEF subscribe, SubscribeIf
  <2>1. CASE handlers = NoMap
    <3>1. /\ listeners' = [listeners EXCEPT ![l] = [at |-> "waiting", map |-> l]] /\ handlers' = l
          /\ wire' = Append(wire, [cmd |-> "SUBSCRIBE", by |-> l])
          /\ UNCHANGED <<members, subscribed, overtaken>> /\ listeners[l].at = "idle"
      BY <2>1 DEF Command
    <3> DEFINE x == [cmd |-> "SUBSCRIBE", by |-> l]
    <3>6. x \in WireCommand /\ x.cmd = "SUBSCRIBE" /\ x.by = l
      BY DEF WireCommand
    <3>7. /\ wire' \in Seq(WireCommand) /\ wire' # <<>> /\ wire'[Len(wire')] = x
          /\ \A i \in DOMAIN wire' : (wire'[i] = x /\ i = Len(wire) + 1) \/ (i \in DOMAIN wire /\ wire'[i] = wire[i])
      <4>1. wire' = Append(wire, x)
        BY <3>1
      <4> HIDE DEF x
      <4> QED BY <3>6, <4>1, Sent
    <3> HIDE DEF x
    <3>2. WireTypeOK'
      BY <3>1, <3>7
    <3>8. \A i \in DOMAIN wire : wire[i].cmd = "SUBSCRIBE" => wire[i].by # l
      BY <3>1 DEF Awaited
    <3>3. Awaited'
      BY <3>1, <3>6, <3>7, <3>8 DEF Awaited
    <3>4. Delivering'
      BY <3>6, <3>7 DEF Delivering
    <3>5. InMap'
      BY <2>1, <3>1 DEF InMap
    <3> QED BY <3>2, <3>3, <3>4, <3>5
  <2>2. CASE handlers # NoMap
    <3>1. /\ listeners' = [listeners EXCEPT ![l] = [at |-> "live", map |-> handlers]]
          /\ members' = [members EXCEPT ![handlers] = @ \cup {l}]
          /\ UNCHANGED <<handlers, wire, subscribed, overtaken>> /\ listeners[l].at = "idle"
      BY <2>2 DEF Join
    <3>2. WireTypeOK'
      BY <2>2, <3>1
    <3>3. Awaited'
      BY <3>1 DEF Awaited, WireCommand
    <3>4. Delivering'
      BY <3>1 DEF Delivering
    <3>5. InMap'
      BY <2>2, <3>1 DEF InMap
    <3> QED BY <3>2, <3>3, <3>4, <3>5
  <2> QED BY <2>1, <2>2
<1>2. CASE Subscribed
  <2> DEFINE l == Head(wire).by
  <2>2. /\ wire' \in Seq(WireCommand) /\ wire # <<>> /\ Head(wire) = wire[1] /\ wire[1] \in WireCommand /\ 1 \in DOMAIN wire
        /\ \A i \in DOMAIN wire' : i + 1 \in DOMAIN wire /\ i + 1 # 1 /\ wire'[i] = wire[i + 1] /\ i \in Nat /\ wire'[i] \in WireCommand
        /\ IF wire' = <<>> THEN wire[Len(wire)] = wire[1] ELSE wire'[Len(wire')] = wire[Len(wire)]
    BY <1>2, Answered DEF Subscribed
  <2>1. l \in Listener /\ wire[1].cmd = "SUBSCRIBE" /\ wire[1].by = l /\ listeners[l] = [at |-> "waiting", map |-> l]
    <3>1. wire[1].cmd = "SUBSCRIBE" /\ wire[1].by = l /\ l \in Listener
      BY <1>2, <2>2 DEF Subscribed, WireCommand
    <3> HIDE DEF l
    <3> QED BY <2>2, <3>1 DEF Awaited
  <2>3. \A i \in DOMAIN wire' : wire'[i].cmd = "SUBSCRIBE" => wire'[i].by # l
    BY <2>1, <2>2 DEF Awaited
  <2> HIDE DEF l
  <2>6. \A i, j \in DOMAIN wire' : wire'[i].cmd = "SUBSCRIBE" /\ wire'[j].cmd = "SUBSCRIBE" /\ wire'[i].by = wire'[j].by => i = j
    <3> TAKE i, j \in DOMAIN wire'
    <3>1. i + 1 = j + 1 => i = j
      BY <2>2
    <3> QED BY <2>2, <3>1 DEF Awaited
  <2>7. \A i \in DOMAIN wire' : wire'[i].by \in Listener
    BY <2>2 DEF WireCommand
  <2>4. CASE /\ subscribed' = TRUE /\ Join(l, listeners[l].map) /\ UNCHANGED <<handlers, overtaken>>
    <3>1. /\ listeners' = [listeners EXCEPT ![l] = [at |-> "live", map |-> l]]
          /\ members' = [members EXCEPT ![l] = @ \cup {l}]
      BY <2>1, <2>4 DEF Join
    <3>2. WireTypeOK'
      BY <2>1, <2>2, <2>4, <3>1
    <3>3. Awaited'
      BY <2>1, <2>2, <2>3, <2>6, <2>7, <3>1 DEF Awaited
    <3>4. Delivering'
      BY <2>1, <2>2, <2>4 DEF Delivering
    <3>5. InMap'
      BY <2>1, <2>4, <3>1 DEF InMap
    <3> QED BY <3>2, <3>3, <3>4, <3>5
  <2>5. CASE /\ Put(l, "failed") /\ DropMap /\ Under(IF handlers = NoMap THEN {} ELSE members[handlers])
             /\ UNCHANGED <<members, subscribed>>
    <3>1. /\ listeners' = [listeners EXCEPT ![l].at = "failed"] /\ handlers' = NoMap
          /\ overtaken' = overtaken \cup Are("waiting") \cup (IF handlers = NoMap THEN {} ELSE members[handlers])
      BY <2>5 DEF Put, DropMap, Under
    <3>2. WireTypeOK'
      BY <2>1, <2>2, <2>5, <3>1 DEF Are
    <3>3. Awaited'
      BY <2>1, <2>2, <2>3, <2>6, <2>7, <3>1 DEF Awaited
    <3>4. Delivering'
      BY <3>1 DEF Delivering
    <3>5. InMap'
      BY <2>1, <2>5, <3>1 DEF InMap, Are
    <3> QED BY <3>2, <3>3, <3>4, <3>5
  <2> QED BY <1>2, <2>4, <2>5 DEF Subscribed, l
<1>3. CASE Unsubscribed
  <2>2. /\ wire' \in Seq(WireCommand) /\ wire # <<>> /\ Head(wire) = wire[1]
        /\ \A i \in DOMAIN wire' : i + 1 \in DOMAIN wire /\ wire'[i] = wire[i + 1] /\ i \in Nat /\ wire'[i] \in WireCommand
        /\ IF wire' = <<>> THEN wire[Len(wire)] = wire[1] ELSE wire'[Len(wire')] = wire[Len(wire)]
    BY <1>3, Answered DEF Unsubscribed
  <2>1. /\ wire[1].cmd = "UNSUBSCRIBE"
        /\ subscribed' \in BOOLEAN /\ UNCHANGED <<handlers, members, listeners, overtaken>>
    BY <1>3, <2>2 DEF Unsubscribed
  <2>3. Awaited'
    BY <2>1, <2>2 DEF Awaited
  <2>4. Delivering'
    BY <2>1, <2>2 DEF Delivering
  <2> QED BY <2>1, <2>2, <2>3, <2>4 DEF InMap
<1>4. ASSUME NEW l \in Listener, unsubscribe(l) PROVE PubSubInv'
  <2>1. /\ listeners[l].at = "live" /\ listeners' = [listeners EXCEPT ![l].at = "left"]
        /\ members' = IF handlers = NoMap THEN members ELSE [members EXCEPT ![handlers] = @ \ {l}]
        /\ UNCHANGED subscribed
    BY <1>4 DEF unsubscribe, Put
  <2>2. CASE handlers # NoMap /\ members'[handlers] = {}
    <3>1. /\ handlers' = NoMap /\ overtaken' = overtaken \cup Are("waiting")
          /\ wire' = Append(wire, [cmd |-> "UNSUBSCRIBE", by |-> l])
      BY <1>4, <2>2 DEF unsubscribe, DropMap, Under, Command
    <3> DEFINE x == [cmd |-> "UNSUBSCRIBE", by |-> l]
    <3>6. x \in WireCommand /\ x.cmd = "UNSUBSCRIBE"
      BY DEF WireCommand
    <3> HIDE DEF x
    <3>7. /\ wire' \in Seq(WireCommand)
          /\ \A i \in DOMAIN wire' : wire'[i] = x \/ (i \in DOMAIN wire /\ wire'[i] = wire[i])
          /\ \A i \in DOMAIN wire' : wire'[i] = x => i = Len(wire) + 1 \/ wire[i] = x
      BY <3>1, <3>6, Sent DEF x
    <3>2. WireTypeOK'
      BY <2>1, <3>1, <3>7 DEF Are
    <3>3. Awaited'
      BY <2>1, <3>1, <3>6, <3>7 DEF Awaited, WireCommand
    <3>4. Delivering'
      BY <3>1 DEF Delivering
    <3>5. InMap'
      BY <2>1, <2>2, <3>1 DEF InMap, Are
    <3> QED BY <3>2, <3>3, <3>4, <3>5
  <2>3. CASE ~ (handlers # NoMap /\ members'[handlers] = {})
    <3>1. UNCHANGED <<handlers, overtaken, wire>>
      BY <1>4, <2>3 DEF unsubscribe
    <3>2. WireTypeOK'
      BY <2>1, <3>1
    <3>3. Awaited'
      BY <2>1, <3>1 DEF Awaited, WireCommand
    <3>4. Delivering'
      BY <2>1, <3>1 DEF Delivering
    <3>5. InMap'
      BY <2>1, <3>1 DEF InMap
    <3> QED BY <3>2, <3>3, <3>4, <3>5
  <2> QED BY <2>2, <2>3
<1>5. CASE onModuleDestroy
  <2>1. /\ handlers' = NoMap /\ overtaken' = overtaken \cup Are("waiting") /\ UNCHANGED <<members, subscribed>>
        /\ listeners' = [k \in Listener |-> IF k \in Are("live") THEN [listeners[k] EXCEPT !.at = "left"] ELSE listeners[k]]
        /\ wire' = wire \/ (handlers \in Listener /\ wire' = Append(wire, [cmd |-> "UNSUBSCRIBE", by |-> handlers]))
    BY <1>5 DEF onModuleDestroy, DropMap, Under, Command
  <2>5. /\ wire' \in Seq(WireCommand)
        /\ \A i \in DOMAIN wire' : wire'[i].cmd = "UNSUBSCRIBE" \/ (i \in DOMAIN wire /\ wire'[i] = wire[i])
    <3>1. CASE wire' = wire
      BY <3>1
    <3>2. CASE handlers \in Listener /\ wire' = Append(wire, [cmd |-> "UNSUBSCRIBE", by |-> handlers])
      <4> DEFINE x == [cmd |-> "UNSUBSCRIBE", by |-> handlers]
      <4>1. x \in WireCommand /\ x.cmd = "UNSUBSCRIBE"
        BY <3>2 DEF WireCommand
      <4> HIDE DEF x
      <4> QED BY <3>2, <4>1, Sent DEF x
    <3> QED BY <2>1, <3>1, <3>2
  <2>2. WireTypeOK'
    BY <2>1, <2>5 DEF Are
  <2>3. Awaited'
    <3>1. \A l \in Listener : listeners[l].at = "waiting" => listeners'[l] = listeners[l]
      BY <2>1 DEF Are
    <3>2. \A i \in DOMAIN wire : wire[i] \in WireCommand
      OBVIOUS
    <3>3. \A i \in DOMAIN wire : wire[i].by \in Listener
      BY <3>2 DEF WireCommand
    <3> QED BY <2>5, <3>1, <3>3 DEF Awaited
  <2>4. Delivering' /\ InMap'
    BY <2>1 DEF Delivering, InMap, Are
  <2> QED BY <2>2, <2>3, <2>4
<1>6. CASE UNCHANGED pubSubVars
  BY <1>6 DEF pubSubVars, Awaited, Delivering, InMap, Are
<1> QED BY <1>1, <1>2, <1>3, <1>4, <1>5, <1>6 DEF PubSubNext

(* Once Redis has answered every command, a message reaches every           *)
(* subscription but those whose map was dropped under them.                 *)
THEOREM DeafCorrect == PubSubSpec => []DeafOnlyIfOvertaken
<1>1. PubSubInit => PubSubInv
  <2> SUFFICES ASSUME PubSubInit PROVE PubSubInv
    OBVIOUS
  <2>1. wire \in Seq(WireCommand) /\ DOMAIN wire = {}
    BY DEF PubSubInit
  <2>2. WireTypeOK
    BY <2>1 DEF PubSubInit, WireTypeOK, Maps, Stands
  <2> QED BY <2>1, <2>2 DEF PubSubInit, PubSubInv, Awaited, Delivering, InMap
<1>2. PubSubInv /\ [PubSubNext]_pubSubVars => PubSubInv'
  BY DeafStep
<1>3. PubSubInv => DeafOnlyIfOvertaken
  BY DEF PubSubInv, Delivering, InMap, DeafOnlyIfOvertaken, Reached, Are
<1> QED BY <1>1, <1>2, <1>3, PTL DEF PubSubSpec

-----------------------------------------------------------------------------
(* The sessions of a user (LegacySessions).                                *)
(*                                                                         *)
(* A token ID belongs to the device it was minted for, wherever it is kept: *)
(* in the document, in a snapshot or a copy a call took of it, with a       *)
(* client.  Updates overwrite maps of all the devices, so this has to be    *)
(* said of every copy at once to say it of the document.                   *)
Mine(d, id, m) == id = NoToken \/ (id \in DOMAIN m /\ m[id] = d)
TempBy(time)   == [tokenId : TokenId \cup {NoToken}, createdAt : 0..time]
DocBy(time)    == [refreshTokens : [Device -> TokenId \cup {NoToken}], tempTokens : [Device -> TempBy(time)]]
OwnAt(doc, m, time) ==
    /\ doc \in DocBy(time)
    /\ \A d \in Device : Mine(d, doc.refreshTokens[d], m) /\ Mine(d, doc.tempTokens[d].tokenId, m)

(* A call that has minted, of those that answer with tokens *)
Tokens(c) == request[c].op \in {"signIn", "refresh"}
Issues(c) == Tokens(c) /\ at[c] \in {"load", "store", "mintAgain", "loadAgain", "storeAgain", "answer"}

OwnInv ==
    /\ now \in 0..MaxTime
    /\ \E n \in 0..MaxTokens : minted \in [1..n -> Device]
    /\ clients \subseteq Device \X DOMAIN minted /\ \A x \in clients : minted[x[2]] = x[1]
    /\ at \in [Call -> Steps]
    /\ request \in [Call -> [op : Op, device : Device]]
    /\ snapshot \in [Call -> DocBy(now)] /\ copy \in [Call -> DocBy(now)]
    /\ token \in [Call -> TokenId \cup {NoToken}]
    /\ alone \in [Call -> BOOLEAN]
    /\ seen \in [Call -> [Device -> SUBSET (TokenId \cup {NoToken})]]
    /\ OwnAt(document, minted, now)
    /\ \A c \in Call : /\ OwnAt(snapshot[c], minted, now) /\ OwnAt(copy[c], minted, now)
                       /\ Mine(device(c), token[c], minted)
                       /\ at[c] = "idle" => token[c] = NoToken
                       /\ Issues(c) => token[c] # NoToken

(* What a pending call writes back for another device was in the document   *)
(* while it ran: it merged the snapshot of its start, which has what was    *)
(* there then or nothing, with the document it read again.                 *)
SeenInv ==
    \A c \in Call : Pending(c) => \A d \in Device :
        /\ document.refreshTokens[d] \in seen[c][d]
        /\ d # device(c) => snapshot[c].refreshTokens[d] \in seen[c][d] \cup {NoToken}
        /\ d # device(c) /\ at[c] \in {"store", "storeAgain"} => copy[c].refreshTokens[d] \in seen[c][d]

(* The token a call answers with is the one it stores, and no other call    *)
(* has stored since if it was alone.                                       *)
AnswerInv ==
    \A c \in Call : Tokens(c) =>
        /\ at[c] \in {"store", "storeAgain"} => copy[c].refreshTokens[device(c)] = token[c]
        /\ at[c] = "answer" /\ alone[c] => document.refreshTokens[device(c)] = token[c]

-----------------------------------------------------------------------------
(* What belongs to its device still does when more tokens are minted and     *)
(* time goes on.                                                           *)
LEMMA OwnGrows ==
    ASSUME NEW doc, NEW m, NEW k, NEW t \in Nat, NEW u \in Nat, t <= u, OwnAt(doc, m, t),
           DOMAIN m \subseteq DOMAIN k, \A i \in DOMAIN m : k[i] = m[i]
    PROVE  OwnAt(doc, k, u)
<1>1. TempBy(t) \subseteq TempBy(u)
  BY DEF TempBy
<1>2. doc \in DocBy(u)
  BY <1>1 DEF OwnAt, DocBy
<1>3. \A d, id : Mine(d, id, m) => Mine(d, id, k)
  BY DEF Mine
<1> QED BY <1>2, <1>3 DEF OwnAt

LEMMA EmptyOwn == ASSUME NEW m, NEW t \in Nat PROVE OwnAt(Empty, m, t)
<1>1. NoTemp \in TempBy(t) /\ NoTemp.tokenId = NoToken
  BY DEF NoTemp, TempBy, NoToken
<1> HIDE DEF NoTemp
<1>2. Empty \in DocBy(t)
  BY <1>1 DEF Empty, DocBy
<1> QED BY <1>1, <1>2 DEF OwnAt, Mine, Empty

(* The fields of a document whose tokens are the devices' own *)
LEMMA OwnFields ==
    ASSUME NEW doc, NEW m, NEW t, OwnAt(doc, m, t), NEW d \in Device
    PROVE  /\ doc.refreshTokens \in [Device -> TokenId \cup {NoToken}]
           /\ doc.tempTokens \in [Device -> TempBy(t)]
           /\ doc.tempTokens[d] \in TempBy(t)
           /\ Mine(d, doc.refreshTokens[d], m)
           /\ Mine(d, doc.tempTokens[d].tokenId, m)
  BY DEF OwnAt, DocBy

(* and a document is made of such fields. *)
LEMMA OwnMade ==
    ASSUME NEW f \in [Device -> TokenId \cup {NoToken}], NEW t, NEW g \in [Device -> TempBy(t)], NEW m,
           \A d \in Device : Mine(d, f[d], m) /\ Mine(d, g[d].tokenId, m)
    PROVE  OwnAt([refreshTokens |-> f, tempTokens |-> g], m, t)
  BY DEF OwnAt, DocBy

(* updateRefreshToken and logout put the tokens of the call's own device     *)
(* into its snapshot, or none.                                             *)
LEMMA StagedOwn ==
    ASSUME OwnInv, NEW c \in Call
    PROVE  /\ OwnAt(Staged(c), minted, now)
           /\ \A d \in Device : d # device(c) =>
                 Staged(c).refreshTokens[d] \in {snapshot[c].refreshTokens[d], NoToken}
           /\ Tokens(c) => Staged(c).refreshTokens[device(c)] = token[c]
<1> DEFINE f == snapshot[c].refreshTokens
           g == snapshot[c].tempTokens
           e == device(c)
<1>1. OwnAt(snapshot[c], minted, now) /\ Mine(e, token[c], minted) /\ e \in Device
      /\ token[c] \in TokenId \cup {NoToken} /\ now \in Nat /\ request[c].op \in Op
  BY DEF OwnInv, device
<1>2. /\ f \in [Device -> TokenId \cup {NoToken}] /\ g \in [Device -> TempBy(now)]
      /\ \A d \in Device : Mine(d, f[d], minted) /\ Mine(d, g[d].tokenId, minted)
      /\ snapshot[c] = [refreshTokens |-> f, tempTokens |-> g]
  BY <1>1 DEF OwnAt, DocBy
<1> HIDE DEF f, g, e
<1>3. CASE Tokens(c)
  <2> DEFINE temp == [tokenId |-> token[c], createdAt |-> now]
             f1 == [f EXCEPT ![e] = token[c]]
             g1 == [g EXCEPT ![e] = temp]
  <2>1. Staged(c) = [refreshTokens |-> f1, tempTokens |-> g1]
    BY <1>3 DEF Staged, Tokens, f, g, e
  <2>2. temp \in TempBy(now) /\ temp.tokenId = token[c]
    BY <1>1 DEF TempBy
  <2> HIDE DEF temp
  <2>3. f1 \in [Device -> TokenId \cup {NoToken}] /\ g1 \in [Device -> TempBy(now)]
    BY <1>1, <1>2, <2>2
  <2>4. \A d \in Device : Mine(d, f1[d], minted) /\ Mine(d, g1[d].tokenId, minted)
    BY <1>1, <1>2, <2>2
  <2>5. f1[e] = token[c] /\ \A d \in Device : d # e => f1[d] = f[d]
    BY <1>1, <1>2
  <2> HIDE DEF f1, g1
  <2> QED BY <2>1, <2>3, <2>4, <2>5, OwnMade DEF e, f
<1>4. CASE request[c].op = "logout"
  <2> DEFINE f1 == [f EXCEPT ![e] = NoToken]
  <2>1. Staged(c) = [refreshTokens |-> f1, tempTokens |-> g]
    <3>1. Staged(c) = [snapshot[c] EXCEPT !.refreshTokens[e] = NoToken]
      BY <1>4 DEF Staged, e
    <3> QED BY <1>2, <3>1
  <2>2. f1 \in [Device -> TokenId \cup {NoToken}]
    BY <1>2
  <2>3. \A d \in Device : Mine(d, f1[d], minted) /\ f1[d] \in {f[d], NoToken}
    BY <1>2 DEF Mine
  <2> HIDE DEF f1
  <2> QED BY <1>2, <1>4, <2>1, <2>2, <2>3, OwnMade DEF f, Tokens
<1>5. CASE request[c].op = "logoutAll"
  <2> DEFINE f1 == Empty.refreshTokens
  <2>1. Staged(c) = [refreshTokens |-> f1, tempTokens |-> g]
    <3>1. Staged(c) = [snapshot[c] EXCEPT !.refreshTokens = f1]
      BY <1>5 DEF Staged
    <3> QED BY <1>2, <3>1
  <2>2. f1 \in [Device -> TokenId \cup {NoToken}] /\ \A d \in Device : f1[d] = NoToken
    BY DEF Empty
  <2> HIDE DEF f1
  <2>3. \A d \in Device : Mine(d, f1[d], minted)
    BY <2>2 DEF Mine
  <2> QED BY <1>2, <1>5, <2>1, <2>2, <2>3, OwnMade DEF f, Tokens
<1>6. CASE request[c].op = "update"
  <2>1. Staged(c) = snapshot[c]
    BY <1>6 DEF Staged
  <2> QED BY <1>1, <1>6, <2>1 DEF Tokens
<1> QED BY <1>1, <1>3, <1>4, <1>5, <1>6 DEF Op, Tokens

(* mergePlain: what a call is going to store is of the document or staged. *)
LEMMA MergedOwn ==
    ASSUME OwnInv, NEW c \in Call
    PROVE  /\ OwnAt(Merged(c, Staged(c)), minted, now)
           /\ \A d \in Device : d # device(c) =>
                 Merged(c, Staged(c)).refreshTokens[d]
                    \in {document.refreshTokens[d]} \cup ({snapshot[c].refreshTokens[d]} \ {NoToken})
           /\ Tokens(c) /\ token[c] # NoToken => Merged(c, Staged(c)).refreshTokens[device(c)] = token[c]
<1> DEFINE s == Staged(c)
           over == Overlay(s.refreshTokens, document.refreshTokens, NoToken)
           temps == Overlay(s.tempTokens, document.tempTokens, NoTemp)
           f == IF request[c].op = "update" THEN document.refreshTokens ELSE over
           g == IF request[c].op \in {"signIn", "refresh"} THEN temps ELSE document.tempTokens
<1>1. OwnAt(document, minted, now) /\ OwnAt(s, minted, now) /\ device(c) \in Device
  BY StagedOwn DEF OwnInv, device
<1>2. /\ \A d \in Device : d # device(c) => s.refreshTokens[d] \in {snapshot[c].refreshTokens[d], NoToken}
      /\ Tokens(c) => s.refreshTokens[device(c)] = token[c]
  BY StagedOwn
<1>3. Merged(c, s) = [refreshTokens |-> f, tempTokens |-> g]
  BY DEF Merged
<1> HIDE DEF s
<1>4. /\ document.refreshTokens \in [Device -> TokenId \cup {NoToken}]
      /\ document.tempTokens \in [Device -> TempBy(now)]
      /\ s.refreshTokens \in [Device -> TokenId \cup {NoToken}] /\ s.tempTokens \in [Device -> TempBy(now)]
      /\ \A d \in Device : /\ Mine(d, document.refreshTokens[d], minted) /\ Mine(d, s.refreshTokens[d], minted)
                           /\ Mine(d, document.tempTokens[d].tokenId, minted)
                           /\ Mine(d, s.tempTokens[d].tokenId, minted)
  BY <1>1 DEF OwnAt, DocBy
<1>5. over \in [Device -> TokenId \cup {NoToken}]
      /\ \A d \in Device : over[d] = IF s.refreshTokens[d] = NoToken THEN document.refreshTokens[d] ELSE s.refreshTokens[d]
  BY <1>4 DEF Overlay
<1>6. temps \in [Device -> TempBy(now)] /\ \A d \in Device : temps[d] \in {document.tempTokens[d], s.tempTokens[d]}
  BY <1>4 DEF Overlay
<1> HIDE DEF over, temps
<1>7. f \in [Device -> TokenId \cup {NoToken}] /\ g \in [Device -> TempBy(now)]
  BY <1>4, <1>5, <1>6
<1>8. \A d \in Device : Mine(d, f[d], minted) /\ Mine(d, g[d].tokenId, minted)
  BY <1>4, <1>5, <1>6
<1>9. \A d \in Device : d # device(c) =>
         f[d] \in {document.refreshTokens[d]} \cup ({snapshot[c].refreshTokens[d]} \ {NoToken})
  BY <1>2, <1>5
<1>10. Tokens(c) /\ token[c] # NoToken => f[device(c)] = token[c]
  BY <1>1, <1>2, <1>5 DEF Tokens
<1> HIDE DEF f, g
<1> QED BY <1>3, <1>7, <1>8, <1>9, <1>10, OwnMade DEF s

(* Every device signed in has a token of its own at first. *)
LEMMA OwnStart == SessionsInit => OwnInv
<1> SUFFICES ASSUME SessionsInit PROVE OwnInv
  OBVIOUS
<1> DEFINE n == Cardinality(SignedIn)
<1>1. IsFiniteSet(SignedIn) /\ n \in Nat /\ n <= MaxTokens /\ MaxTokens \in Nat /\ SignedIn \subseteq Device
  BY SessionsAssumption, FS_Subset, FS_CardinalityType
<1>2. PICK id \in [SignedIn -> 1..n] :
         /\ \A d, e \in SignedIn : id[d] = id[e] => d = e
         /\ minted = [i \in 1..n |-> CHOOSE d \in SignedIn : id[d] = i]
         /\ document = [refreshTokens |-> [d \in Device |-> IF d \in SignedIn THEN id[d] ELSE NoToken],
                        tempTokens |-> [d \in Device |-> IF d \in SignedIn
                                           THEN [tokenId |-> id[d], createdAt |-> 0] ELSE NoTemp]]
         /\ clients = {<<d, id[d]>> : d \in SignedIn}
  BY DEF SessionsInit
<1>3. IsFiniteSet(1..n) /\ Cardinality(1..n) = n
  BY <1>1, FS_Interval
<1> HIDE DEF n
<1>4. id \in Surjection(SignedIn, 1..n)
  <2>1. id \in Injection(SignedIn, 1..n)
    BY <1>2 DEF Injection, IsInjective
  <2> QED BY <1>1, <1>3, <2>1, FS_Injection DEF n
<1>5. \A i \in 1..n : \E d \in SignedIn : id[d] = i
  BY <1>4 DEF Surjection
<1>6. minted \in [1..n -> Device] /\ \A d \in SignedIn : minted[id[d]] = d
  BY <1>1, <1>2, <1>5
<1>7. now = 0 /\ 0..now = {0}
  BY DEF SessionsInit
<1>8. OwnAt(document, minted, now)
  <2> DEFINE f == [d \in Device |-> IF d \in SignedIn THEN id[d] ELSE NoToken]
             temp(d) == [tokenId |-> id[d], createdAt |-> 0]
             g == [d \in Device |-> IF d \in SignedIn THEN temp(d) ELSE NoTemp]
  <2>1. \A d \in SignedIn : id[d] \in TokenId /\ id[d] \in DOMAIN minted /\ minted[id[d]] = d
    BY <1>1, <1>2, <1>6 DEF TokenId
  <2>2. \A d \in SignedIn : temp(d) \in TempBy(now) /\ temp(d).tokenId = id[d]
    BY <1>7, <2>1 DEF TempBy
  <2>3. NoTemp \in TempBy(now) /\ NoTemp.tokenId = NoToken
    BY <1>7 DEF TempBy, NoTemp, NoToken
  <2>4. document = [refreshTokens |-> f, tempTokens |-> g]
    BY <1>2
  <2> HIDE DEF temp, NoTemp
  <2>5. f \in [Device -> TokenId \cup {NoToken}] /\ g \in [Device -> TempBy(now)]
    BY <2>1, <2>2, <2>3
  <2>6. \A d \in Device : Mine(d, f[d], minted) /\ Mine(d, g[d].tokenId, minted)
    BY <2>1, <2>2, <2>3 DEF Mine
  <2> HIDE DEF f, g
  <2> QED BY <2>4, <2>5, <2>6, OwnMade
<1>9. OwnAt(Empty, minted, now) /\ Empty \in DocBy(now)
  BY <1>7, EmptyOwn DEF OwnAt
<1>10. clients \subseteq Device \X DOMAIN minted /\ \A x \in clients : minted[x[2]] = x[1]
  BY <1>1, <1>2, <1>6
<1>11. now \in 0..MaxTime
  BY <1>7, TimeAssumption
<1>12. /\ at \in [Call -> Steps] /\ request \in [Call -> [op : Op, device : Device]]
       /\ snapshot = [c \in Call |-> Empty] /\ copy = [c \in Call |-> Empty]
       /\ token = [c \in Call |-> NoToken] /\ alone \in [Call -> BOOLEAN]
       /\ seen \in [Call -> [Device -> SUBSET (TokenId \cup {NoToken})]]
  <2>1. (CHOOSE d \in Device : TRUE) \in Device
    BY SessionsAssumption
  <2> DEFINE any == CHOOSE d \in Device : TRUE
             asked == [op |-> "update", device |-> any]
  <2>2. asked \in [op : Op, device : Device]
    BY <2>1 DEF Op
  <2>3. request = [c \in Call |-> asked]
    BY DEF SessionsInit
  <2> HIDE DEF asked
  <2> QED BY <2>2, <2>3 DEF SessionsInit, Steps
<1>13. \A c \in Call : /\ OwnAt(snapshot[c], minted, now) /\ OwnAt(copy[c], minted, now)
                       /\ Mine(device(c), token[c], minted)
                       /\ at[c] = "idle" /\ token[c] = NoToken
  <2>1. \A c \in Call : snapshot[c] = Empty /\ copy[c] = Empty /\ token[c] = NoToken /\ at[c] = "idle"
    BY <1>12 DEF SessionsInit
  <2> HIDE DEF Empty
  <2> QED BY <1>9, <2>1 DEF Mine
<1>14. snapshot \in [Call -> DocBy(now)] /\ copy \in [Call -> DocBy(now)]
       /\ token \in [Call -> TokenId \cup {NoToken}]
  BY <1>9, <1>12
<1>15. \E k \in 0..MaxTokens : minted \in [1..k -> Device]
  BY <1>1, <1>6
<1> HIDE DEF Empty, OwnAt, Mine, DocBy
<1> QED BY <1>8, <1>10, <1>11, <1>12, <1>13, <1>14, <1>15 DEF OwnInv, Issues

(* What is read of a call in its own step *)
LEMMA OwnCall ==
    ASSUME OwnInv, NEW c \in Call
    PROVE  /\ now \in Nat /\ MaxTime \in Nat
           /\ request[c].op \in Op /\ device(c) \in Device /\ token[c] \in TokenId \cup {NoToken}
           /\ OwnAt(snapshot[c], minted, now) /\ OwnAt(copy[c], minted, now) /\ Mine(device(c), token[c], minted)
           /\ \A d \in Device : document.refreshTokens[d] \in TokenId \cup {NoToken}
           /\ \A d \in Device : copy[c].refreshTokens[d] \in TokenId \cup {NoToken}
  BY TimeAssumption DEF OwnInv, device, OwnAt, DocBy

(* Every request of a call keeps the tokens apart. *)
LEMMA OwnStep == OwnInv /\ [SessionsNext]_sessionVars => OwnInv'
<1> SUFFICES ASSUME OwnInv, [SessionsNext]_sessionVars PROVE OwnInv'
  OBVIOUS
<1>1. /\ now \in 0..MaxTime /\ \E n \in 0..MaxTokens : minted \in [1..n -> Device]
      /\ clients \subseteq Device \X DOMAIN minted /\ \A x \in clients : minted[x[2]] = x[1]
      /\ at \in [Call -> Steps] /\ request \in [Call -> [op : Op, device : Device]]
      /\ snapshot \in [Call -> DocBy(now)] /\ copy \in [Call -> DocBy(now)]
      /\ token \in [Call -> TokenId \cup {NoToken}] /\ alone \in [Call -> BOOLEAN]
      /\ seen \in [Call -> [Device -> SUBSET (TokenId \cup {NoToken})]]
      /\ OwnAt(document, minted, now)
  BY DEF OwnInv
<1>2. \A c \in Call : /\ OwnAt(snapshot[c], minted, now) /\ OwnAt(copy[c], minted, now)
                      /\ Mine(device(c), token[c], minted)
                      /\ at[c] = "idle" => token[c] = NoToken
                      /\ Issues(c) => token[c] # NoToken
  BY DEF OwnInv
<1>3. now \in Nat /\ MaxTime \in Nat /\ MaxTokens \in Nat
  BY <1>1, TimeAssumption, SessionsAssumption
<1>4. OwnAt(Empty, minted, now) /\ Empty \in DocBy(now)
  BY <1>3, EmptyOwn DEF OwnAt
<1>5. CASE SessionTick
  <2>1. now' = now + 1 /\ now' \in 0..MaxTime /\ UNCHANGED <<document, minted, clients, callVars, seen, alone>>
    BY <1>1, <1>3, <1>5 DEF SessionTick
  <2>2. DocBy(now) \subseteq DocBy(now')
    <3>1. TempBy(now) \subseteq TempBy(now')
      BY <1>3, <2>1 DEF TempBy
    <3> QED BY <3>1 DEF DocBy
  <2>3. \A doc : OwnAt(doc, minted, now) => OwnAt(doc, minted, now')
    BY <2>2 DEF OwnAt
  <2> HIDE DEF OwnAt, DocBy, Mine
  <2> QED BY <1>1, <1>2, <2>1, <2>2, <2>3 DEF OwnInv, callVars, device, Issues, Tokens
<1>6. ASSUME NEW c \in Call, NEW op \in Op, NEW d \in Device, Begin(c, op, d) PROVE OwnInv'
  <2> DEFINE asked == [op |-> op, device |-> d]
  <2>1. asked \in [op : Op, device : Device] /\ asked.device = d
    OBVIOUS
  <2>2. request' = [request EXCEPT ![c] = asked]
    BY <1>6 DEF Begin, BeginAs
  <2> HIDE DEF asked
  <2>3. /\ at[c] = "idle" /\ at' \in [Call -> Steps] /\ at'[c] # "idle"
        /\ \A b \in Call : b # c => at'[b] = at[b]
    BY <1>1, <1>6 DEF Begin, BeginAs, Proceed, Steps
  <2>4. /\ snapshot' = [snapshot EXCEPT ![c] = document] /\ alone' \in [Call -> BOOLEAN]
        /\ UNCHANGED <<now, document, minted, clients, copy>>
    BY <1>1, <1>6 DEF Begin, BeginAs
  <2>5. seen' \in [Call -> [Device -> SUBSET (TokenId \cup {NoToken})]]
    <3> DEFINE now0 == [e \in Device |-> {document.refreshTokens[e]}]
    <3>1. now0 \in [Device -> SUBSET (TokenId \cup {NoToken})]
      BY <1>6, OwnCall
    <3>2. seen' = [seen EXCEPT ![c] = now0]
      BY <1>6 DEF Begin, BeginAs
    <3> HIDE DEF now0
    <3> QED BY <1>1, <3>1, <3>2
  <2>6. /\ token' \in [Call -> TokenId \cup {NoToken}] /\ Mine(d, token'[c], minted)
        /\ \A b \in Call : b # c => token'[b] = token[b]
    <3>1. CASE UNCHANGED token
      BY <1>1, <1>2, <2>3, <3>1 DEF Mine
    <3>2. CASE \E id \in TokenId : <<d, id>> \in clients /\ token' = [token EXCEPT ![c] = id]
      BY <1>1, <3>2 DEF Mine
    <3> QED BY <1>6, <3>1, <3>2 DEF Begin, BeginAs
  <2>7. snapshot' \in [Call -> DocBy(now)]
    BY <1>1, <2>4 DEF OwnAt
  <2>8. request' \in [Call -> [op : Op, device : Device]]
    BY <1>1, <2>1, <2>2
  <2>9. \A b \in Call : /\ OwnAt(snapshot'[b], minted, now) /\ OwnAt(copy[b], minted, now)
                        /\ Mine(request'[b].device, token'[b], minted)
                        /\ at'[b] = "idle" => token'[b] = NoToken
                        /\ Issues(b)' => token'[b] # NoToken
    <3> TAKE b \in Call
    <3>1. CASE b = c
      <4>1. ~ Issues(c)'
        <5>1. request'[c].op = op
          BY <1>1, <2>2 DEF asked
        <5>2. op \in {"signIn", "refresh"} => at'[c] \in {"mint", "refused"}
          BY <1>1, <1>6 DEF Begin, BeginAs, Proceed
        <5> QED BY <5>1, <5>2 DEF Issues, Tokens
      <4> QED BY <1>1, <1>2, <2>1, <2>2, <2>3, <2>4, <2>6, <3>1, <4>1
    <3>2. CASE b # c
      BY <1>1, <1>2, <2>2, <2>3, <2>4, <2>6, <3>2 DEF device, Issues, Tokens
    <3> QED BY <3>1, <3>2
  <2> QED BY <1>1, <2>3, <2>4, <2>5, <2>6, <2>7, <2>8, <2>9 DEF OwnInv, device
<1>7. ASSUME NEW c \in Call, Mint(c) PROVE OwnInv'
  <2> DEFINE temp == document.tempTokens[device(c)]
  <2>1. /\ UNCHANGED <<now, document, clients, request, snapshot, copy, seen, alone>>
        /\ at[c] \in {"mint", "mintAgain"} /\ at' \in [Call -> Steps] /\ at'[c] # "idle"
        /\ \A b \in Call : b # c => at'[b] = at[b]
    BY <1>1, <1>7 DEF Mint, MintOf, Proceed, Steps
  <2>2. Mine(device(c), temp.tokenId, minted) /\ temp \in TempBy(now) /\ device(c) \in Device
    BY <1>1, <1>7, OwnCall, OwnFields
  <2>3. PICK n \in 0..MaxTokens : minted \in [1..n -> Device]
    BY <1>1
  <2>4. n \in Nat /\ Cardinality(DOMAIN minted) = n
    BY <1>3, <2>3, FS_Interval
  <2>5. /\ \E k \in 0..MaxTokens : minted' \in [1..k -> Device]
        /\ DOMAIN minted \subseteq DOMAIN minted' /\ \A i \in DOMAIN minted : minted'[i] = minted[i]
        /\ token' \in [Call -> TokenId \cup {NoToken}] /\ \A b \in Call : b # c => token'[b] = token[b]
        /\ Mine(device(c), token'[c], minted') /\ token'[c] # NoToken
    <3>1. CASE token' = [token EXCEPT ![c] = temp.tokenId] /\ temp.tokenId # NoToken /\ UNCHANGED minted
      <4>1. temp.tokenId \in TokenId \cup {NoToken}
        BY <2>2 DEF TempBy
      <4> QED BY <1>1, <2>2, <3>1, <4>1
    <3>2. CASE /\ n < MaxTokens /\ token' = [token EXCEPT ![c] = n + 1]
               /\ minted' = [i \in DOMAIN minted \cup {n + 1} |-> IF i = n + 1 THEN device(c) ELSE minted[i]]
      <4>1. n + 1 \in TokenId /\ DOMAIN minted \cup {n + 1} = 1..(n + 1) /\ n + 1 \in 0..MaxTokens
        BY <1>3, <2>3, <2>4, <3>2 DEF TokenId
      <4>2. minted' \in [1..(n + 1) -> Device] /\ minted'[n + 1] = device(c)
            /\ \A i \in DOMAIN minted : minted'[i] = minted[i]
        BY <2>2, <2>3, <2>4, <3>2, <4>1
      <4>3. token' \in [Call -> TokenId \cup {NoToken}] /\ token'[c] = n + 1
            /\ \A b \in Call : b # c => token'[b] = token[b]
        BY <1>1, <3>2, <4>1
      <4> QED BY <2>3, <2>4, <4>1, <4>2, <4>3 DEF Mine, NoToken
    <3> QED BY <1>7, <2>4, <3>1, <3>2 DEF Mint, MintOf, Fresh
  <2> HIDE DEF temp
  <2>6. ASSUME NEW doc, OwnAt(doc, minted, now) PROVE OwnAt(doc, minted', now)
    <3> DEFINE m == minted
               k == minted'
    <3>1. DOMAIN m \subseteq DOMAIN k /\ \A i \in DOMAIN m : k[i] = m[i]
      BY <2>5
    <3>2. OwnAt(doc, m, now)
      BY <2>6
    <3> HIDE DEF m, k
    <3>3. OwnAt(doc, k, now)
      BY <1>3, <3>1, <3>2, OwnGrows
    <3> QED BY <3>3 DEF k
  <2>7. \A b \in Call : /\ OwnAt(snapshot[b], minted', now) /\ OwnAt(copy[b], minted', now)
                        /\ Mine(device(b), token'[b], minted')
                        /\ at'[b] = "idle" => token'[b] = NoToken
                        /\ Issues(b)' => token'[b] # NoToken
    <3> TAKE b \in Call
    <3>1. OwnAt(snapshot[b], minted', now) /\ OwnAt(copy[b], minted', now)
      BY <1>2, <2>6
    <3>2. CASE b = c
      BY <2>1, <2>5, <3>1, <3>2
    <3>3. CASE b # c
      BY <1>2, <2>1, <2>5, <3>1, <3>3 DEF Mine, Issues, Tokens
    <3> QED BY <3>2, <3>3
  <2>8. clients \subseteq Device \X DOMAIN minted' /\ \A x \in clients : minted'[x[2]] = x[1]
    BY <1>1, <2>5
  <2>9. OwnAt(document, minted', now)
    BY <1>1, <2>6
  <2> QED BY <1>1, <2>1, <2>5, <2>7, <2>8, <2>9 DEF OwnInv, device
<1>8. ASSUME NEW c \in Call, Load(c) PROVE OwnInv'
  <2>1. /\ UNCHANGED <<now, document, minted, clients, request, token, seen, alone>>
        /\ at[c] \in {"load", "loadAgain"} /\ at' \in [Call -> Steps] /\ at'[c] # "idle"
        /\ \A b \in Call : b # c => at'[b] = at[b]
        /\ snapshot' = [snapshot EXCEPT ![c] = Staged(c)]
        /\ copy' = [copy EXCEPT ![c] = Merged(c, Staged(c))]
    BY <1>1, <1>8 DEF Load, Proceed, Steps
  <2>2. OwnAt(Staged(c), minted, now) /\ OwnAt(Merged(c, Staged(c)), minted, now)
    BY <1>8, StagedOwn, MergedOwn
  <2> DEFINE s == Staged(c)
             m == Merged(c, Staged(c))
  <2> HIDE DEF s, m
  <2>3. s \in DocBy(now) /\ m \in DocBy(now)
    BY <2>2 DEF OwnAt, s, m
  <2>4. snapshot' \in [Call -> DocBy(now)] /\ copy' \in [Call -> DocBy(now)]
    BY <1>1, <2>1, <2>3 DEF s, m
  <2>5. \A b \in Call : OwnAt(snapshot'[b], minted, now) /\ OwnAt(copy'[b], minted, now)
    BY <1>1, <1>2, <2>1, <2>2
  <2>6. \A b \in Call : (at'[b] = "idle" => at[b] = "idle") /\ (Issues(b)' => Issues(b))
    BY <2>1 DEF Issues, Tokens
  <2> HIDE DEF OwnAt, DocBy, Mine
  <2> QED BY <1>1, <1>2, <2>1, <2>4, <2>5, <2>6 DEF OwnInv, device
<1>9. ASSUME NEW c \in Call, WriteBack(c) PROVE OwnInv'
  <2>1. /\ UNCHANGED <<now, minted, clients, request, snapshot, token>> /\ document' = copy[c]
        /\ at[c] \in {"store", "storeAgain"} /\ at' \in [Call -> Steps] /\ at'[c] # "idle"
        /\ \A b \in Call : b # c => at'[b] = at[b]
        /\ alone' \in [Call -> BOOLEAN] /\ copy' = [copy EXCEPT ![c] = Empty]
    BY <1>1, <1>9 DEF WriteBack, Proceed, Steps
  <2>2. seen' \in [Call -> [Device -> SUBSET (TokenId \cup {NoToken})]]
    <3>1. seen' = [b \in Call |-> [d \in Device |-> IF Pending(b)
                     THEN seen[b][d] \cup {copy[c].refreshTokens[d]} ELSE {}]]
      BY <1>9 DEF WriteBack
    <3>2. \A d \in Device : copy[c].refreshTokens[d] \in TokenId \cup {NoToken}
      BY <1>9, OwnCall
    <3> QED BY <1>1, <3>1, <3>2
  <2>3. copy' \in [Call -> DocBy(now)] /\ \A b \in Call : OwnAt(copy'[b], minted, now)
    BY <1>1, <1>2, <1>4, <2>1
  <2>4. \A b \in Call : (at'[b] = "idle" => at[b] = "idle") /\ (Issues(b)' => Issues(b))
    BY <2>1 DEF Issues, Tokens
  <2> HIDE DEF OwnAt, DocBy, Mine
  <2> QED BY <1>1, <1>2, <2>1, <2>2, <2>3, <2>4 DEF OwnInv, device
<1>10. ASSUME NEW c \in Call, NEW place \in {"done", "failed"}, End(c, place),
              clients' \subseteq clients \cup {<<device(c), token[c]>>}, token[c] = NoToken => clients' \subseteq clients
       PROVE  OwnInv'
  <2>1. /\ UNCHANGED <<now, document, minted, request>> /\ at' \in [Call -> Steps] /\ at'[c] # "idle"
        /\ \A b \in Call : b # c => at'[b] = at[b]
        /\ snapshot' = [snapshot EXCEPT ![c] = Empty] /\ copy' = [copy EXCEPT ![c] = Empty]
        /\ token' = [token EXCEPT ![c] = NoToken] /\ alone' \in [Call -> BOOLEAN]
        /\ seen' \in [Call -> [Device -> SUBSET (TokenId \cup {NoToken})]]
    BY <1>1, <1>10 DEF End, Proceed, Steps
  <2>2. clients' \subseteq Device \X DOMAIN minted /\ \A x \in clients' : minted[x[2]] = x[1]
    <3>1. device(c) \in Device /\ Mine(device(c), token[c], minted)
      BY <1>10, OwnCall
    <3>2. CASE token[c] = NoToken
      BY <1>1, <1>10, <3>2
    <3>3. CASE token[c] # NoToken
      BY <1>1, <1>10, <3>1, <3>3 DEF Mine
    <3> QED BY <3>2, <3>3
  <2>3. snapshot' \in [Call -> DocBy(now)] /\ copy' \in [Call -> DocBy(now)]
    BY <1>1, <1>4, <2>1
  <2>4. \A b \in Call : OwnAt(snapshot'[b], minted, now) /\ OwnAt(copy'[b], minted, now)
    BY <1>1, <1>2, <1>4, <2>1
  <2>5. token' \in [Call -> TokenId \cup {NoToken}]
        /\ \A b \in Call : /\ Mine(device(b), token'[b], minted) /\ (at'[b] = "idle" => token'[b] = NoToken)
                           /\ Issues(b)' => token'[b] # NoToken
    <3>1. at'[c] \in {"done", "failed"}
      BY <1>1, <1>10 DEF End, Proceed
    <3> QED BY <1>1, <1>2, <2>1, <3>1 DEF Mine, Issues, Tokens
  <2> HIDE DEF OwnAt, DocBy, Mine
  <2> QED BY <1>1, <2>1, <2>2, <2>3, <2>4, <2>5 DEF OwnInv, device
<1>11. ASSUME NEW c \in Call, Fail(c) PROVE OwnInv'
  BY <1>10, <1>11 DEF Fail
<1>12. CASE UNCHANGED sessionVars
  <2> HIDE DEF OwnAt, DocBy, Mine
  <2> QED BY <1>1, <1>2, <1>12 DEF OwnInv, sessionVars, device, Issues, Tokens
<1>13. ASSUME NEW c \in Call, Answer(c) PROVE OwnInv'
  <2>1. clients' \subseteq clients \cup {<<device(c), token[c]>>} /\ End(c, "done")
    BY <1>13 DEF Answer
  <2>2. token[c] = NoToken => clients' \subseteq clients
    BY <1>2, <1>13 DEF Answer, Issues, Tokens
  <2> QED BY <1>10, <2>1, <2>2
<1> QED BY <1>5, <1>6, <1>7, <1>8, <1>9, <1>11, <1>12, <1>13 DEF SessionsNext

-----------------------------------------------------------------------------
(* A pending call stays with its operation, and every call but the one that  *)
(* stores finds the document as it was.                                    *)
LEMMA SeenStep == OwnInv /\ SeenInv /\ [SessionsNext]_sessionVars => SeenInv'
<1> SUFFICES ASSUME OwnInv, SeenInv, [SessionsNext]_sessionVars PROVE SeenInv'
  OBVIOUS
<1>1. /\ at \in [Call -> Steps] /\ request \in [Call -> [op : Op, device : Device]]
      /\ snapshot \in [Call -> DocBy(now)] /\ copy \in [Call -> DocBy(now)]
      /\ seen \in [Call -> [Device -> SUBSET (TokenId \cup {NoToken})]]
  BY DEF OwnInv
<1> DEFINE Tracked(c) == \A d \in Device :
                /\ document'.refreshTokens[d] \in seen'[c][d]
                /\ d # device(c)' => snapshot'[c].refreshTokens[d] \in seen'[c][d] \cup {NoToken}
                /\ d # device(c)' /\ at'[c] \in {"store", "storeAgain"} => copy'[c].refreshTokens[d] \in seen'[c][d]
           Other(c) == \A b \in Call : b # c => /\ at'[b] = at[b] /\ request'[b] = request[b]
                                                /\ snapshot'[b] = snapshot[b] /\ copy'[b] = copy[b]
<1>2. ASSUME NEW c \in Call, Other(c), document' = document, \A b \in Call : b # c => seen'[b] = seen[b],
             Pending(c)' => Tracked(c)
      PROVE  SeenInv'
  <2> SUFFICES ASSUME NEW b \in Call, Pending(b)' PROVE Tracked(b)
    BY DEF SeenInv
  <2>1. CASE b = c
    BY <1>2, <2>1
  <2>2. CASE b # c
    <3>1. Pending(b)
      BY <1>2, <2>2 DEF Pending
    <3> QED BY <1>2, <2>2, <3>1 DEF SeenInv, device
  <2> QED BY <2>1, <2>2
<1>3. CASE SessionTick \/ UNCHANGED sessionVars
  BY <1>3 DEF SessionTick, sessionVars, callVars, SeenInv, Pending, device
<1>4. ASSUME NEW c \in Call, NEW op \in Op, NEW d \in Device, Begin(c, op, d) PROVE SeenInv'
  <2>1. Other(c) /\ document' = document /\ \A b \in Call : b # c => seen'[b] = seen[b]
    BY <1>1, <1>4 DEF Begin, BeginAs, Proceed
  <2>2. snapshot'[c] = document /\ \A e \in Device : seen'[c][e] = {document.refreshTokens[e]}
    BY <1>1, <1>4 DEF Begin, BeginAs
  <2>3. at'[c] \notin {"store", "storeAgain"}
    BY <1>1, <1>4 DEF Begin, BeginAs, Proceed, Op
  <2> QED BY <1>2, <2>1, <2>2, <2>3
<1>5. ASSUME NEW c \in Call, Mint(c) PROVE SeenInv'
  <2>1. Other(c) /\ UNCHANGED <<document, seen, request, snapshot>> /\ Pending(c)
        /\ at'[c] \notin {"store", "storeAgain"}
    BY <1>1, <1>5 DEF Mint, MintOf, Proceed, Pending
  <2>2. Tracked(c)
    BY <1>5, <2>1 DEF SeenInv, device
  <2> QED BY <1>2, <1>5, <2>1, <2>2
<1>6. ASSUME NEW c \in Call, Load(c) PROVE SeenInv'
  <2> DEFINE s == Staged(c)
             m == Merged(c, Staged(c))
  <2>1. Other(c) /\ UNCHANGED <<document, seen, request>> /\ Pending(c)
        /\ snapshot'[c] = s /\ copy'[c] = m
    BY <1>1, <1>6 DEF Load, Proceed, Pending
  <2>2. \A d \in Device : d # device(c) =>
           /\ s.refreshTokens[d] \in {snapshot[c].refreshTokens[d], NoToken}
           /\ m.refreshTokens[d] \in {document.refreshTokens[d]} \cup ({snapshot[c].refreshTokens[d]} \ {NoToken})
    BY <1>6, StagedOwn, MergedOwn
  <2> HIDE DEF s, m
  <2>3. Tracked(c)
    BY <1>6, <2>1, <2>2 DEF SeenInv, device
  <2> QED BY <1>2, <1>6, <2>1, <2>3
<1>7. ASSUME NEW c \in Call, WriteBack(c) PROVE SeenInv'
  <2> SUFFICES ASSUME NEW b \in Call, Pending(b)' PROVE Tracked(b)
    BY DEF SeenInv
  <2>1. /\ UNCHANGED <<request, snapshot>> /\ document' = copy[c] /\ at[c] \in {"store", "storeAgain"}
        /\ \A e \in Call : e # c => at'[e] = at[e] /\ copy'[e] = copy[e]
        /\ at'[c] \notin {"store", "storeAgain"}
    BY <1>1, <1>7 DEF WriteBack, Proceed
  <2>2. Pending(b)
    BY <2>1 DEF Pending
  <2>3. \A d \in Device : seen'[b][d] = seen[b][d] \cup {copy[c].refreshTokens[d]}
    BY <1>7, <2>2 DEF WriteBack
  <2> QED BY <2>1, <2>2, <2>3 DEF SeenInv, device
<1>8. ASSUME NEW c \in Call, NEW place \in {"done", "failed"}, End(c, place) PROVE SeenInv'
  <2>1. Other(c) /\ document' = document /\ \A b \in Call : b # c => seen'[b] = seen[b]
    BY <1>1, <1>8 DEF End, Proceed
  <2>2. ~ Pending(c)'
    BY <1>1, <1>8 DEF End, Proceed, Pending
  <2> QED BY <1>2, <1>8, <2>1, <2>2
<1> QED BY <1>3, <1>4, <1>5, <1>6, <1>7, <1>8 DEF SessionsNext, Answer, Fail

(* What a call stores for its own device is the token it will answer with. *)
LEMMA AnswerStep == ASSUME Renewal PROVE OwnInv /\ AnswerInv /\ [SessionsNext]_sessionVars => AnswerInv'
<1> SUFFICES ASSUME OwnInv, AnswerInv, [SessionsNext]_sessionVars PROVE AnswerInv'
  OBVIOUS
<1>1. /\ at \in [Call -> Steps] /\ request \in [Call -> [op : Op, device : Device]]
      /\ copy \in [Call -> DocBy(now)] /\ token \in [Call -> TokenId \cup {NoToken}]
      /\ alone \in [Call -> BOOLEAN]
  BY DEF OwnInv
<1> DEFINE Said(c) == /\ at'[c] \in {"store", "storeAgain"} => copy'[c].refreshTokens[device(c)'] = token'[c]
                      /\ at'[c] = "answer" /\ alone'[c] => document'.refreshTokens[device(c)'] = token'[c]
           Other(c) == \A b \in Call : b # c => /\ at'[b] = at[b] /\ request'[b] = request[b]
                                                /\ copy'[b] = copy[b] /\ token'[b] = token[b]
<1>2. ASSUME NEW c \in Call, Other(c), document' = document, \A b \in Call : b # c => alone'[b] = alone[b],
             Tokens(c)' => Said(c)
      PROVE  AnswerInv'
  <2> SUFFICES ASSUME NEW b \in Call, Tokens(b)' PROVE Said(b)
    BY DEF AnswerInv
  <2>1. CASE b = c
    BY <1>2, <2>1
  <2>2. CASE b # c
    BY <1>2, <2>2 DEF AnswerInv, Tokens, device
  <2> QED BY <2>1, <2>2
<1>3. CASE SessionTick \/ UNCHANGED sessionVars
  BY <1>3 DEF SessionTick, sessionVars, callVars, AnswerInv, Tokens, device
<1>4. ASSUME NEW c \in Call, NEW op \in Op, NEW d \in Device, Begin(c, op, d) PROVE AnswerInv'
  <2>1. Other(c) /\ document' = document /\ \A b \in Call : b # c => alone'[b] = alone[b]
    BY <1>1, <1>4 DEF Begin, BeginAs, Proceed
  <2>2. at'[c] \notin {"store", "storeAgain", "answer"}
    BY <1>1, <1>4 DEF Begin, BeginAs, Proceed, Op
  <2> QED BY <1>2, <2>1, <2>2
<1>5. ASSUME NEW c \in Call, Mint(c) PROVE AnswerInv'
  <2>1. Other(c) /\ UNCHANGED <<document, alone>> /\ at'[c] \notin {"store", "storeAgain", "answer"}
    BY <1>1, <1>5 DEF Mint, MintOf, Proceed
  <2> QED BY <1>2, <1>5, <2>1
<1>6. ASSUME NEW c \in Call, Load(c) PROVE AnswerInv'
  <2> DEFINE m == Merged(c, Staged(c))
  <2>1. Other(c) /\ UNCHANGED <<document, alone, request, token>> /\ copy'[c] = m
        /\ at[c] \in {"load", "loadAgain"} /\ at'[c] \in {"store", "storeAgain"}
    BY <1>1, <1>6 DEF Load, Proceed
  <2>2. Tokens(c) => token[c] # NoToken
    BY <1>6, <2>1 DEF OwnInv, Issues
  <2>3. Tokens(c) => m.refreshTokens[device(c)] = token[c]
    BY <1>6, <2>2, MergedOwn
  <2> HIDE DEF m
  <2>4. Tokens(c)' => Said(c)
    BY <2>1, <2>3 DEF Tokens, device
  <2> QED BY <1>2, <1>6, <2>1, <2>4
<1>7. ASSUME NEW c \in Call, WriteBack(c) PROVE AnswerInv'
  <2> SUFFICES ASSUME NEW b \in Call, Tokens(b)' PROVE Said(b)
    BY DEF AnswerInv
  <2>1. /\ UNCHANGED <<request, token>> /\ document' = copy[c] /\ at[c] \in {"store", "storeAgain"}
        /\ \A e \in Call : e # c => at'[e] = at[e] /\ copy'[e] = copy[e] /\ (alone'[e] => ~ Pending(e))
        /\ at'[c] \notin {"store", "storeAgain"}
    BY <1>1, <1>7 DEF WriteBack, Proceed
  <2>2. Tokens(b)
    BY <2>1 DEF Tokens
  <2>3. CASE b = c
    BY <2>1, <2>2, <2>3 DEF AnswerInv, device
  <2>4. CASE b # c
    BY <2>1, <2>2, <2>4 DEF AnswerInv, device, Pending
  <2> QED BY <2>3, <2>4
<1>8. ASSUME NEW c \in Call, NEW place \in {"done", "failed"}, End(c, place) PROVE AnswerInv'
  <2>1. Other(c) /\ document' = document /\ \A b \in Call : b # c => alone'[b] = alone[b]
    BY <1>1, <1>8 DEF End, Proceed
  <2>2. at'[c] \in {"done", "failed"}
    BY <1>1, <1>8 DEF End, Proceed
  <2> QED BY <1>2, <1>8, <2>1, <2>2
<1> QED BY <1>3, <1>4, <1>5, <1>6, <1>7, <1>8 DEF SessionsNext, Answer, Fail

-----------------------------------------------------------------------------
(* A token ID is minted for one device and never gets to another (the        *)
(* comment at UserIdToken): types and DevicesApart.                        *)
THEOREM SessionsTypeCorrect == SessionsSpec => []SessionsTypeOK
<1>1. OwnInv => SessionsTypeOK
  <2> SUFFICES ASSUME OwnInv PROVE SessionsTypeOK
    OBVIOUS
  <2>1. DocBy(now) = Document /\ document \in Document
    BY DEF OwnInv, OwnAt, DocBy, TempBy, Document, Temp
  <2>2. DevicesApart
    BY DEF OwnInv, OwnAt, Mine, DevicesApart
  <2> QED BY <2>1, <2>2 DEF OwnInv, SessionsTypeOK
<1> QED BY <1>1, OwnStart, OwnStep, PTL DEF SessionsSpec

(* Nothing is pending before the first request. *)
LEMMA SessionsStart == SessionsInit => OwnInv /\ SeenInv /\ AnswerInv
<1> SUFFICES ASSUME SessionsInit PROVE OwnInv /\ SeenInv /\ AnswerInv
  OBVIOUS
<1>1. \A c \in Call : at[c] = "idle"
  BY DEF SessionsInit
<1> QED BY <1>1, OwnStart DEF SeenInv, AnswerInv, Pending

(* The call that stores in a step is the one that wrote the document. *)
LEMMA StoreOfOne == ASSUME OwnInv, [SessionsNext]_sessionVars, NEW c \in Call, Stores(c)
                    PROVE  document' = copy[c]
<1>1. at \in [Call -> Steps]
  BY DEF OwnInv
<1>2. CASE WriteBack(c)
  BY <1>2 DEF WriteBack
<1>3. ASSUME NEW b \in Call, b # c,
             (\E op \in Op, d \in Device : Begin(b, op, d)) \/ Mint(b) \/ Load(b) \/ WriteBack(b) \/ Answer(b) \/ Fail(b)
      PROVE  FALSE
  <2>1. at'[c] = at[c]
    BY <1>1, <1>3 DEF Begin, BeginAs, Mint, MintOf, Load, WriteBack, Answer, Fail, End, Proceed
  <2> QED BY <2>1 DEF Stores
<1>4. ASSUME (\E op \in Op, d \in Device : Begin(c, op, d)) \/ Mint(c) \/ Load(c) \/ Answer(c) \/ Fail(c)
      PROVE  FALSE
  BY <1>1, <1>4 DEF Begin, BeginAs, Mint, MintOf, Load, Answer, Fail, End, Proceed, Stores
<1>5. CASE SessionTick \/ UNCHANGED sessionVars
  BY <1>5 DEF SessionTick, sessionVars, callVars, Stores
<1> QED BY <1>2, <1>3, <1>4, <1>5 DEF SessionsNext

(* CrudService.update writes back what it read: for another device, always   *)
(* a session that device had while the call ran.                           *)
THEOREM LostCorrect == SessionsSpec => LostOnlyMeanwhile
<1>1. OwnInv /\ SeenInv /\ [SessionsNext]_sessionVars =>
         [\A c \in Call : Stores(c) => \A d \in Device \ {device(c)} :
            document'.refreshTokens[d] \in seen[c][d]]_sessionVars
  <2> SUFFICES ASSUME OwnInv, SeenInv, [SessionsNext]_sessionVars, NEW c \in Call, Stores(c),
                      NEW d \in Device \ {device(c)}
               PROVE  document'.refreshTokens[d] \in seen[c][d]
    OBVIOUS
  <2>1. document' = copy[c]
    BY StoreOfOne
  <2>2. Pending(c) /\ at[c] \in {"store", "storeAgain"}
    BY DEF Stores, Pending
  <2> QED BY <2>1, <2>2 DEF SeenInv
<1> QED BY <1>1, SessionsStart, OwnStep, SeenStep, PTL DEF SessionsSpec, LostOnlyMeanwhile

(* With renewal, signIn and refreshTokens answer with the session of the    *)
(* device, unless another update was written meanwhile.                    *)
THEOREM AnswersCorrect == ASSUME Renewal PROVE SessionsSpec => AnswersValid
<1>1. AnswerInv /\ [SessionsNext]_sessionVars =>
         [\A c \in Call : Answers(c) /\ request[c].op \in {"signIn", "refresh"} /\ alone[c]
            => document.refreshTokens[device(c)] = token[c]]_sessionVars
  BY DEF AnswerInv, Answers, Tokens
<1> QED BY <1>1, SessionsStart, OwnStep, AnswerStep, PTL DEF SessionsSpec, AnswersValid


-----------------------------------------------------------------------------
(* Cron jobs, for any number of replicas and every schedule.                *)

(* What is over has been run, or lost; what runs has been run.              *)
Accounted ==
    /\ \A t \in Tick : leases[t] # 0 => t \in executed \cup lost
    /\ \A t \in Tick, rep \in Replica :
          /\ ticks[rep][t] = "ended" => t \in executed \cup lost
          /\ ticks[rep][t] = "running" => t \in executed

(* A lease is asked for while a timer may be late, and outlasts that.       *)
Outlasts ==
    /\ \A f \in Fires : leases[f] # 0 => f + Lag < leases[f]
    /\ \A f \in Fires, rep \in Replica : ticks[rep][f] = "leasing" => ~ bullMq /\ now \in f..(f + Lag)

(* Whoever runs a tick has its lease, or was handed it by the queue.        *)
Entitled ==
    /\ ~ bullMq => queued = {} /\ \A f \in Fires \ openly, rep \in Replica : ticks[rep][f] = "running" => leases[f] # 0
    /\ bullMq => Fires \cap openly = {} /\ \A f \in queued, rep \in Replica : ticks[rep][f] # "running"
    /\ \A f \in Fires \ openly, r, s \in Replica : ticks[r][f] = "running" /\ ticks[s][f] = "running" => r = s

CronInv == CronTypeOK /\ Accounted /\ Outlasts /\ Entitled

LEMMA Ticks == /\ Fires \subseteq Nat /\ Fires \subseteq Tick /\ 0 \notin Fires /\ -1 \notin Fires
               /\ StartUp \in Tick /\ Manual \in Tick /\ StartUp \notin Fires /\ Manual \notin Fires
               /\ Lag \in Nat /\ LeaseTtl \in Nat /\ Lag < LeaseTtl /\ DrainTime \in Nat
               /\ \A t : Ttl(t) \in Nat
               /\ \A f \in Fires : Ttl(f) = LeaseTtl
BY CronAssumption DEF Tick, StartUp, Manual, Ttl

LEMMA CronStart == CronInit => CronInv
BY Ticks DEF CronInit, CronInv, CronTypeOK, Accounted, Outlasts, Entitled, Stage

(* A replica goes to a stage of a tick at which it does not run it: what    *)
(* the parts say of the others stays as it is.                              *)
LEMMA CronGoes ==
  ASSUME CronInv, NEW rep \in Replica, NEW t \in Tick, NEW stage \in Stage, To(rep, t, stage)
  PROVE  /\ ticks' \in [Replica -> [Tick -> Stage]]
         /\ ticks'[rep][t] = stage
         /\ \A r \in Replica, u \in Tick : r # rep \/ u # t => ticks'[r][u] = ticks[r][u]
BY DEF CronInv, CronTypeOK, To

LEMMA CronRests ==
  ASSUME CronInv, NEW rep \in Replica, NEW t \in Tick, NEW stage \in {"leasing", "ended"}, To(rep, t, stage),
         UNCHANGED <<now, bullMq, queued, leases, executed, openly>>, lost \subseteq lost',
         stage = "ended" => t \in executed \cup lost',
         stage = "leasing" /\ t \in Fires => ~ bullMq /\ now \in t..(t + Lag)
  PROVE  Accounted' /\ Outlasts' /\ Entitled' /\ ticks' \in [Replica -> [Tick -> Stage]]
<1>0. "leasing" # "ended" /\ "leasing" # "running" /\ "ended" # "running" /\ stage \in Stage
  BY DEF Stage
<1>1. /\ ticks' \in [Replica -> [Tick -> Stage]]
      /\ ticks'[rep][t] = stage
      /\ \A r \in Replica, u \in Tick : r # rep \/ u # t => ticks'[r][u] = ticks[r][u]
  BY <1>0, CronGoes
<1>2. \A r \in Replica, u \in Tick : ticks'[r][u] = "running" => ticks[r][u] = "running"
  BY <1>0, <1>1
<1>3. Accounted'
  <2>1. \A u \in Tick : leases'[u] # 0 => u \in executed' \cup lost'
    BY DEF CronInv, Accounted
  <2>2. ASSUME NEW u \in Tick, NEW r \in Replica, ticks'[r][u] = "ended" PROVE u \in executed' \cup lost'
    BY <1>0, <1>1, <2>2 DEF CronInv, Accounted
  <2>3. ASSUME NEW u \in Tick, NEW r \in Replica, ticks'[r][u] = "running" PROVE u \in executed'
    BY <1>2, <2>3 DEF CronInv, Accounted
  <2> QED BY <2>1, <2>2, <2>3 DEF Accounted
<1>4. Outlasts'
  <2>1. ASSUME NEW f \in Fires, NEW r \in Replica, ticks'[r][f] = "leasing" PROVE ~ bullMq' /\ now' \in f..(f + Lag)
    BY <1>0, <1>1, <2>1, Ticks DEF CronInv, Outlasts
  <2> QED BY <2>1 DEF CronInv, Outlasts
<1>5. Entitled'
  BY <1>2, Ticks DEF CronInv, Entitled, CronTypeOK
<1> QED BY <1>1, <1>3, <1>4, <1>5

LEMMA CronLeases ==
  ASSUME CronInv, NEW rep \in Replica, NEW t \in Tick, ticks[rep][t] = "leasing", leases' = [leases EXCEPT ![t] = now + Ttl(t)]
  PROVE  /\ leases' \in [Tick -> Nat]
         /\ \A f \in Fires : leases'[f] # 0 => f + Lag < leases'[f]
         /\ \A u \in Tick \ {t} : leases'[u] = leases[u]
         /\ t \in Fires => leases'[t] # 0
<1> USE Ticks DEF CronInv, CronTypeOK
<1>1. now + Ttl(t) \in Nat
  OBVIOUS
<1>2. t \in Fires => t + Lag < now + Ttl(t)
  BY DEF Outlasts
<1> QED BY <1>1, <1>2 DEF Outlasts

(* A replica has come by a tick, which it runs or, when it is busy, loses.  *)
LEMMA CronRuns ==
  ASSUME CronInv, NEW rep \in Replica, NEW t \in Tick, runTick(rep, t), UNCHANGED <<now, bullMq, up, drainBy>>,
         ticks[rep][t] # "running",
         queued' \subseteq queued,
         leases' \in [Tick -> Nat], \A f \in Fires : leases'[f] # 0 => f + Lag < leases'[f],
         \A u \in Tick \ {t} : leases'[u] = leases[u],
         openly' = openly \/ openly' = openly \cup (executed' \cap {t}),
         t \in Fires /\ ~ bullMq => t \in openly' \/ t \notin executed' \/ leases'[t] # 0,
         t \in Fires /\ t \notin openly' /\ t \in executed' => t \notin queued' /\ \A r \in Replica : ticks[r][t] # "running",
         bullMq => openly' \cap Fires = openly \cap Fires,
         t \in Fires /\ leases[t] # 0 => leases'[t] # 0
  PROVE  CronInv'
<1> USE Ticks
<1>0. "running" # "ended" /\ "leasing" # "running" /\ "leasing" # "ended" /\ {"ended", "running"} \subseteq Stage
  BY DEF Stage
<1>1. PICK stage \in {"ended", "running"} :
        /\ To(rep, t, stage)
        /\ stage = "running" => executed' = executed \cup {t} /\ lost' = lost
        /\ stage = "ended" => lost' = lost \cup {t} /\ executed' = executed
  BY DEF runTick
<1>2. /\ ticks' \in [Replica -> [Tick -> Stage]]
      /\ ticks'[rep][t] = stage
      /\ \A r \in Replica, u \in Tick : r # rep \/ u # t => ticks'[r][u] = ticks[r][u]
  BY <1>0, <1>1, CronGoes
<1>3. executed \subseteq executed' /\ lost \subseteq lost' /\ t \in executed' \cup lost'
  BY <1>1
<1>4. CronTypeOK'
  BY <1>1, <1>2, <1>3 DEF CronInv, CronTypeOK
<1>5. Accounted'
  <2>1. ASSUME NEW u \in Tick, leases'[u] # 0 PROVE u \in executed' \cup lost'
    BY <1>3, <2>1 DEF CronInv, Accounted
  <2>2. ASSUME NEW u \in Tick, NEW r \in Replica, ticks'[r][u] = "ended" PROVE u \in executed' \cup lost'
    BY <1>2, <1>3, <2>2 DEF CronInv, Accounted
  <2>3. ASSUME NEW u \in Tick, NEW r \in Replica, ticks'[r][u] = "running" PROVE u \in executed'
    BY <1>0, <1>1, <1>2, <1>3, <2>3 DEF CronInv, Accounted
  <2> QED BY <2>1, <2>2, <2>3 DEF Accounted
<1>6. Outlasts'
  <2>1. ASSUME NEW f \in Fires, NEW r \in Replica, ticks'[r][f] = "leasing" PROVE ~ bullMq' /\ now' \in f..(f + Lag)
    BY <1>0, <1>2, <2>1 DEF CronInv, Outlasts
  <2> QED BY <2>1 DEF Outlasts
<1>7. Entitled'
  <2>0. openly \subseteq openly' /\ queued \subseteq Fires
    BY DEF CronInv, CronTypeOK
  <2>1. \A r \in Replica, u \in Tick : ticks'[r][u] = "running" =>
            ticks[r][u] = "running" \/ (r = rep /\ u = t /\ t \in executed')
    BY <1>0, <1>1, <1>2
  <2>2. ASSUME ~ bullMq', NEW f \in Fires \ openly', NEW r \in Replica, ticks'[r][f] = "running" PROVE leases'[f] # 0
    <3>1. CASE ticks[r][f] = "running"
      BY <2>0, <2>2, <3>1 DEF CronInv, Entitled
    <3>2. CASE f = t /\ t \in executed'
      BY <2>2, <3>2
    <3> QED BY <2>1, <2>2, <3>1, <3>2
  <2>3. ASSUME bullMq', NEW f \in queued', NEW r \in Replica PROVE ticks'[r][f] # "running"
    BY <2>0, <2>1, <2>3 DEF CronInv, Entitled
  <2>4. ASSUME NEW f \in Fires \ openly', NEW r \in Replica, NEW s \in Replica, ticks'[r][f] = "running", ticks'[s][f] = "running"
        PROVE  r = s
    BY <2>0, <2>1, <2>4 DEF CronInv, Entitled
  <2>5. ~ bullMq' => queued' = {}
    BY DEF CronInv, Entitled
  <2>6. bullMq' => Fires \cap openly' = {}
    BY DEF CronInv, Entitled
  <2> QED BY <2>2, <2>3, <2>4, <2>5, <2>6 DEF Entitled
<1> QED BY <1>4, <1>5, <1>6, <1>7 DEF CronInv

LEMMA CronStep == ASSUME CronInv, [CronNext]_cronVars PROVE CronInv'
<1> USE Ticks
<1>1. ASSUME NEW rep \in Replica, Register(rep) PROVE CronInv'
  <2>1. Accounted' /\ Outlasts' /\ Entitled' /\ ticks' \in [Replica -> [Tick -> Stage]]
    BY <1>1, CronRests DEF Register, History
  <2> QED BY <1>1, <2>1 DEF Register, History, CronInv, CronTypeOK
<1>2. ASSUME NEW rep \in Replica, Trigger(rep) PROVE CronInv'
  <2>1. Triggered(rep) \in {StartUp, Manual}
    BY DEF Triggered
  <2>2. Accounted' /\ Outlasts' /\ Entitled' /\ ticks' \in [Replica -> [Tick -> Stage]]
    BY <1>2, <2>1, CronRests DEF Trigger, History, Process
  <2> QED BY <1>2, <2>2 DEF Trigger, History, Process, CronInv, CronTypeOK
<1>3. ASSUME NEW rep \in Replica, NEW f \in Fires, Fire(rep, f) PROVE CronInv'
  <2>1. Accounted' /\ Outlasts' /\ Entitled' /\ ticks' \in [Replica -> [Tick -> Stage]]
    BY <1>3, CronRests DEF Fire, History, Process
  <2> QED BY <1>3, <2>1 DEF Fire, History, Process, CronInv, CronTypeOK
<1>4. ASSUME NEW rep \in Replica, NEW t \in Tick, acquireLease(rep, t) PROVE CronInv'
  <2>1. CASE Held(t)
    <3>1. t \in executed \cup lost
      BY <2>1 DEF Held, CronInv, CronTypeOK, Accounted
    <3>2. Accounted' /\ Outlasts' /\ Entitled' /\ ticks' \in [Replica -> [Tick -> Stage]]
      BY <1>4, <2>1, <3>1, CronRests DEF acquireLease, History, Process
    <3> QED BY <1>4, <2>1, <3>2 DEF acquireLease, History, Process, CronInv, CronTypeOK
  <2>2. CASE ~ Held(t)
    <3>1. leases' = [leases EXCEPT ![t] = now + Ttl(t)] /\ runTick(rep, t) /\ ticks[rep][t] = "leasing"
          /\ UNCHANGED <<now, bullMq, up, drainBy, queued, openly>>
      BY <1>4, <2>2 DEF acquireLease, Process
    <3>2. t \in Fires => leases[t] = 0 /\ ~ bullMq /\ queued = {}
      BY <2>2, <3>1 DEF Held, CronInv, CronTypeOK, Outlasts, Entitled
    <3>3. t \in Fires /\ t \notin openly' => t \notin queued' /\ \A r \in Replica : ticks[r][t] # "running"
      BY <3>1, <3>2 DEF CronInv, Entitled
    <3> QED BY <3>1, <3>2, <3>3, CronLeases, CronRuns
  <2> QED BY <2>1, <2>2
<1>5. ASSUME NEW rep \in Replica, NEW t \in Tick, failOpen(rep, t) PROVE CronInv'
  <2>1. ticks[rep][t] = "leasing" /\ runTick(rep, t) /\ UNCHANGED <<now, bullMq, up, drainBy, queued>>
        /\ openly' = openly \cup (executed' \cap {t})
    BY <1>5 DEF failOpen, Process
  <2>2. UNCHANGED leases \/ leases' = [leases EXCEPT ![t] = now + Ttl(t)]
    BY <1>5 DEF failOpen
  <2>3. /\ leases' \in [Tick -> Nat]
        /\ \A f \in Fires : leases'[f] # 0 => f + Lag < leases'[f]
        /\ \A u \in Tick \ {t} : leases'[u] = leases[u]
        /\ t \in Fires /\ leases[t] # 0 => leases'[t] # 0
    BY <2>1, <2>2, CronLeases DEF CronInv, CronTypeOK, Outlasts
  <2>4. bullMq => openly' \cap Fires = openly \cap Fires
    BY <2>1 DEF CronInv, Outlasts
  <2> QED BY <2>1, <2>3, <2>4, CronRuns
<1>6. ASSUME NEW rep \in Replica, NEW t \in Tick, Finish(rep, t) PROVE CronInv'
  <2>1. t \in executed
    BY <1>6 DEF Finish, CronInv, Accounted
  <2>2. Accounted' /\ Outlasts' /\ Entitled' /\ ticks' \in [Replica -> [Tick -> Stage]]
    BY <1>6, <2>1, CronRests DEF Finish, History, Process
  <2> QED BY <1>6, <2>2 DEF Finish, History, Process, CronInv, CronTypeOK
<1>7. ASSUME NEW f \in Fires, Enqueue(f) PROVE CronInv'
  BY <1>7 DEF Enqueue, History, Process, CronInv, CronTypeOK, Accounted, Outlasts, Entitled
<1>8. ASSUME NEW rep \in Replica, NEW f \in Fires, Take(rep, f) PROVE CronInv'
  <2>1. f \in queued /\ queued' = queued \ {f} /\ runTick(rep, f) /\ UNCHANGED <<now, bullMq, up, drainBy, leases, openly>>
    BY <1>8 DEF Take, Process
  <2>2. bullMq /\ \A r \in Replica : ticks[r][f] # "running"
    BY <2>1 DEF CronInv, CronTypeOK, Entitled
  <2>3. leases' \in [Tick -> Nat] /\ \A g \in Fires : leases'[g] # 0 => g + Lag < leases'[g]
    BY <2>1 DEF CronInv, CronTypeOK, Outlasts
  <2> QED BY <2>1, <2>2, <2>3, CronRuns
<1>9. ASSUME NEW rep \in Replica, Serving(rep), Leave(rep) PROVE CronInv'
  <2>1. PICK taken \in SUBSET {t \in Tick : ticks[rep][t] = "leasing" /\ ~ Held(t)} :
            /\ up' = [up EXCEPT ![rep] = "gone"]
            /\ drainBy' = [drainBy EXCEPT ![rep] = 0]
            /\ leases' = [t \in Tick |-> IF t \in taken THEN now + Ttl(t) ELSE leases[t]]
            /\ lost' = lost \cup Running(rep) \cup taken
            /\ ticks' = [ticks EXCEPT ![rep] = [t \in Tick |->
                            IF @[t] = "leasing" /\ t \notin taken THEN "none"
                            ELSE IF @[t] = "none" THEN "none" ELSE "ended"]]
            /\ queued' \in {queued, IF bullMq THEN queued \cup (Running(rep) \cap Fires) ELSE queued}
            /\ UNCHANGED <<now, bullMq, executed, openly>>
    BY <1>9 DEF Leave
  <2>2. /\ ticks' \in [Replica -> [Tick -> Stage]]
        /\ \A r \in Replica \ {rep}, u \in Tick : ticks'[r][u] = ticks[r][u]
        /\ \A u \in Tick : /\ ticks'[rep][u] \in {"none", "ended"}
                           /\ ticks'[rep][u] = "ended" => ticks[rep][u] \in {"ended", "running"} \/ u \in taken
    BY <2>1 DEF CronInv, CronTypeOK, Stage
  <2>3. /\ leases' \in [Tick -> Nat]
        /\ \A u \in Tick \ taken : leases'[u] = leases[u]
        /\ \A f \in Fires \cap taken : f + Lag < leases'[f]
    BY <2>1 DEF CronInv, CronTypeOK, Outlasts
  <2>4. CronTypeOK'
    BY <2>1, <2>2, <2>3 DEF CronInv, CronTypeOK, Running
  <2>5. Accounted' /\ Outlasts'
    BY <2>1, <2>2, <2>3 DEF CronInv, CronTypeOK, Accounted, Outlasts, Running
  <2>6. Entitled'
    <3>1. \A r \in Replica, u \in Tick : ticks'[r][u] = "running" => r # rep /\ ticks[r][u] = "running"
      BY <2>2
    <3>2. \A f \in Fires : leases[f] # 0 => leases'[f] # 0
      <4> SUFFICES ASSUME NEW f \in Fires, leases[f] # 0 PROVE leases'[f] # 0
        OBVIOUS
      <4>1. f \in Nat /\ f + Lag \in Nat /\ leases'[f] \in Nat
        BY <2>3
      <4>2. CASE f \in taken
        BY <2>3, <4>1, <4>2
      <4>3. CASE f \notin taken
        BY <2>3, <4>3
      <4> QED BY <4>2, <4>3
    <3>3. ASSUME bullMq', NEW f \in queued', NEW r \in Replica, ticks'[r][f] = "running" PROVE FALSE
      <4>1. f \in Fires /\ f \notin openly /\ bullMq /\ r # rep /\ ticks[r][f] = "running"
        BY <2>1, <2>4, <3>1, <3>3 DEF CronInv, CronTypeOK, Entitled
      <4>2. CASE f \in queued
        BY <4>1, <4>2 DEF CronInv, Entitled
      <4>3. CASE ticks[rep][f] = "running"
        BY <4>1, <4>3 DEF CronInv, Entitled
      <4> QED BY <2>1, <3>3, <4>2, <4>3 DEF Running
    <3>4. ~ bullMq' => queued' = {}
      BY <2>1 DEF CronInv, Entitled
    <3> QED BY <2>1, <3>1, <3>2, <3>3, <3>4 DEF CronInv, Entitled
  <2> QED BY <2>4, <2>5, <2>6 DEF CronInv
<1>10. ASSUME NEW rep \in Replica, Shutdown(rep) PROVE CronInv'
  BY <1>10 DEF Shutdown, History, CronInv, CronTypeOK, Accounted, Outlasts, Entitled
<1>11. CASE CronTick
  BY <1>11 DEF CronTick, History, CronInv, CronTypeOK, Accounted, Outlasts, Entitled
<1>12. CASE UNCHANGED cronVars
  BY <1>12 DEF cronVars, CronInv, CronTypeOK, Accounted, Outlasts, Entitled
<1>13. ASSUME NEW rep \in Replica, Die(rep) \/ Drained(rep) PROVE CronInv'
  BY <1>9, <1>13 DEF Die, Drained, Serving
<1> QED BY <1>1, <1>2, <1>3, <1>4, <1>5, <1>6, <1>7, <1>8, <1>10, <1>11, <1>12, <1>13 DEF CronNext

LEMMA CronInvariant == CronSpec => []CronInv
BY CronStart, CronStep, PTL DEF CronSpec

(* A replica is through with a tick only when somebody has run it, or died  *)
(* with its lease, or was busy when it had it (runTick of the cron jobs).   *)
THEOREM NoTickLostCorrect == CronSpec => []NoTickLost
<1>1. CronInv => NoTickLost
  BY DEF CronInv, Accounted, NoTickLost
<1> QED BY <1>1, CronInvariant, PTL

(* The lease of a scheduled tick is given once, and two replicas run a tick *)
(* together only when a request for its lease had failed.                   *)
THEOREM WonOnceCorrect == CronSpec => WonOnce
<1>1. ASSUME CronInv, CronInv', [CronNext]_cronVars, NEW t \in Tick \ {Manual}, leases'[t] # leases[t], leases[t] # 0
      PROVE  t = StartUp /\ now >= leases[t]
  <2>1. PICK rep \in Replica : ticks[rep][t] = "leasing" /\ ~ Held(t)
    <3>1. ASSUME NEW rep \in Replica, NEW u \in Tick, acquireLease(rep, u) \/ failOpen(rep, u)
          PROVE  \E r \in Replica : ticks[r][t] = "leasing" /\ ~ Held(t)
      BY <1>1, <3>1 DEF acquireLease, failOpen, CronInv, CronTypeOK
    <3>2. ASSUME NEW rep \in Replica, Leave(rep)
          PROVE  \E r \in Replica : ticks[r][t] = "leasing" /\ ~ Held(t)
      BY <1>1, <3>2 DEF Leave, CronInv, CronTypeOK
    <3>3. \/ \E rep \in Replica : Leave(rep) \/ \E u \in Tick : acquireLease(rep, u) \/ failOpen(rep, u)
          \/ UNCHANGED leases
      BY <1>1 DEF CronNext, Register, Trigger, Shutdown, Fire, Take, Finish, Enqueue, CronTick, Die, Drained, cronVars
    <3> QED BY <1>1, <3>1, <3>2, <3>3
  <2>2. now >= leases[t]
    BY <1>1, <2>1 DEF Held, CronInv, CronTypeOK
  <2>3. t \notin Fires
    BY <1>1, <2>1, <2>2, Ticks DEF CronInv, CronTypeOK, Outlasts
  <2> QED BY <2>2, <2>3 DEF Tick
<1>2. ASSUME CronInv', NEW t \in Tick \ {Manual}, NEW r \in Replica, NEW s \in Replica,
             {t} \subseteq Running(r)' \cap Running(s)', r # s
      PROVE  t \in openly' \/ t = StartUp
  BY <1>2 DEF CronInv, Entitled, Running, Tick
<1>3. CronInv /\ CronInv' /\ [CronNext]_cronVars =>
        [\A t \in Tick \ {Manual}, r, s \in Replica :
          /\ leases'[t] # leases[t] /\ leases[t] # 0 => t = StartUp /\ now >= leases[t]
          /\ {t} \subseteq Running(r)' \cap Running(s)' /\ r # s
                => t \in openly' \/ t = StartUp]_cronVars
  BY <1>1, <1>2
<1> QED BY <1>3, CronInvariant, PTL DEF CronSpec, WonOnce

-----------------------------------------------------------------------------
(* Rate limits, for any number of clients, any capacities and any limit.    *)

(* The passes of a counter: those of the window that is open, and those     *)
(* before it.                                                               *)
SinceOpened(counter, log) == {e \in log : counter.until <= e[1] + Window}

(* A counter says how many of its window have passed, up to the limit, and  *)
(* no more than the limit did before it; when it is closed all of them are  *)
(* of one window, which is over.                                            *)
Limited(counter, log, hour) ==
    /\ counter \in Counter \cup {NoCounter}
    /\ log \subseteq Nat \X Nat /\ IsFiniteSet(log)
    /\ \A e \in log : e[1] <= hour /\ hour < e[1] + Window
    /\ \A e \in log : e[1] = hour => e[2] <= Cardinality({d \in log : d[1] = hour})
    /\ counter.until <= hour + Window
    /\ ~ (hour < counter.until) => Cardinality(log) <= Limit /\ \A e \in log : e[1] < hour
    /\ hour < counter.until =>
          /\ Cardinality(SinceOpened(counter, log)) <= Limit
          /\ Cardinality(SinceOpened(counter, log)) <= counter.count
          /\ Cardinality(log \ SinceOpened(counter, log)) <= Limit

RateInv ==
    /\ now \in Nat
    /\ counters \in [Store -> [Cell -> Counter \cup {NoCounter}]]
    /\ cardinality \in Counter \cup {NoCounter}
    /\ passes \in [Store -> [Cell -> SUBSET (Nat \X Nat)]]
    /\ \A s \in Store, x \in Cell : Limited(counters[s][x], passes[s][x], now)

LEMMA RateFacts == /\ Limit \in Nat /\ Window \in Nat \ {0} /\ MaxCount \in Nat /\ Limit < MaxCount
                   /\ Shared \in Store /\ Shared \notin Replica /\ Replica \subseteq Store
                   /\ \A c \in Client : c \in Cell /\ SlotOf[c] \in Cell
BY RateAssumption DEF MaxCount, Store, Cell

LEMMA CounterFields ==
  /\ NoCounter.count = 0 /\ NoCounter.until = 0 /\ NoCounter \in [count : Nat, until : Nat]
  /\ \A counter \in Counter \cup {NoCounter} : counter.count \in 0..MaxCount /\ counter.until \in Nat
  /\ \A n \in 1..MaxCount, u \in Nat : [count |-> n, until |-> u] \in Counter
BY RateFacts DEF Counter, NoCounter

LEMMA Bumped ==
  ASSUME now \in Nat, NEW counter \in Counter \cup {NoCounter}
  PROVE  /\ Bump(counter) \in Counter
         /\ Open(Bump(counter))
         /\ Open(counter) => /\ Bump(counter).until = counter.until
                             /\ Bump(counter).count >= counter.count
                             /\ Bump(counter).count <= Limit => Bump(counter).count = counter.count + 1
         /\ ~ Open(counter) => Bump(counter).until = now + Window /\ Bump(counter).count = 1
<1> USE RateFacts, CounterFields
<1>1. CASE Open(counter)
  <2>1. counter \in Counter
    BY <1>1 DEF Open
  <2>2. Bump(counter) = [counter EXCEPT !.count = IF @ < MaxCount THEN @ + 1 ELSE @]
    BY <1>1 DEF Bump
  <2> QED BY <1>1, <2>1, <2>2 DEF Open, Counter
<1>2. CASE ~ Open(counter)
  BY <1>2 DEF Bump, Open, Counter
<1> QED BY <1>1, <1>2

(* A pass is not one of those before it.                                    *)
LEMMA PassIsNew ==
  ASSUME now \in Nat, NEW counter, NEW log, Limited(counter, log, now)
  PROVE  /\ NextPass(log) \in Nat \X Nat /\ NextPass(log)[1] = now /\ NextPass(log) \notin log
         /\ \A e \in log \cup {NextPass(log)} :
                e[1] = now => e[2] <= Cardinality({d \in log \cup {NextPass(log)} : d[1] = now})
<1>1. PICK these : these = {e \in log : e[1] = now}
  OBVIOUS
<1>2. these \subseteq log /\ IsFiniteSet(log) /\ log \subseteq Nat \X Nat
  BY <1>1 DEF Limited
<1>3. IsFiniteSet(these) /\ Cardinality(these) \in Nat
  BY <1>2, FS_Subset, FS_CardinalityType
<1>4. PICK n \in Nat : n = Cardinality(these)
  BY <1>3
<1>5. PICK pass : pass = <<now, n + 1>>
  OBVIOUS
<1>6. NextPass(log) = pass
  BY <1>1, <1>4, <1>5 DEF NextPass
<1>7. pass \in Nat \X Nat /\ pass[1] = now /\ pass[2] = n + 1
  BY <1>5
<1>8. \A e \in log : e[2] \in Nat /\ (e[1] = now => e[2] <= n)
  BY <1>1, <1>2, <1>4 DEF Limited
<1>9. pass \notin log
  BY <1>7, <1>8
<1>10. {d \in log \cup {pass} : d[1] = now} = these \cup {pass}
  BY <1>1, <1>7
<1>11. Cardinality(these \cup {pass}) = n + 1
  BY <1>2, <1>3, <1>4, <1>9, FS_AddElement
<1>12. \A e \in log \cup {pass} : e[1] = now => e[2] <= n + 1
  BY <1>7, <1>8
<1> QED BY <1>6, <1>7, <1>9, <1>10, <1>11, <1>12

(* A hit that is counted, with its pass when there is one                   *)
LEMMA HitLimited ==
  ASSUME now \in Nat, NEW counter, NEW log, Limited(counter, log, now), NEW after,
         after = log \/ (Bump(counter).count <= Limit /\ after = log \cup {NextPass(log)})
  PROVE  Limited(Bump(counter), after, now)
<1> USE RateFacts, CounterFields
<1>0. PICK hit : hit = Bump(counter)
  OBVIOUS
<1>1. /\ hit \in Counter /\ Open(hit) /\ counter \in Counter \cup {NoCounter}
      /\ counter.count \in Nat /\ counter.until \in Nat /\ hit.count \in Nat /\ hit.until \in Nat
  BY <1>0, Bumped DEF Limited
<1>2. /\ Open(counter) => hit.until = counter.until /\ hit.count >= counter.count
                          /\ (hit.count <= Limit => hit.count = counter.count + 1)
      /\ ~ Open(counter) => hit.until = now + Window /\ hit.count = 1
  BY <1>0, <1>1, Bumped
<1> DEFINE fresh == SinceOpened(hit, log)
<1> DEFINE older == log \ fresh
<1>3. IsFiniteSet(log) /\ log \subseteq Nat \X Nat /\ \A e \in log : e[1] \in Nat /\ e[2] \in Nat /\ e[1] <= now /\ now < e[1] + Window
  BY DEF Limited
<1>4. IsFiniteSet(fresh) /\ IsFiniteSet(older) /\ Cardinality(fresh) \in Nat /\ Cardinality(older) \in Nat
  BY <1>3, FS_Subset, FS_CardinalityType DEF SinceOpened
<1>5. /\ Cardinality(fresh) <= Limit /\ Cardinality(fresh) <= hit.count /\ Cardinality(older) <= Limit
      /\ hit.count <= Limit => Cardinality(fresh) + 1 <= hit.count
  <2>1. CASE Open(counter)
    <3>1. fresh = SinceOpened(counter, log)
      BY <1>2, <2>1 DEF SinceOpened
    <3>2. Cardinality(fresh) <= Limit /\ Cardinality(fresh) <= counter.count /\ Cardinality(older) <= Limit
      BY <2>1, <3>1 DEF Limited, Open
    <3> HIDE DEF fresh, older
    <3> QED BY <1>1, <1>2, <1>4, <2>1, <3>2
  <2>2. CASE ~ Open(counter)
    <3>1. \A e \in log : e[1] < now
      BY <2>2 DEF Limited, Open
    <3>2. fresh = {} /\ older = log
      BY <1>2, <1>3, <2>2, <3>1 DEF SinceOpened
    <3>3. Cardinality(log) <= Limit
      BY <2>2 DEF Limited, Open
    <3>4. Cardinality(fresh) = 0 /\ Cardinality(older) <= Limit
      BY <3>2, <3>3, FS_EmptySet
    <3> HIDE DEF fresh, older
    <3> QED BY <1>1, <1>2, <1>4, <2>2, <3>4
  <2> QED BY <2>1, <2>2
<1>7. hit.until <= now + Window
  BY <1>1, <1>2 DEF Limited
<1>10. ASSUME after = log PROVE Limited(hit, after, now)
  BY <1>1, <1>3, <1>5, <1>7, <1>10 DEF Limited, Open
<1>11. ASSUME hit.count <= Limit, after = log \cup {NextPass(log)} PROVE Limited(hit, after, now)
  <2>0. PICK pass : pass = NextPass(log)
    OBVIOUS
  <2>1. /\ pass \in Nat \X Nat /\ pass[1] = now /\ pass \notin log /\ after = log \cup {pass}
        /\ \A e \in after : e[1] = now => e[2] <= Cardinality({d \in after : d[1] = now})
    BY <1>11, <2>0, PassIsNew
  <2>2. SinceOpened(hit, after) = fresh \cup {pass} /\ after \ SinceOpened(hit, after) = older
    BY <1>7, <2>1 DEF SinceOpened
  <2>3. pass \notin fresh
    BY <2>1 DEF SinceOpened
  <2>4. IsFiniteSet(after)
    BY <1>3, <2>1, FS_AddElement
  <2> HIDE DEF fresh, older
  <2>5. Cardinality(fresh \cup {pass}) = Cardinality(fresh) + 1
    BY <1>4, <2>3, FS_AddElement
  <2>6. /\ Cardinality(SinceOpened(hit, after)) <= Limit
        /\ Cardinality(SinceOpened(hit, after)) <= hit.count
        /\ Cardinality(after \ SinceOpened(hit, after)) <= Limit
    <3>1. Cardinality(fresh) + 1 <= hit.count /\ Cardinality(older) <= Limit
      BY <1>5, <1>11
    <3>2. Cardinality(SinceOpened(hit, after)) = Cardinality(fresh) + 1 /\ Cardinality(after \ SinceOpened(hit, after)) = Cardinality(older)
      BY <2>2, <2>5, Zenon
    <3>3. Limit \in Nat /\ hit.count \in Nat
      BY <1>1
    <3> QED BY <1>4, <1>11, <3>1, <3>2, <3>3
  <2>8. \A e \in after : e[1] <= now /\ now < e[1] + Window
    BY <1>3, <2>1
  <2>9. after \subseteq Nat \X Nat
    BY <1>3, <2>1
  <2> QED BY <1>1, <1>7, <2>1, <2>4, <2>6, <2>8, <2>9 DEF Limited, Open
<1> QED BY <1>0, <1>10, <1>11

(* A counter whose window is over may be dropped.                           *)
LEMMA DroppedLimited ==
  ASSUME now \in Nat, NEW counter, NEW log, Limited(counter, log, now), ~ Open(counter)
  PROVE  Limited(NoCounter, log, now)
BY RateFacts, CounterFields DEF Limited, Open

LEMMA EmptyLimited == ASSUME now \in Nat PROVE Limited(NoCounter, {}, now) 
BY RateFacts, CounterFields, FS_EmptySet DEF Limited, Open

(* The time goes on, and passes are forgotten after a window.               *)
LEMMA TickLimited ==
  ASSUME NEW hour \in Nat, NEW counter, NEW log, Limited(counter, log, hour),
         NEW after, after = counter \/ (after = NoCounter /\ ~ (hour + 1 < counter.until))
  PROVE  Limited(after, {e \in log : hour + 1 < e[1] + Window}, hour + 1)
<1> DEFINE kept == {e \in log : hour + 1 < e[1] + Window}
<1> USE RateFacts, CounterFields
<1>1. /\ IsFiniteSet(log) /\ log \subseteq Nat \X Nat /\ \A e \in log : e[1] \in Nat /\ e[1] <= hour
      /\ counter \in Counter \cup {NoCounter} /\ counter.until \in Nat /\ counter.until <= hour + Window
  BY DEF Limited
<1>2. kept \subseteq log /\ IsFiniteSet(kept) /\ Cardinality(kept) <= Cardinality(log)
  BY <1>1, FS_Subset
<1> DEFINE fresh == SinceOpened(counter, log)
<1> DEFINE later == SinceOpened(counter, kept)
<1>3. /\ later \subseteq fresh /\ IsFiniteSet(fresh) /\ Cardinality(later) <= Cardinality(fresh)
      /\ (kept \ later) \subseteq (log \ fresh) /\ Cardinality(kept \ later) <= Cardinality(log \ fresh)
  <2>1. later \subseteq fresh /\ fresh \subseteq log /\ (kept \ later) \subseteq (log \ fresh) /\ (log \ fresh) \subseteq log
    BY <1>2 DEF SinceOpened
  <2> HIDE DEF later, fresh, kept
  <2> QED BY <1>1, <2>1, FS_Subset
<1>4. {Cardinality(log), Cardinality(kept), Cardinality(fresh), Cardinality(later),
       Cardinality(log \ fresh), Cardinality(kept \ later)} \subseteq Nat
  <2>1. IsFiniteSet(log \ fresh) /\ IsFiniteSet(later) /\ IsFiniteSet(kept \ later)
    BY <1>1, <1>2, <1>3, FS_Subset
  <2> QED BY <1>1, <1>2, <1>3, <2>1, FS_CardinalityType
<1>5. \A e \in kept : e[1] <= hour + 1 /\ hour + 1 < e[1] + Window /\ e[1] < hour + 1
  BY <1>1
<1>6. CASE hour + 1 < counter.until
  <2>1. after = counter
    BY <1>6
  <2>2. hour < counter.until
    BY <1>1, <1>6
  <2>3. Cardinality(fresh) <= Limit /\ Cardinality(fresh) <= counter.count /\ Cardinality(log \ fresh) <= Limit
    BY <2>2 DEF Limited
  <2>4. counter.count \in Nat
    BY <1>1
  <2>5. Cardinality(later) <= Limit /\ Cardinality(later) <= counter.count /\ Cardinality(kept \ later) <= Limit
    <3> HIDE DEF kept, fresh, later
    <3> QED BY <1>3, <1>4, <2>3, <2>4
  <2> QED BY <1>1, <1>2, <1>5, <1>6, <2>1, <2>5 DEF Limited, SinceOpened
<1>7. CASE ~ (hour + 1 < counter.until)
  <2>1. Cardinality(kept) <= Limit
    <3>1. CASE hour < counter.until
      <4>1. kept = later
        BY <1>1, <1>5, <1>7 DEF SinceOpened
      <4>2. Cardinality(fresh) <= Limit
        BY <3>1 DEF Limited
      <4> HIDE DEF kept, fresh, later
      <4> QED BY <1>3, <1>4, <4>1, <4>2
    <3>2. CASE ~ (hour < counter.until)
      <4>1. Cardinality(log) <= Limit
        BY <3>2 DEF Limited
      <4> HIDE DEF kept, fresh, later
      <4> QED BY <1>2, <1>4, <4>1
    <3> QED BY <3>1, <3>2
  <2>2. after.until \in Nat /\ ~ (hour + 1 < after.until) /\ after \in Counter \cup {NoCounter}
    BY <1>1, <1>7
  <2> QED BY <1>1, <1>2, <1>5, <2>1, <2>2 DEF Limited
<1> QED BY <1>6, <1>7

(* A store has charged a hit: the counter it was charged to is the next one *)
(* of a counter that said the truth, and so do the others.                  *)
Charged(s, hit) ==
    /\ hit.cell \in Cell
    /\ hit.table \in [Cell -> Counter \cup {NoCounter}]
    /\ \A x \in Cell \ {hit.cell} : Limited(hit.table[x], passes[s][x], now)
    /\ \E counter : Limited(counter, passes[s][hit.cell], now) /\ hit.table[hit.cell] = Bump(counter)

LEMMA ChargeHolds ==
  ASSUME RateInv, NEW s \in Store, NEW table, NEW cell \in Cell,
         table \in [Cell -> Counter \cup {NoCounter}],
         \A x \in Cell : Limited(table[x], passes[s][x], now)
  PROVE  Charged(s, Charge(table, cell))
<1>1. Bump(table[cell]) \in Counter
  BY Bumped DEF RateInv
<1>2. /\ Charge(table, cell).cell = cell
      /\ Charge(table, cell).table = [table EXCEPT ![cell] = Bump(@)]
  BY DEF Charge
<1>3. PICK after : after = [table EXCEPT ![cell] = Bump(@)]
  OBVIOUS
<1>4. after \in [Cell -> Counter \cup {NoCounter}] /\ after[cell] = Bump(table[cell])
      /\ \A x \in Cell \ {cell} : after[x] = table[x]
  BY <1>1, <1>3
<1> QED BY <1>2, <1>3, <1>4 DEF Charged

LEMMA LocalCharged == ASSUME RateInv, NEW rep \in Replica, NEW c \in Client PROVE Charged(rep, hitLocal(rep, c))
<1> USE RateFacts
<1>0. rep \in Store /\ counters[rep] \in [Cell -> Counter \cup {NoCounter}] /\ now \in Nat
  BY DEF RateInv
<1>1. PICK table : table = counters[rep]
  OBVIOUS
<1>2. WithoutExpired(table) \in [Cell -> Counter \cup {NoCounter}]
  BY <1>0, <1>1 DEF WithoutExpired
<1>3. \A x \in Cell : Limited(table[x], passes[rep][x], now)
  BY <1>0, <1>1 DEF RateInv
<1>4. \A x \in Cell : Limited(WithoutExpired(table)[x], passes[rep][x], now)
  BY <1>0, <1>3, DroppedLimited DEF WithoutExpired
<1>5. \E room \in {table, WithoutExpired(table)}, cell \in {c, SlotOf[c]} : hitLocal(rep, c) = Charge(room, cell)
  BY <1>1 DEF hitLocal, evictOldest
<1> QED BY <1>0, <1>1, <1>2, <1>3, <1>4, <1>5, ChargeHolds

LEMMA SharedCharged == ASSUME RateInv, NEW c \in Client PROVE Charged(Shared, hitShared(c)) /\ Counted(c) \in Counter \cup {NoCounter}
<1> USE RateFacts
<1>0. counters[Shared] \in [Cell -> Counter \cup {NoCounter}] /\ now \in Nat /\ \A x \in Cell : Limited(counters[Shared][x], passes[Shared][x], now)
  BY DEF RateInv
<1>1. \E cell \in {c, SlotOf[c]} : hitShared(c) = Charge(counters[Shared], cell)
  BY DEF hitShared
<1>2. Counted(c) \in Counter \cup {NoCounter}
  BY <1>0, Bumped DEF Counted, RateInv
<1> QED BY <1>0, <1>1, <1>2, ChargeHolds

(* The counters of a store after a hit, with its pass or without            *)
LEMMA ChargedLimited ==
  ASSUME RateInv, NEW s \in Store, NEW hit, Charged(s, hit), NEW x \in Cell
  PROVE  /\ Limited(hit.table[x], passes[s][x], now)
         /\ x = hit.cell /\ hit.table[hit.cell].count <= Limit =>
                Limited(hit.table[x], passes[s][x] \cup {NextPass(passes[s][x])}, now)
<1>1. CASE x # hit.cell
  BY <1>1 DEF Charged
<1>2. CASE x = hit.cell
  <2>1. PICK counter : Limited(counter, passes[s][hit.cell], now) /\ hit.table[hit.cell] = Bump(counter)
    BY DEF Charged
  <2> QED BY <1>2, <2>1, HitLimited DEF RateInv
<1> QED BY <1>1, <1>2

LEMMA PassHolds ==
  ASSUME RateInv, NEW s \in Store, NEW hit, Charged(s, hit), Passed(s, hit)
  PROVE  /\ passes' \in [Store -> [Cell -> SUBSET (Nat \X Nat)]]
         /\ \A x \in Cell : Limited(hit.table[x], passes'[s][x], now)
         /\ \A r \in Store \ {s} : passes'[r] = passes[r]
<1> USE RateFacts DEF RateInv
<1>1. PICK count : count = hit.table[hit.cell].count
  OBVIOUS
<1>2. hit.cell \in Cell
  BY DEF Charged
<1>3. CASE count > Limit \/ UNCHANGED passes
  <2>1. UNCHANGED passes
    <3>1. count \in Nat
      <4>1. hit.table[hit.cell] \in Counter \cup {NoCounter}
        BY <1>2 DEF Charged
      <4> QED BY <1>1, <4>1, CounterFields
    <3> QED BY <1>1, <1>3, <3>1 DEF Passed
  <2> QED BY <2>1, ChargedLimited
<1>4. CASE count <= Limit
  <2>1. passes' = [passes EXCEPT ![s][hit.cell] = @ \cup {NextPass(@)}]
    BY <1>1, <1>4 DEF Passed
  <2>2. NextPass(passes[s][hit.cell]) \in Nat \X Nat
    BY <1>2, PassIsNew
  <2>3. /\ passes' \in [Store -> [Cell -> SUBSET (Nat \X Nat)]]
        /\ passes'[s][hit.cell] = passes[s][hit.cell] \cup {NextPass(passes[s][hit.cell])}
        /\ \A x \in Cell \ {hit.cell} : passes'[s][x] = passes[s][x]
        /\ \A r \in Store \ {s} : passes'[r] = passes[r]
    BY <1>2, <2>1, <2>2
  <2>4. ASSUME NEW x \in Cell PROVE Limited(hit.table[x], passes'[s][x], now)
    <3> HIDE DEF RateInv
    <3>1. CASE x = hit.cell
      <4>1. Limited(hit.table[x], passes[s][x] \cup {NextPass(passes[s][x])}, now)
        BY <1>1, <1>4, <3>1, ChargedLimited
      <4> QED BY <2>3, <3>1, <4>1
    <3>2. CASE x # hit.cell
      <4>1. Limited(hit.table[x], passes[s][x], now)
        BY ChargedLimited
      <4> QED BY <2>3, <3>2, <4>1
    <3> QED BY <3>1, <3>2
  <2> QED BY <2>3, <2>4
<1>5. CASE ~ (count <= Limit)
  <2>1. UNCHANGED passes
    BY <1>1, <1>5 DEF Passed
  <2> QED BY <1>3, <2>1
<1> QED BY <1>4, <1>5

LEMMA RateStep == ASSUME RateInv, [RateNext]_rateVars PROVE RateInv'
<1> USE RateFacts
<1>0. /\ now \in Nat /\ counters \in [Store -> [Cell -> Counter \cup {NoCounter}]] /\ cardinality \in Counter \cup {NoCounter}
      /\ passes \in [Store -> [Cell -> SUBSET (Nat \X Nat)]]
      /\ \A s \in Store, x \in Cell : Limited(counters[s][x], passes[s][x], now)
  BY DEF RateInv
<1>1. ASSUME NEW c \in Client, Hit(c) PROVE RateInv'
  <2>1. PICK hit : hit = hitShared(c)
    OBVIOUS
  <2>2. counters' = [counters EXCEPT ![Shared] = hit.table] /\ cardinality' = Counted(c) /\ Passed(Shared, hit) /\ now' = now
    BY <1>1, <2>1 DEF Hit
  <2>3. Charged(Shared, hit) /\ Counted(c) \in Counter \cup {NoCounter} /\ hit.table \in [Cell -> Counter \cup {NoCounter}]
    BY <2>1, SharedCharged DEF Charged
  <2>4. /\ passes' \in [Store -> [Cell -> SUBSET (Nat \X Nat)]]
        /\ \A x \in Cell : Limited(hit.table[x], passes'[Shared][x], now)
        /\ \A r \in Store \ {Shared} : passes'[r] = passes[r]
    BY <2>2, <2>3, PassHolds
  <2> QED BY <1>0, <2>2, <2>3, <2>4 DEF RateInv
<1>2. ASSUME NEW rep \in Replica, NEW c \in Client, HitFallback(rep, c) PROVE RateInv'
  <2>1. PICK hit : hit = hitLocal(rep, c)
    OBVIOUS
  <2>2. counters' = [counters EXCEPT ![rep] = hit.table] /\ Passed(rep, hit) /\ UNCHANGED <<now, cardinality>>
    BY <1>2, <2>1 DEF HitFallback
  <2>3. Charged(rep, hit) /\ hit.table \in [Cell -> Counter \cup {NoCounter}]
    BY <2>1, LocalCharged DEF Charged
  <2>4. /\ passes' \in [Store -> [Cell -> SUBSET (Nat \X Nat)]]
        /\ \A x \in Cell : Limited(hit.table[x], passes'[rep][x], now)
        /\ \A r \in Store \ {rep} : passes'[r] = passes[r]
    BY <2>2, <2>3, PassHolds
  <2> QED BY <1>0, <2>2, <2>3, <2>4 DEF RateInv
<1>3. ASSUME NEW rep \in Replica, NEW c \in Client, HitTwice(rep, c) PROVE RateInv'
  <2>1. PICK hit : hit = hitLocal(rep, c)
    OBVIOUS
  <2>2. PICK late : late = hitShared(c)
    OBVIOUS
  <2>3. counters' = [counters EXCEPT ![Shared] = late.table, ![rep] = hit.table] /\ cardinality' = Counted(c)
        /\ Passed(rep, hit) /\ now' = now
    BY <1>3, <2>1, <2>2 DEF HitTwice
  <2>4. Charged(rep, hit) /\ hit.table \in [Cell -> Counter \cup {NoCounter}]
    BY <2>1, LocalCharged DEF Charged
  <2>5. Charged(Shared, late) /\ Counted(c) \in Counter \cup {NoCounter} /\ late.table \in [Cell -> Counter \cup {NoCounter}]
    BY <2>2, SharedCharged DEF Charged
  <2>6. /\ passes' \in [Store -> [Cell -> SUBSET (Nat \X Nat)]]
        /\ \A x \in Cell : Limited(hit.table[x], passes'[rep][x], now)
        /\ \A r \in Store \ {rep} : passes'[r] = passes[r]
    BY <2>3, <2>4, PassHolds
  <2>7. \A x \in Cell : Limited(late.table[x], passes[Shared][x], now)
    BY <2>5, ChargedLimited
  <2>8. /\ counters' \in [Store -> [Cell -> Counter \cup {NoCounter}]]
        /\ counters'[rep] = hit.table /\ counters'[Shared] = late.table
        /\ \A s \in Store \ {rep, Shared} : counters'[s] = counters[s]
    BY <1>0, <2>3, <2>4, <2>5
  <2>9. ASSUME NEW s \in Store, NEW x \in Cell PROVE Limited(counters'[s][x], passes'[s][x], now)
    BY <1>0, <2>6, <2>7, <2>8
  <2> QED BY <1>0, <2>3, <2>5, <2>6, <2>8, <2>9 DEF RateInv
<1>4. ASSUME NEW rep \in Replica, NEW c \in Client, resetByPrefix(rep, c) PROVE RateInv'
  <2>1. /\ counters' \in [Store -> [Cell -> Counter \cup {NoCounter}]]
        /\ passes' \in [Store -> [Cell -> SUBSET (Nat \X Nat)]]
        /\ UNCHANGED <<now, cardinality>>
    BY <1>0, <1>4 DEF resetByPrefix
  <2>2. ASSUME NEW s \in Store, NEW x \in Cell
        PROVE  \/ counters'[s][x] = counters[s][x] /\ passes'[s][x] = passes[s][x]
               \/ counters'[s][x] = NoCounter /\ passes'[s][x] = {}
    BY <1>0, <1>4 DEF resetByPrefix
  <2>3. \A s \in Store, x \in Cell : Limited(counters'[s][x], passes'[s][x], now)
    BY <1>0, <2>2, EmptyLimited
  <2> QED BY <1>0, <2>1, <2>3 DEF RateInv
<1>5. ASSUME NEW rep \in Replica, clear(rep) PROVE RateInv'
  <2>1. /\ counters' \in [Store -> [Cell -> Counter \cup {NoCounter}]]
        /\ passes' \in [Store -> [Cell -> SUBSET (Nat \X Nat)]]
    BY <1>0, <1>5 DEF clear
  <2>2. now' = now /\ cardinality' \in {NoCounter, cardinality}
    BY <1>5 DEF clear
  <2>3. ASSUME NEW s \in Store, NEW x \in Cell
        PROVE  \/ counters'[s][x] = counters[s][x] /\ passes'[s][x] = passes[s][x]
               \/ counters'[s][x] = NoCounter /\ passes'[s][x] = {}
    BY <1>0, <1>5 DEF clear
  <2>4. \A s \in Store, x \in Cell : Limited(counters'[s][x], passes'[s][x], now)
    BY <1>0, <2>3, EmptyLimited
  <2> QED BY <1>0, <2>1, <2>2, <2>4 DEF RateInv
<1>9. ASSUME NEW rep \in Replica, Restart(rep) PROVE RateInv'
  <2>1. /\ counters' \in [Store -> [Cell -> Counter \cup {NoCounter}]]
        /\ passes' \in [Store -> [Cell -> SUBSET (Nat \X Nat)]]
    BY <1>0, <1>9 DEF Restart
  <2>2. now' = now /\ cardinality' \in {NoCounter, cardinality}
    BY <1>9 DEF Restart
  <2>3. ASSUME NEW s \in Store, NEW x \in Cell
        PROVE  \/ counters'[s][x] = counters[s][x] /\ passes'[s][x] = passes[s][x]
               \/ counters'[s][x] = NoCounter /\ passes'[s][x] = {}
    BY <1>0, <1>9 DEF Restart
  <2>4. \A s \in Store, x \in Cell : Limited(counters'[s][x], passes'[s][x], now)
    BY <1>0, <2>3, EmptyLimited
  <2> QED BY <1>0, <2>1, <2>2, <2>4 DEF RateInv
<1>6. ASSUME NEW rep \in Replica, removeExpired(rep) PROVE RateInv'
  <2>1. counters' = [counters EXCEPT ![rep] = WithoutExpired(counters[rep])] /\ UNCHANGED <<now, cardinality, passes>>
    BY <1>6 DEF removeExpired
  <2>2. WithoutExpired(counters[rep]) \in [Cell -> Counter \cup {NoCounter}]
    BY <1>0 DEF WithoutExpired
  <2>3. \A x \in Cell : Limited(WithoutExpired(counters[rep])[x], passes[rep][x], now)
    BY <1>0, DroppedLimited DEF WithoutExpired
  <2> QED BY <1>0, <2>1, <2>2, <2>3 DEF RateInv
<1>7. CASE RateTick
  <2>1. /\ now' = now + 1
        /\ counters' = [counters EXCEPT ![Shared] = [x \in Cell |-> IF now + 1 < @[x].until THEN @[x] ELSE NoCounter]]
        /\ cardinality' \in {cardinality, NoCounter}
        /\ passes' = [s \in Store |-> [x \in Cell |-> {e \in passes[s][x] : now + 1 < e[1] + Window}]]
    BY <1>7 DEF RateTick
  <2>2. /\ counters' \in [Store -> [Cell -> Counter \cup {NoCounter}]]
        /\ passes' \in [Store -> [Cell -> SUBSET (Nat \X Nat)]]
    BY <1>0, <2>1
  <2>3. ASSUME NEW s \in Store, NEW x \in Cell PROVE Limited(counters'[s][x], passes'[s][x], now + 1)
    <3>1. counters'[s][x] = counters[s][x] \/ (counters'[s][x] = NoCounter /\ ~ (now + 1 < counters[s][x].until))
      BY <1>0, <2>1
    <3>2. passes'[s][x] = {e \in passes[s][x] : now + 1 < e[1] + Window}
      BY <2>1
    <3> QED BY <1>0, <3>1, <3>2, TickLimited
  <2>4. \A s \in Store, x \in Cell : Limited(counters'[s][x], passes'[s][x], now')
    BY <2>1, <2>3
  <2>5. now' \in Nat /\ cardinality' \in Counter \cup {NoCounter}
    BY <1>0, <2>1
  <2> QED BY <2>2, <2>4, <2>5 DEF RateInv
<1>8. CASE UNCHANGED rateVars
  BY <1>0, <1>8 DEF rateVars, RateInv
<1> QED BY <1>1, <1>2, <1>3, <1>4, <1>5, <1>6, <1>7, <1>8, <1>9 DEF RateNext

(* However full the stores are and however often Redis fails, a counter of  *)
(* the rate limiters lets twice its limit pass in a window at most.         *)
THEOREM NeverNoLimitCorrect == RateSpec => []NeverNoLimit
<1>1. RateInit => RateInv
  <2> SUFFICES ASSUME RateInit PROVE RateInv
    OBVIOUS
  <2>1. Limited(NoCounter, {}, now)
    BY EmptyLimited DEF RateInit
  <2> QED BY <2>1 DEF RateInit, RateInv
<1>2. RateInv => NeverNoLimit
  <2> SUFFICES ASSUME RateInv, NEW s \in Store, NEW x \in Cell PROVE Cardinality(passes[s][x]) <= 2 * Limit
    BY DEF NeverNoLimit
  <2>1. PICK log : log = passes[s][x]
    OBVIOUS
  <2>2. PICK counter : counter = counters[s][x]
    OBVIOUS
  <2>3. Limited(counter, log, now) /\ IsFiniteSet(log)
    BY <2>1, <2>2 DEF RateInv, Limited
  <2>4. CASE ~ (now < counter.until)
    <3>1. Cardinality(log) <= Limit /\ Cardinality(log) \in Nat
      BY <2>3, <2>4, FS_CardinalityType DEF Limited
    <3> QED BY <2>1, <3>1, RateFacts
  <2>5. CASE now < counter.until
    <3>1. PICK fresh : fresh = SinceOpened(counter, log)
      OBVIOUS
    <3>2. fresh \subseteq log /\ IsFiniteSet(fresh) /\ IsFiniteSet(log \ fresh) /\ (log \ fresh) \cap fresh = {}
          /\ (log \ fresh) \cup fresh = log
      BY <2>3, <3>1, FS_Subset DEF SinceOpened
    <3>3. Cardinality(fresh) <= Limit /\ Cardinality(log \ fresh) <= Limit
      BY <2>3, <2>5, <3>1 DEF Limited
    <3>4. Cardinality((log \ fresh) \cup fresh) =
            Cardinality(log \ fresh) + Cardinality(fresh) - Cardinality((log \ fresh) \cap fresh)
      BY <3>2, FS_Union
    <3>5. Cardinality((log \ fresh) \cap fresh) = 0 /\ Cardinality(fresh) \in Nat /\ Cardinality(log \ fresh) \in Nat
      BY <3>2, FS_EmptySet, FS_CardinalityType
    <3>6. Cardinality(log) = Cardinality(log \ fresh) + Cardinality(fresh) - Cardinality((log \ fresh) \cap fresh)
      BY <3>2, <3>4
    <3> HIDE DEF SinceOpened
    <3> QED BY <2>1, <3>3, <3>5, <3>6, RateFacts
  <2> QED BY <2>4, <2>5
<1> QED BY <1>1, <1>2, RateStep, PTL DEF RateSpec
=============================================================================
