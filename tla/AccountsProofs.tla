--------------------------- MODULE AccountsProofs ---------------------------
(* Theorems about the accounts of a person: the roles that replicas         *)
(* remember (RoleCache), the mails to an address (AuthMails) and the two    *)
(* ways of signing in (UserIdentity), for any number of replicas, members,  *)
(* recipients, requests, calls, accounts and passwords.                     *)
EXTENDS AuthMails, RoleCache, UserIdentity, SequenceTheorems, WellFoundedInduction, TLAPS

-----------------------------------------------------------------------------
(* The state of the role cache, with what is in every record *)
Entry == [of : Member, is : Standing, excused : BOOLEAN, expiresAt : 0..(MaxTime + RoleTtl)]
Asks  == [does : {"asks"}, on : Replica, of : Member, since : 0..MaxTime]
Knows == [does : {"knows"}, on : Replica, of : Member, since : 0..MaxTime,
          is : Standing \cup {Deleted}, excused : BOOLEAN]
Job   == [does : {"reads", "writes", "tells"}, on : Replica, of : Member,
          input : Asked, copy : Standing, iam : BOOLEAN]

(* A Map holds one entry for a key, and no more than there is room for. *)
IsCache(table) ==
    /\ table \in Seq(Entry)
    /\ Len(table) <= CacheMax
    /\ \A i, j \in DOMAIN table : i # j => table[i].of # table[j].of

RoleTypes ==
    /\ now \in 0..MaxTime
    /\ stands \in [Member -> Standing \cup {Deleted}]
    /\ linked \subseteq Member
    /\ stood \in [Member -> [Standing \cup {Deleted} -> Int]]
    /\ DOMAIN cached = Replica /\ \A rep \in Replica : IsCache(cached[rep])
    /\ askers \in [Asker -> {NotAsking} \cup Asks \cup Knows]
    /\ changers \in [Changer -> {NotChanging, Over} \cup Job]

(* When an answer was last right: what stands now is right now, a lookup    *)
(* answers what was right after it began, and an entry expires no later     *)
(* than its answer was right, but for its life and a lookup.                *)
Aged(e) == e.expiresAt <= stood[e.of][e.is] + RoleTtl + LookupTime
Timely(q) ==
    /\ q.since <= now /\ now <= q.since + LookupTime
    /\ q.does = "knows" => q.since <= stood[q.of][q.is]
AgesInv ==
    /\ \A m \in Member : stood[m][stands[m]] = now /\ \A s \in Standing \cup {Deleted} : stood[m][s] <= now
    /\ \A a \in Asker : askers[a] # NotAsking => Timely(askers[a])
    /\ \A rep \in Replica : \A i \in DOMAIN cached[rep] : Aged(cached[rep][i])

(* Why an answer is wrong: of an entry, and of a request that has read and  *)
(* will make one                                                           *)
Right(rep, x) ==
    \/ x.is = stands[x.of]
    \/ x.excused
    \/ \E c \in Changer : Does(c, "tells") /\ changers[c].of = x.of /\ changers[c].on = rep
RightInv ==
    /\ \A rep \in Replica : \A i \in DOMAIN cached[rep] : Right(rep, cached[rep][i])
    /\ \A a \in Asker : askers[a].does = "knows" => Right(askers[a].on, askers[a])

RoleInv == RoleTypes /\ AgesInv /\ RightInv

-----------------------------------------------------------------------------
(* What is written is a standing again. *)
LEMMA MergedTyped ==
    ASSUME NEW s \in Standing, NEW input \in Asked
    PROVE  Merged(s, input) \in Standing
<1>1. PICK t \in Standing, has \in SUBSET {"roles", "verified"} : input.new = Restrict(t, has)
  BY DEF Asked, Inputs
<1>2. DOMAIN input.new = has /\ \A field \in has : input.new[field] = t[field]
  BY <1>1 DEF Restrict
<1>3. DOMAIN s = {"roles", "verified"}
  BY DEF Standing
<1>4. s["roles"] \in Roles /\ s["verified"] \in BOOLEAN /\ t["roles"] \in Roles /\ t["verified"] \in BOOLEAN
  BY DEF Standing
<1> DEFINE new(field) == IF field \in DOMAIN input.new THEN input.new[field] ELSE s[field]
<1>5. Merged(s, input) = [roles |-> new("roles"), verified |-> new("verified")]
  BY <1>3 DEF Merged
<1> QED BY <1>2, <1>4, <1>5 DEF Standing

(* A new entry takes the place of the one of its user, or the last one; all *)
(* the others were there.                                                  *)
LEMMA Remembered ==
    ASSUME NEW rep \in Replica, IsCache(cached[rep]), NEW entry \in Entry
    PROVE  /\ IsCache(cacheUserData(rep, entry))
           /\ \A i \in DOMAIN cacheUserData(rep, entry) :
                 \/ cacheUserData(rep, entry)[i] = entry
                 \/ \E j \in DOMAIN cached[rep] : cacheUserData(rep, entry)[i] = cached[rep][j]
<1> DEFINE table == cached[rep]
           room  == IF Len(table) >= CacheMax THEN Tail(table) ELSE table
           there == {i \in DOMAIN room : room[i].of = entry.of}
           first == CHOOSE i \in there : TRUE
<1>1. CacheMax \in Nat \ {0} /\ Len(table) \in Nat /\ table \in Seq(Entry)
  BY RoleAssumption DEF IsCache
<1>2. /\ room \in Seq(Entry) /\ Len(room) <= CacheMax - 1
      /\ \A i \in DOMAIN room : \E j \in DOMAIN table : room[i] = table[j]
      /\ \A i, j \in DOMAIN room : i # j => room[i].of # room[j].of
  <2>1. CASE Len(table) >= CacheMax
    <3>1. table # <<>>
      BY <1>1, <2>1
    <3>2. /\ Tail(table) \in Seq(Entry) /\ Len(Tail(table)) = Len(table) - 1
          /\ \A i \in 1..Len(Tail(table)) : Tail(table)[i] = table[i + 1]
      BY <1>1, <3>1, HeadTailProperties
    <3> QED BY <1>1, <2>1, <3>2 DEF IsCache
  <2>2. CASE ~ (Len(table) >= CacheMax)
    BY <1>1, <2>2 DEF IsCache
  <2> QED BY <2>1, <2>2
<1>3. CASE there = {}
  <2>1. cacheUserData(rep, entry) = Append(room, entry)
    BY <1>3 DEF cacheUserData
  <2> HIDE DEF room
  <2>2. /\ Append(room, entry) \in Seq(Entry) /\ Len(Append(room, entry)) = Len(room) + 1
        /\ \A i \in 1..Len(room) : Append(room, entry)[i] = room[i]
        /\ Append(room, entry)[Len(room) + 1] = entry
    BY <1>2, AppendProperties
  <2>3. \A i \in DOMAIN room : room[i].of # entry.of
    BY <1>3
  <2> QED BY <1>1, <1>2, <2>1, <2>2, <2>3 DEF IsCache
<1>4. CASE there # {}
  <2>1. cacheUserData(rep, entry) = [room EXCEPT ![first] = entry] /\ first \in there
    BY <1>4 DEF cacheUserData
  <2> HIDE DEF room
  <2>2. first \in DOMAIN room /\ room[first].of = entry.of
    BY <2>1
  <2>3. [room EXCEPT ![first] = entry] \in Seq(Entry) /\ Len([room EXCEPT ![first] = entry]) = Len(room)
    BY <1>2, <2>2
  <2> HIDE DEF there, first
  <2> QED BY <1>1, <1>2, <2>1, <2>2, <2>3 DEF IsCache
<1> QED BY <1>3, <1>4

(* Map.delete leaves the entries of the others. *)
RemovedAt(s, k) == SubSeq(s, 1, k - 1) \o SubSeq(s, k + 1, Len(s))

LEMMA RemovedAtIs ==
    ASSUME NEW S, NEW s \in Seq(S), NEW k \in 1..Len(s)
    PROVE  /\ RemovedAt(s, k) \in Seq(S) /\ Len(RemovedAt(s, k)) = Len(s) - 1
           /\ \A i \in 1..(Len(s) - 1) : RemovedAt(s, k)[i] = IF i < k THEN s[i] ELSE s[i + 1]
<1> DEFINE front == SubSeq(s, 1, k - 1)
           back  == SubSeq(s, k + 1, Len(s))
<1>1. front \in Seq(S) /\ Len(front) = k - 1 /\ \A i \in 1..(k - 1) : front[i] = s[i]
  BY SubSeqProperties
<1>2. back \in Seq(S) /\ Len(back) = Len(s) - k /\ \A i \in 1..(Len(s) - k) : back[i] = s[k + i]
  BY SubSeqProperties
<1>3. RemovedAt(s, k) = front \o back
  BY DEF RemovedAt
<1> HIDE DEF front, back
<1>4. /\ front \o back \in Seq(S) /\ Len(front \o back) = Len(front) + Len(back)
      /\ \A i \in 1..(Len(front) + Len(back)) : (front \o back)[i] =
            IF i <= Len(front) THEN front[i] ELSE back[i - Len(front)]
  BY <1>1, <1>2, ConcatProperties
<1>5. ASSUME NEW i \in 1..(Len(s) - 1)
      PROVE  (front \o back)[i] = IF i < k THEN s[i] ELSE s[i + 1]
  <2>0. Len(s) \in Nat /\ k \in 1..Len(s) /\ i \in 1..(Len(front) + Len(back))
    BY <1>1, <1>2
  <2>1. CASE i < k
    BY <1>1, <1>4, <2>0, <2>1
  <2>2. CASE ~ (i < k)
    <3>1. i - (k - 1) \in 1..(Len(s) - k) /\ k + (i - (k - 1)) = i + 1
      BY <2>0, <2>2
    <3>2. (front \o back)[i] = back[i - (k - 1)]
      BY <1>1, <1>4, <2>0, <2>2
    <3> QED BY <1>2, <2>2, <3>1, <3>2
  <2> QED BY <2>1, <2>2
<1> QED BY <1>1, <1>2, <1>3, <1>4, <1>5

LEMMA Forgotten ==
    ASSUME NEW rep \in Replica, IsCache(cached[rep]), NEW m
    PROVE  /\ IsCache(Without(rep, m))
           /\ \A i \in DOMAIN Without(rep, m) :
                 /\ Without(rep, m)[i].of # m
                 /\ \E j \in DOMAIN cached[rep] : Without(rep, m)[i] = cached[rep][j]
<1> DEFINE table == cached[rep]
           k     == CHOOSE i \in Entries(rep, m) : TRUE
<1>1. Len(table) \in Nat /\ table \in Seq(Entry) /\ DOMAIN table = 1..Len(table)
  BY DEF IsCache
<1>2. CASE Entries(rep, m) = {}
  BY <1>2, <1>1 DEF Without, Entries
<1>3. CASE Entries(rep, m) # {}
  <2>1. k \in 1..Len(table) /\ table[k].of = m /\ Without(rep, m) = RemovedAt(table, k)
    BY <1>1, <1>3 DEF Entries, Without, RemovedAt
  <2> DEFINE left == RemovedAt(table, k)
             old(i) == IF i < k THEN i ELSE i + 1
  <2> HIDE DEF k
  <2>0. /\ left \in Seq(Entry) /\ Len(left) = Len(table) - 1
        /\ \A i \in 1..(Len(table) - 1) : left[i] = IF i < k THEN table[i] ELSE table[i + 1]
    <3> HIDE DEF table
    <3> QED BY <1>1, <2>1, RemovedAtIs
  <2> HIDE DEF left
  <2>2. left \in Seq(Entry) /\ DOMAIN left = 1..(Len(table) - 1) /\ Len(left) = Len(table) - 1
    BY <2>0
  <2>3. \A i \in 1..(Len(table) - 1) : left[i] = table[old(i)] /\ old(i) \in DOMAIN table \ {k}
    BY <1>1, <2>0, <2>1
  <2>4. \A i, j \in 1..(Len(table) - 1) : i # j => old(i) # old(j)
    BY <1>1, <2>1
  <2> HIDE DEF old, left
  <2>5. Len(left) <= CacheMax
    BY <1>1, <2>2, RoleAssumption DEF IsCache
  <2>6. \A i, j \in DOMAIN left : i # j => left[i].of # left[j].of
    BY <2>2, <2>3, <2>4 DEF IsCache
  <2>7. \A i \in DOMAIN left : left[i].of # m
    BY <2>1, <2>2, <2>3 DEF IsCache
  <2>8. Without(rep, m) = left
    BY <2>1 DEF left
  <2> QED BY <2>2, <2>3, <2>5, <2>6, <2>7, <2>8 DEF IsCache
<1> QED BY <1>2, <1>3

-----------------------------------------------------------------------------
(* A call that writes marks entries and requests; all else of them stays.   *)
LEMMA ExcusedIs ==
    ASSUME RoleTypes, NEW reps, NEW m, Excused(reps, m)
    PROVE  /\ DOMAIN cached' = Replica
           /\ \A rep \in Replica :
                 /\ IsCache(cached'[rep]) /\ DOMAIN cached'[rep] = DOMAIN cached[rep]
                 /\ \A i \in DOMAIN cached[rep] :
                       /\ cached'[rep][i].of = cached[rep][i].of
                       /\ cached'[rep][i].is = cached[rep][i].is
                       /\ cached'[rep][i].expiresAt = cached[rep][i].expiresAt
                       /\ cached[rep][i].excused => cached'[rep][i].excused
                       /\ rep \in reps /\ cached[rep][i].of = m => cached'[rep][i].excused
           /\ askers' \in [Asker -> {NotAsking} \cup Asks \cup Knows]
           /\ \A a \in Asker :
                 /\ askers'[a].does = askers[a].does
                 /\ askers[a].does # "knows" => askers'[a] = askers[a]
                 /\ askers[a].does = "knows" =>
                       /\ askers[a] \in Knows /\ askers'[a] \in Knows
                       /\ askers'[a].on = askers[a].on /\ askers'[a].of = askers[a].of
                       /\ askers'[a].since = askers[a].since /\ askers'[a].is = askers[a].is
                       /\ askers[a].excused => askers'[a].excused
                       /\ askers[a].on \in reps /\ askers[a].of = m => askers'[a].excused
<1>1. DOMAIN cached' = Replica
  BY DEF Excused, RoleTypes
<1>2. ASSUME NEW rep \in Replica
      PROVE  /\ IsCache(cached'[rep]) /\ DOMAIN cached'[rep] = DOMAIN cached[rep]
             /\ \A i \in DOMAIN cached[rep] :
                   /\ cached'[rep][i].of = cached[rep][i].of
                   /\ cached'[rep][i].is = cached[rep][i].is
                   /\ cached'[rep][i].expiresAt = cached[rep][i].expiresAt
                   /\ cached[rep][i].excused => cached'[rep][i].excused
                   /\ rep \in reps /\ cached[rep][i].of = m => cached'[rep][i].excused
  <2> DEFINE table == cached[rep]
             e(i)  == IF rep \in reps /\ table[i].of = m THEN [table[i] EXCEPT !.excused = TRUE] ELSE table[i]
  <2>1. IsCache(table) /\ table \in Seq(Entry) /\ Len(table) \in Nat /\ DOMAIN table = 1..Len(table)
    BY DEF RoleTypes, IsCache
  <2>2. cached'[rep] = [i \in 1..Len(table) |-> e(i)]
    BY <2>1 DEF Excused, RoleTypes
  <2>3. ASSUME NEW i \in 1..Len(table)
        PROVE  /\ e(i) \in Entry /\ e(i).of = table[i].of /\ e(i).is = table[i].is
               /\ e(i).expiresAt = table[i].expiresAt
               /\ table[i].excused => e(i).excused
               /\ rep \in reps /\ table[i].of = m => e(i).excused
    <3>1. table[i] \in Entry
      BY <2>1
    <3> HIDE DEF table
    <3>2. CASE rep \in reps /\ table[i].of = m
      BY <3>1, <3>2 DEF Entry
    <3>3. CASE ~ (rep \in reps /\ table[i].of = m)
      BY <3>1, <3>3 DEF Entry
    <3> QED BY <3>2, <3>3
  <2> HIDE DEF e
  <2>4. cached'[rep] \in Seq(Entry) /\ Len(cached'[rep]) = Len(table) /\ DOMAIN cached'[rep] = 1..Len(table)
    BY <2>1, <2>2, <2>3
  <2>5. IsCache(cached'[rep])
    BY <2>1, <2>2, <2>3, <2>4 DEF IsCache
  <2> QED BY <2>1, <2>2, <2>3, <2>4, <2>5
<1>3. ASSUME NEW a \in Asker
      PROVE  /\ askers'[a] \in {NotAsking} \cup Asks \cup Knows
             /\ askers'[a].does = askers[a].does
             /\ askers[a].does # "knows" => askers'[a] = askers[a]
             /\ askers[a].does = "knows" =>
                   /\ askers[a] \in Knows /\ askers'[a] \in Knows
                   /\ askers'[a].on = askers[a].on /\ askers'[a].of = askers[a].of
                   /\ askers'[a].since = askers[a].since /\ askers'[a].is = askers[a].is
                   /\ askers[a].excused => askers'[a].excused
                   /\ askers[a].on \in reps /\ askers[a].of = m => askers'[a].excused
  <2>1. askers[a] \in {NotAsking} \cup Asks \cup Knows
    BY DEF RoleTypes
  <2>2. CASE askers[a].does # "knows"
    BY <2>1, <2>2 DEF Excused
  <2>3. CASE askers[a].does = "knows"
    <3>1. askers[a] \in Knows
      BY <2>1, <2>3 DEF NotAsking, Asks
    <3>2. CASE askers[a].on \in reps /\ askers[a].of = m
      <4>1. askers'[a] = [askers[a] EXCEPT !.excused = TRUE]
        BY <2>3, <3>2 DEF Excused
      <4> QED BY <2>3, <3>1, <4>1 DEF Knows
    <3>3. CASE ~ (askers[a].on \in reps /\ askers[a].of = m)
      <4>1. askers'[a] = askers[a]
        BY <2>3, <3>3 DEF Excused
      <4> QED BY <2>3, <3>1, <3>3, <4>1 DEF Knows
    <3> QED BY <3>2, <3>3
  <2> QED BY <2>2, <2>3
<1>4. askers' \in [Asker -> {NotAsking} \cup Asks \cup Knows]
  BY <1>3 DEF Excused
<1> QED BY <1>1, <1>2, <1>3, <1>4

(* A standing that is written now is right now, and the others were before. *)
LEMMA BecomesIs ==
    ASSUME RoleTypes, AgesInv, NEW m \in Member, NEW s \in Standing \cup {Deleted}, Becomes(m, s), now' = now
    PROVE  /\ stands' \in [Member -> Standing \cup {Deleted}]
           /\ stood' \in [Member -> [Standing \cup {Deleted} -> Int]]
           /\ \A n \in Member : stood'[n][stands'[n]] = now'
           /\ \A n \in Member, t \in Standing \cup {Deleted} : stood[n][t] <= stood'[n][t] /\ stood'[n][t] <= now'
           /\ \A n \in Member \ {m} : stands'[n] = stands[n]
<1>0. now \in Int /\ [stood[m] EXCEPT ![s] = now] \in [Standing \cup {Deleted} -> Int]
  BY DEF RoleTypes
<1>1. stands' \in [Member -> Standing \cup {Deleted}] /\ stood' \in [Member -> [Standing \cup {Deleted} -> Int]]
  BY <1>0 DEF Becomes, RoleTypes
<1>2. ASSUME NEW n \in Member, NEW t \in Standing \cup {Deleted}
      PROVE  stood'[n][t] = IF n = m /\ t = s THEN now ELSE stood[n][t]
  BY DEF Becomes, RoleTypes
<1>3. \A n \in Member : stands'[n] = IF n = m THEN s ELSE stands[n]
  BY DEF Becomes, RoleTypes
<1>4. now \in Int /\ \A n \in Member, t \in Standing \cup {Deleted} : stood[n][t] \in Int /\ stood[n][t] <= now
  BY DEF RoleTypes, AgesInv
<1>5. ASSUME NEW n \in Member PROVE stood'[n][stands'[n]] = now'
  BY <1>2, <1>3 DEF RoleTypes, AgesInv
<1>6. ASSUME NEW n \in Member, NEW t \in Standing \cup {Deleted}
      PROVE  stood[n][t] <= stood'[n][t] /\ stood'[n][t] <= now'
  BY <1>2, <1>4
<1> QED BY <1>1, <1>3, <1>5, <1>6

(* A change of what stands keeps the ages, since the history only grows. *)
LEMMA ChangeKeepsAges ==
    ASSUME RoleTypes, AgesInv, NEW m \in Member, NEW s \in Standing \cup {Deleted}, NEW reps,
           Becomes(m, s), Excused(reps, m), now' = now
    PROVE  AgesInv'
<1>1. ASSUME NEW a \in Asker, askers'[a] # NotAsking PROVE Timely(askers[a])' /\ askers[a] # NotAsking
  <2>1. askers[a] \in {NotAsking} \cup Asks \cup Knows
    BY DEF RoleTypes
  <2>2. CASE askers[a].does # "knows"
    <3>1. askers'[a] = askers[a]
      BY <2>2, ExcusedIs
    <3> QED BY <1>1, <2>2, <3>1 DEF AgesInv, Timely
  <2>3. CASE askers[a].does = "knows"
    <3>1. askers[a] \in Knows /\ askers[a] # NotAsking
      BY <2>1, <2>3 DEF NotAsking, Asks
    <3>2. /\ askers'[a].since = askers[a].since /\ askers'[a].of = askers[a].of
          /\ askers'[a].is = askers[a].is
      BY <2>3, <3>1, ExcusedIs
    <3>3. Timely(askers[a])
      BY <3>1 DEF AgesInv
    <3>4. /\ askers[a].since \in Int /\ askers[a].of \in Member /\ askers[a].is \in Standing \cup {Deleted}
      BY <3>1 DEF Knows
    <3>5. /\ stood[askers[a].of][askers[a].is] <= stood'[askers[a].of][askers[a].is]
          /\ stood[askers[a].of][askers[a].is] \in Int /\ stood'[askers[a].of][askers[a].is] \in Int
      BY <3>4, BecomesIs DEF RoleTypes
    <3> QED BY <2>3, <3>1, <3>2, <3>3, <3>4, <3>5 DEF Timely
  <2> QED BY <2>2, <2>3
<1>2. ASSUME NEW rep \in Replica, NEW i \in DOMAIN cached'[rep] PROVE Aged(cached[rep][i])'
  <2>1. i \in DOMAIN cached[rep] /\ cached[rep][i] \in Entry
    <3>1. i \in DOMAIN cached[rep]
      BY <1>2, ExcusedIs
    <3> QED BY <3>1 DEF RoleTypes, IsCache
  <2>2. /\ cached'[rep][i].of = cached[rep][i].of /\ cached'[rep][i].is = cached[rep][i].is
        /\ cached'[rep][i].expiresAt = cached[rep][i].expiresAt
    BY <2>1, ExcusedIs DEF Entry
  <2>3. Aged(cached[rep][i])
    BY <2>1 DEF AgesInv
  <2>4. cached[rep][i].of \in Member /\ cached[rep][i].is \in Standing /\ cached[rep][i].expiresAt \in Int
    BY <2>1, RoleAssumption, TimeAssumption DEF Entry
  <2>5. /\ stood[cached[rep][i].of][cached[rep][i].is] <= stood'[cached[rep][i].of][cached[rep][i].is]
        /\ stood[cached[rep][i].of][cached[rep][i].is] \in Int /\ stood'[cached[rep][i].of][cached[rep][i].is] \in Int
    BY <2>4, BecomesIs DEF RoleTypes
  <2> QED BY <2>2, <2>3, <2>4, <2>5, RoleAssumption DEF Aged
<1> QED BY <1>1, <1>2, BecomesIs DEF AgesInv

(* It keeps the reasons of wrong answers too, when the calls that still     *)
(* have to tell do, and each replica is told or its answers are excused.    *)
LEMMA ChangeKeepsRight ==
    ASSUME RoleTypes, RightInv, NEW m \in Member, NEW s \in Standing \cup {Deleted}, NEW reps,
           Becomes(m, s), Excused(reps, m),
           \A c \in Changer : Does(c, "tells") => changers'[c] = changers[c],
           \A rep \in Replica \ reps : \E c \in Changer :
                Does(c, "tells")' /\ changers'[c].of = m /\ changers'[c].on = rep
    PROVE  RightInv'
<1>1. \A n \in Member \ {m} : stands'[n] = stands[n]
  BY DEF Becomes, RoleTypes
<1>2. ASSUME NEW rep \in Replica, NEW x, NEW y, x.of \in Member, Right(rep, x), y.of = x.of, y.is = x.is,
             x.excused => y.excused, rep \in reps /\ x.of = m => y.excused
      PROVE  Right(rep, y)'
  <2>1. CASE x.of = m
    BY <1>2, <2>1 DEF Right
  <2>2. CASE x.of # m
    <3>1. stands'[x.of] = stands[x.of]
      BY <1>1, <1>2, <2>2
    <3>2. CASE \E c \in Changer : Does(c, "tells") /\ changers[c].of = x.of /\ changers[c].on = rep
      BY <1>2, <3>2 DEF Right, Does
    <3>3. CASE x.is = stands[x.of] \/ x.excused
      BY <1>2, <3>1, <3>3 DEF Right
    <3> QED BY <1>2, <3>2, <3>3 DEF Right
  <2> QED BY <2>1, <2>2
<1>3. ASSUME NEW rep \in Replica, NEW i \in DOMAIN cached'[rep] PROVE Right(rep, cached[rep][i])'
  <2>1. i \in DOMAIN cached[rep]
    BY <1>3, ExcusedIs
  <2>2. cached[rep][i] \in Entry /\ Right(rep, cached[rep][i])
    BY <2>1 DEF RoleTypes, IsCache, RightInv
  <2>3. cached[rep][i].of \in Member
    BY <2>2 DEF Entry
  <2>4. /\ cached'[rep][i].of = cached[rep][i].of
        /\ cached'[rep][i].is = cached[rep][i].is
        /\ cached[rep][i].excused => cached'[rep][i].excused
        /\ rep \in reps /\ cached[rep][i].of = m => cached'[rep][i].excused
    BY <2>1, ExcusedIs
  <2> QED BY <1>2, <2>2, <2>3, <2>4
<1>4. ASSUME NEW a \in Asker, askers'[a].does = "knows" PROVE Right(askers[a].on, askers[a])'
  <2>1. askers[a].does = "knows"
    BY <1>4, ExcusedIs
  <2>2. /\ askers[a] \in Knows
        /\ askers'[a].on = askers[a].on /\ askers'[a].of = askers[a].of /\ askers'[a].is = askers[a].is
        /\ askers[a].excused => askers'[a].excused
        /\ askers[a].on \in reps /\ askers[a].of = m => askers'[a].excused
    BY <2>1, ExcusedIs
  <2>3. askers[a].on \in Replica /\ askers[a].of \in Member /\ Right(askers[a].on, askers[a])
    BY <2>1, <2>2 DEF Knows, RightInv
  <2> QED BY <1>2, <2>2, <2>3
<1> QED BY <1>3, <1>4 DEF RightInv

-----------------------------------------------------------------------------
(* One lemma for each of the actors *)
LEMMA AskerKeeps ==
    ASSUME RoleInv, NEW a \in Asker,
           FindUser(a) \/ Answer(a) \/ \E rep \in Replica, m \in Member : MapUser(a, rep, m)
    PROVE  RoleInv'
<1> USE DEF RoleInv
<1>0. /\ UNCHANGED <<now, stands, linked, changers, stood>>
      /\ now \in 0..MaxTime /\ \A x : \A rep \in Replica : Right(rep, x) => Right(rep, x)'
  BY DEF FindUser, Answer, MapUser, RoleTypes, Right, Does
<1>1. ASSUME NEW rep \in Replica, NEW m \in Member, MapUser(a, rep, m) PROVE RoleInv'
  <2>0. PICK q : q = [does |-> "asks", on |-> rep, of |-> m, since |-> now]
    OBVIOUS
  <2>1. askers' = [askers EXCEPT ![a] = q] /\ cached' = cached
    BY <1>1, <2>0 DEF MapUser
  <2>2. q \in Asks /\ q.since = now /\ q.does = "asks"
    BY <1>0, <2>0 DEF Asks
  <2>3. RoleTypes'
    BY <1>0, <2>1, <2>2 DEF RoleTypes
  <2>4. AgesInv'
    <3>1. Timely(q)'
      BY <1>0, <2>2, RoleAssumption DEF Timely
    <3> QED BY <1>0, <2>1, <3>1 DEF AgesInv, Timely, Aged, RoleTypes
  <2>5. RightInv'
    <3>1. \A b \in Asker : b # a => askers'[b] = askers[b]
      BY <2>1 DEF RoleTypes
    <3>2. askers'[a].does = "asks"
      BY <2>1, <2>2 DEF RoleTypes
    <3>3. ASSUME NEW b \in Asker, askers'[b].does = "knows" PROVE Right(askers[b].on, askers[b])'
      <4>1. askers'[b] = askers[b] /\ askers[b] \in Knows
        BY <3>1, <3>2, <3>3 DEF RoleTypes, NotAsking, Asks
      <4>2. PICK x : x = askers[b]
        OBVIOUS
      <4>3. x.on \in Replica /\ Right(x.on, x)
        BY <3>3, <4>1, <4>2 DEF Knows, RightInv
      <4>4. Right(x.on, x)'
        BY <1>0, <4>3
      <4> QED BY <4>1, <4>2, <4>4
    <3>4. \A rep_1 \in Replica : \A i \in DOMAIN cached'[rep_1] : Right(rep_1, cached[rep_1][i])'
      BY <1>0, <2>1 DEF RightInv
    <3> QED BY <3>3, <3>4 DEF RightInv
  <2> QED BY <2>3, <2>4, <2>5
<1>2. ASSUME FindUser(a) PROVE RoleInv'
  <2> PICK o : o = askers[a]
    OBVIOUS
  <2> PICK q : q = [does |-> "knows", on |-> o.on, of |-> o.of, since |-> o.since,
                    is |-> stands[o.of], excused |-> FALSE]
    OBVIOUS
  <2>1. askers' = [askers EXCEPT ![a] = q] /\ cached' = cached /\ o.does = "asks"
    BY <1>2 DEF FindUser
  <2>2. o \in Asks /\ o # NotAsking
    BY <2>1 DEF RoleTypes, NotAsking, Knows
  <2>3. /\ o.on \in Replica /\ o.of \in Member /\ o.since \in 0..MaxTime
        /\ stands[o.of] \in Standing \cup {Deleted}
    BY <2>2 DEF Asks, RoleTypes
  <2>4. q \in Knows
    BY <2>3 DEF Knows
  <2>5. Timely(q)' /\ Right(q.on, q)'
    <3>1. Timely(o)
      BY <2>2 DEF AgesInv
    <3>2. stood[o.of][stands[o.of]] = now
      BY <2>3 DEF AgesInv
    <3> QED BY <1>0, <2>1, <2>3, <3>1, <3>2 DEF Timely, Right
  <2>6. RoleTypes'
    BY <1>0, <2>1, <2>4 DEF RoleTypes
  <2>7. AgesInv'
    BY <1>0, <2>1, <2>5 DEF AgesInv, Timely, Aged, RoleTypes
  <2>8. RightInv'
    <3>1. \A b \in Asker : askers'[b] = IF b = a THEN q ELSE askers[b]
      BY <2>1 DEF RoleTypes
    <3>3. ASSUME NEW b \in Asker, b # a, askers'[b].does = "knows" PROVE Right(askers[b].on, askers[b])'
      <4>1. askers'[b] = askers[b] /\ askers[b] \in Knows
        BY <3>1, <3>3 DEF RoleTypes, NotAsking, Asks
      <4>2. PICK x : x = askers[b]
        OBVIOUS
      <4>3. x.on \in Replica /\ Right(x.on, x)
        BY <3>3, <4>1, <4>2 DEF Knows, RightInv
      <4>4. Right(x.on, x)'
        BY <1>0, <4>3
      <4> QED BY <4>1, <4>2, <4>4
    <3>4. \A rep \in Replica : \A i \in DOMAIN cached'[rep] : Right(rep, cached[rep][i])'
      BY <1>0, <2>1 DEF RightInv
    <3>5. Right(askers[a].on, askers[a])'
      <4>1. askers'[a] = q
        BY <3>1
      <4> QED BY <2>5, <4>1 DEF Right
    <3> QED BY <3>3, <3>4, <3>5 DEF RightInv
  <2> QED BY <2>6, <2>7, <2>8
<1>3. ASSUME Answer(a) PROVE RoleInv'
  <2> PICK q : q = askers[a]
    OBVIOUS
  <2> PICK e : e = [of |-> q.of, is |-> q.is, excused |-> q.excused, expiresAt |-> now + RoleTtl]
    OBVIOUS
  <2> DEFINE keeps == ~ (RoleTtl = 0 \/ q.is = Deleted)
             new == cacheUserData(q.on, e)
  <2>1. /\ askers' = [askers EXCEPT ![a] = NotAsking] /\ q.does = "knows"
        /\ cached' = IF ~ keeps THEN cached ELSE [cached EXCEPT ![q.on] = new]
    BY <1>3 DEF Answer
  <2>2. q \in Knows /\ q # NotAsking
    BY <2>1 DEF RoleTypes, NotAsking, Asks
  <2>3. /\ q.on \in Replica /\ q.of \in Member /\ q.since \in 0..MaxTime
        /\ q.is \in Standing \cup {Deleted} /\ q.excused \in BOOLEAN
    BY <2>2 DEF Knows
  <2>4. Timely(q) /\ Right(q.on, q)
    BY <2>1, <2>2 DEF AgesInv, RightInv
  <2>5. stood[q.of][q.is] \in Int
    BY <2>3 DEF RoleTypes
  <2>6. Aged(e)' /\ Right(q.on, e)'
    <3>1. Aged(e)'
      BY <1>0, <2>1, <2>3, <2>4, <2>5, RoleAssumption DEF Timely, Aged
    <3>2. Right(q.on, e)
      BY <2>4 DEF Right
    <3> QED BY <1>0, <2>3, <3>1, <3>2
  <2>7. keeps => e \in Entry
    BY <1>0, <2>3, RoleAssumption, TimeAssumption DEF Entry
  <2>8. /\ \A rep \in Replica : IsCache(cached'[rep])
        /\ \A rep \in Replica : \A i \in DOMAIN cached'[rep] :
              \/ rep = q.on /\ cached'[rep][i] = e
              \/ \E j \in DOMAIN cached[rep] : cached'[rep][i] = cached[rep][j]
    <3>1. CASE ~ keeps
      BY <2>1, <3>1 DEF RoleTypes
    <3>2. CASE keeps
      <4>1. /\ IsCache(new)
            /\ \A i \in DOMAIN new : new[i] = e \/ \E j \in DOMAIN cached[q.on] : new[i] = cached[q.on][j]
        <5>1. IsCache(cached[q.on]) /\ q.on \in Replica /\ e \in Entry
          BY <2>3, <2>7, <3>2 DEF RoleTypes
        <5> QED BY <5>1, Remembered
      <4> HIDE DEF new
      <4> QED BY <2>1, <2>3, <3>2, <4>1 DEF RoleTypes
    <3> QED BY <3>1, <3>2
  <2>9. RoleTypes'
    <3>1. DOMAIN cached' = Replica
      <4> HIDE DEF new
      <4> QED BY <2>1 DEF RoleTypes
    <3>2. askers' \in [Asker -> {NotAsking} \cup Asks \cup Knows]
      BY <2>1 DEF RoleTypes
    <3> QED BY <1>0, <2>8, <3>1, <3>2 DEF RoleTypes
  <2>10. \A b \in Asker : askers'[b] = IF b = a THEN NotAsking ELSE askers[b]
    BY <2>1 DEF RoleTypes
  <2>11. AgesInv'
    <3>1. \A b \in Asker : askers'[b] # NotAsking => Timely(askers[b])'
      BY <1>0, <2>10 DEF AgesInv, Timely
    <3>2. \A rep \in Replica : \A i \in DOMAIN cached'[rep] : Aged(cached[rep][i])'
      BY <1>0, <2>6, <2>8 DEF AgesInv, Aged
    <3> QED BY <1>0, <3>1, <3>2 DEF AgesInv
  <2>12. RightInv'
    <3>1. ASSUME NEW b \in Asker, askers'[b].does = "knows" PROVE Right(askers[b].on, askers[b])'
      <4>1. askers'[b] = askers[b] /\ askers[b] \in Knows
        BY <2>10, <3>1 DEF RoleTypes, NotAsking, Asks
      <4>2. PICK x : x = askers[b]
        OBVIOUS
      <4>3. x.on \in Replica /\ Right(x.on, x)
        BY <3>1, <4>1, <4>2 DEF Knows, RightInv
      <4>4. Right(x.on, x)'
        BY <1>0, <4>3
      <4> QED BY <4>1, <4>2, <4>4
    <3>2. ASSUME NEW rep \in Replica, NEW i \in DOMAIN cached'[rep] PROVE Right(rep, cached[rep][i])'
      <4>1. CASE rep = q.on /\ cached'[rep][i] = e
        BY <2>6, <4>1 DEF Right
      <4>2. CASE \E j \in DOMAIN cached[rep] : cached'[rep][i] = cached[rep][j]
        <5>1. PICK j \in DOMAIN cached[rep] : cached'[rep][i] = cached[rep][j]
          BY <4>2
        <5>2. PICK x : x = cached[rep][j]
          OBVIOUS
        <5>3. Right(rep, x)
          BY <5>2 DEF RightInv
        <5>4. Right(rep, x)'
          BY <1>0, <5>3
        <5> QED BY <5>1, <5>2, <5>4
      <4> QED BY <2>8, <4>1, <4>2
    <3> QED BY <3>1, <3>2 DEF RightInv
  <2> QED BY <2>9, <2>11, <2>12
<1> QED BY <1>1, <1>2, <1>3

(* A call that reads or begins changes nothing that others see, and has     *)
(* nothing to tell yet.                                                    *)
LEMMA ReaderKeeps ==
    ASSUME RoleInv, NEW c \in Changer,
           ReadForMerge(c) \/ \E rep \in Replica, m \in Member, input \in Asked : StartChange(c, rep, m, input)
    PROVE  RoleInv'
<1> USE DEF RoleInv
<1>1. /\ UNCHANGED <<now, stands, linked, cached, askers, stood>>
      /\ ~ Does(c, "tells") /\ \A d \in Changer \ {c} : changers'[d] = changers[d]
  BY DEF ReadForMerge, StartChange, RoleTypes, Does
<1>2. changers' \in [Changer -> {NotChanging, Over} \cup Job]
  <2>1. ASSUME NEW rep \in Replica, NEW m \in Member, NEW input \in Asked, StartChange(c, rep, m, input)
        PROVE  changers' \in [Changer -> {NotChanging, Over} \cup Job]
    <3> PICK job : job = [does |-> IF input.op = "update" THEN "reads" ELSE "writes", on |-> rep, of |-> m,
                          input |-> input, copy |-> stands[m], iam |-> m \in linked]
      OBVIOUS
    <3>1. stands[m] \in Standing /\ (m \in linked) \in BOOLEAN
      BY <2>1 DEF StartChange, RoleTypes
    <3>2. job \in Job
      BY <3>1 DEF Job
    <3>3. changers' = [changers EXCEPT ![c] = job]
      BY <2>1 DEF StartChange
    <3> QED BY <3>2, <3>3 DEF RoleTypes
  <2>2. ASSUME ReadForMerge(c) PROVE changers' \in [Changer -> {NotChanging, Over} \cup Job]
    <3>1. changers[c] \in Job
      BY <2>2 DEF ReadForMerge, Does, RoleTypes, NotChanging, Over
    <3>2. changers[c].of \in Member
      BY <3>1 DEF Job
    <3>3. stands[changers[c].of] # Deleted => stands[changers[c].of] \in Standing
      BY <3>2 DEF RoleTypes
    <3> PICK job : job = [changers[c] EXCEPT !.does = "writes", !.copy = stands[changers[c].of]]
      OBVIOUS
    <3>4. stands[changers[c].of] # Deleted => job \in Job
      BY <3>1, <3>3 DEF Job
    <3>5. changers' = [changers EXCEPT ![c] = IF stands[changers[c].of] = Deleted THEN Over ELSE job]
      BY <2>2 DEF ReadForMerge
    <3> QED BY <3>4, <3>5 DEF RoleTypes
  <2> QED BY <2>1, <2>2
<1>3. RoleTypes'
  BY <1>1, <1>2 DEF RoleTypes
<1>4. AgesInv'
  BY <1>1 DEF AgesInv, Timely, Aged
<1>5. \A rep, x : Right(rep, x) => Right(rep, x)'
  <2> SUFFICES ASSUME NEW rep, NEW x, Right(rep, x) PROVE Right(rep, x)'
    OBVIOUS
  <2>1. CASE x.is = stands[x.of] \/ x.excused
    BY <1>1, <2>1 DEF Right
  <2>2. ASSUME NEW d \in Changer, Does(d, "tells"), changers[d].of = x.of, changers[d].on = rep
        PROVE  Right(rep, x)'
    BY <1>1, <2>2 DEF Right, Does
  <2> QED BY <2>1, <2>2 DEF Right
<1>6. RightInv'
  BY <1>1, <1>5 DEF RightInv
<1> QED BY <1>3, <1>4, <1>6

(* A call that writes: if its answer is lost, or it knows the user not to   *)
(* be linked, nobody is told; else its own replica will be.                 *)
LEMMA WriterKeeps ==
    ASSUME RoleInv, NEW c \in Changer, Written(c)
    PROVE  RoleInv'
<1> USE DEF RoleInv
<1> PICK job : job = changers[c]
  OBVIOUS
<1>1. job \in Job /\ job.does = "writes"
  BY DEF Written, Does, RoleTypes, NotChanging, Over
<1>2. /\ job.of \in Member /\ job.on \in Replica /\ job.copy \in Standing /\ job.input \in Asked
  BY <1>1 DEF Job
<1>3. CASE stands[job.of] = Deleted
  <2>1. /\ UNCHANGED <<now, linked, stands, cached, askers, stood>>
        /\ changers' = [changers EXCEPT ![c] = Over]
    BY <1>3 DEF Written
  <2>2. RoleTypes'
    BY <2>1 DEF RoleTypes
  <2>3. AgesInv'
    BY <2>1 DEF AgesInv, Timely, Aged
  <2>4. \A d \in Changer : Does(d, "tells") => changers'[d] = changers[d]
    BY <1>1, <2>1 DEF Does, RoleTypes
  <2>5. \A rep, x : Right(rep, x) => Right(rep, x)'
    BY <2>1, <2>4 DEF Right, Does
  <2>6. RightInv'
    BY <2>1, <2>5 DEF RightInv
  <2> QED BY <2>2, <2>3, <2>6
<1>4. CASE stands[job.of] # Deleted
  <2> PICK s : s = Merged(IF job.input.op = "update" THEN job.copy ELSE stands[job.of], job.input)
    OBVIOUS
  <2>1. s \in Standing
    BY <1>2, <1>4, MergedTyped DEF RoleTypes
  <2>2. PICK answered \in BOOLEAN :
           /\ changers' = [changers EXCEPT ![c] = IF answered /\ Tells(job) THEN [@ EXCEPT !.does = "tells"] ELSE Over]
           /\ Excused(IF answered /\ Owed(job) THEN Replica \ {job.on} ELSE Replica, job.of)
    BY <1>4 DEF Written
  <2>3. Becomes(job.of, s) /\ UNCHANGED <<now, linked>>
    BY <1>4 DEF Written
  <2> PICK reps : reps = IF answered /\ Owed(job) THEN Replica \ {job.on} ELSE Replica
    OBVIOUS
  <2>4. Excused(reps, job.of)
    BY <2>2
  <2>5. AgesInv'
    BY <1>2, <2>1, <2>3, <2>4, ChangeKeepsAges
  <2> PICK told : told = [job EXCEPT !.does = "tells"]
    OBVIOUS
  <2>6. /\ told \in Job /\ told.does = "tells" /\ told.on = job.on /\ told.of = job.of
    BY <1>1 DEF Job
  <2>7. changers' = [changers EXCEPT ![c] = IF answered /\ Tells(job) THEN told ELSE Over]
    BY <2>2
  <2>8. RoleTypes'
    <3>1. changers' \in [Changer -> {NotChanging, Over} \cup Job]
      BY <2>6, <2>7 DEF RoleTypes
    <3>2. /\ DOMAIN cached' = Replica /\ \A rep \in Replica : IsCache(cached'[rep])
          /\ askers' \in [Asker -> {NotAsking} \cup Asks \cup Knows]
      BY <2>4, ExcusedIs
    <3>3. stands' \in [Member -> Standing \cup {Deleted}] /\ stood' \in [Member -> [Standing \cup {Deleted} -> Int]]
      BY <1>2, <2>1, <2>3, BecomesIs
    <3> QED BY <2>3, <3>1, <3>2, <3>3 DEF RoleTypes
  <2>9. \A d \in Changer : Does(d, "tells") => changers'[d] = changers[d]
    BY <1>1, <2>7 DEF Does, RoleTypes
  <2>10. ASSUME NEW rep \in Replica \ reps
         PROVE  \E d \in Changer : Does(d, "tells")' /\ changers'[d].of = job.of /\ changers'[d].on = rep
    <3>1. answered /\ Owed(job) /\ rep = job.on
      BY <2>10
    <3>2. Tells(job)
      BY <3>1 DEF Owed, Tells
    <3>3. changers'[c] = told
      BY <2>7, <3>1, <3>2 DEF RoleTypes
    <3> QED BY <2>6, <3>1, <3>3 DEF Does
  <2>11. RightInv'
    BY <1>2, <2>1, <2>3, <2>4, <2>9, <2>10, ChangeKeepsRight
  <2> QED BY <2>5, <2>8, <2>11
<1> QED BY <1>3, <1>4

(* The cache that is told has no entry of the user left, and a request that *)
(* has read before is known to have overtaken it.                           *)
LEMMA TellerKeeps ==
    ASSUME RoleInv, NEW c \in Changer, invalidateUserCache(c)
    PROVE  RoleInv'
<1> USE DEF RoleInv
<1> PICK job : job = changers[c]
  OBVIOUS
<1>1. /\ job \in Job /\ job.does = "tells" /\ job.of \in Member /\ job.on \in Replica
  BY DEF invalidateUserCache, Does, RoleTypes, NotChanging, Over, Job
<1>2. /\ UNCHANGED <<now, stands, linked, stood>>
      /\ changers' = [changers EXCEPT ![c] = Over]
      /\ cached' = [cached EXCEPT ![job.on] = Without(job.on, job.of)]
      /\ askers' = [a \in Asker |->
                IF askers[a].does = "knows" /\ askers[a].on = job.on /\ askers[a].of = job.of
                THEN [askers[a] EXCEPT !.excused = TRUE] ELSE askers[a]]
  BY DEF invalidateUserCache
<1>3. /\ DOMAIN cached' = Replica
      /\ \A rep \in Replica :
            /\ IsCache(cached'[rep])
            /\ \A i \in DOMAIN cached'[rep] :
                  /\ rep = job.on => cached'[rep][i].of # job.of
                  /\ \E j \in DOMAIN cached[rep] : cached'[rep][i] = cached[rep][j]
  <2>1. /\ IsCache(Without(job.on, job.of))
        /\ \A i \in DOMAIN Without(job.on, job.of) :
              /\ Without(job.on, job.of)[i].of # job.of
              /\ \E j \in DOMAIN cached[job.on] : Without(job.on, job.of)[i] = cached[job.on][j]
    BY <1>1, Forgotten DEF RoleTypes
  <2> QED BY <1>1, <1>2, <2>1 DEF RoleTypes
<1>4. ASSUME NEW a \in Asker
      PROVE  /\ askers'[a] \in {NotAsking} \cup Asks \cup Knows
             /\ askers'[a].does = askers[a].does
             /\ askers[a].does # "knows" => askers'[a] = askers[a]
             /\ askers[a].does = "knows" =>
                   /\ askers[a] \in Knows /\ askers'[a] \in Knows
                   /\ askers'[a].on = askers[a].on /\ askers'[a].of = askers[a].of
                   /\ askers'[a].since = askers[a].since /\ askers'[a].is = askers[a].is
                   /\ askers[a].excused => askers'[a].excused
                   /\ askers[a].on = job.on /\ askers[a].of = job.of => askers'[a].excused
  <2>1. askers[a] \in {NotAsking} \cup Asks \cup Knows
    BY DEF RoleTypes
  <2>2. CASE askers[a].does # "knows"
    BY <1>2, <2>1, <2>2
  <2>3. CASE askers[a].does = "knows"
    <3>1. askers[a] \in Knows
      BY <2>1, <2>3 DEF NotAsking, Asks
    <3>2. CASE askers[a].on = job.on /\ askers[a].of = job.of
      <4>1. askers'[a] = [askers[a] EXCEPT !.excused = TRUE]
        BY <1>2, <2>3, <3>2
      <4> QED BY <2>3, <3>1, <4>1 DEF Knows
    <3>3. CASE ~ (askers[a].on = job.on /\ askers[a].of = job.of)
      <4>1. askers'[a] = askers[a]
        BY <1>2, <2>3, <3>3
      <4> QED BY <2>3, <3>1, <3>3, <4>1 DEF Knows
    <3> QED BY <3>2, <3>3
  <2> QED BY <2>2, <2>3
<1>5. RoleTypes'
  <2>1. askers' \in [Asker -> {NotAsking} \cup Asks \cup Knows]
    BY <1>2, <1>4
  <2>2. changers' \in [Changer -> {NotChanging, Over} \cup Job]
    BY <1>2 DEF RoleTypes
  <2> QED BY <1>2, <1>3, <2>1, <2>2 DEF RoleTypes
<1>6. AgesInv'
  <2>1. ASSUME NEW a \in Asker, askers'[a] # NotAsking PROVE Timely(askers[a])'
    <3>1. CASE askers[a].does # "knows"
      BY <1>2, <1>4, <2>1, <3>1 DEF AgesInv, Timely
    <3>2. CASE askers[a].does = "knows"
      BY <1>2, <1>4, <2>1, <3>2 DEF AgesInv, Timely, NotAsking
    <3> QED BY <3>1, <3>2
  <2>2. ASSUME NEW rep \in Replica, NEW i \in DOMAIN cached'[rep] PROVE Aged(cached[rep][i])'
    BY <1>2, <1>3 DEF AgesInv, Aged
  <2> QED BY <1>2, <2>1, <2>2 DEF AgesInv
<1>7. ASSUME NEW rep \in Replica, NEW x, NEW y, Right(rep, x), y.of = x.of, y.is = x.is,
             x.excused => y.excused, rep = job.on /\ x.of = job.of => y.excused
      PROVE  Right(rep, y)'
  <2>1. CASE x.is = stands[x.of] \/ x.excused
    BY <1>2, <1>7, <2>1 DEF Right
  <2>2. ASSUME NEW d \in Changer, Does(d, "tells"), changers[d].of = x.of, changers[d].on = rep
        PROVE  Right(rep, y)'
    <3>1. CASE d = c
      BY <1>7, <2>2, <3>1 DEF Right
    <3>2. CASE d # c
      <4>1. changers'[d] = changers[d]
        BY <1>2, <3>2 DEF RoleTypes
      <4> QED BY <1>7, <2>2, <4>1 DEF Right, Does
    <3> QED BY <3>1, <3>2
  <2> QED BY <1>7, <2>1, <2>2 DEF Right
<1>8. RightInv'
  <2>1. ASSUME NEW rep \in Replica, NEW i \in DOMAIN cached'[rep] PROVE Right(rep, cached[rep][i])'
    <3>1. PICK j \in DOMAIN cached[rep] : cached'[rep][i] = cached[rep][j]
      BY <1>3
    <3> PICK x : x = cached[rep][j]
      OBVIOUS
    <3>2. Right(rep, x) /\ ~ (rep = job.on /\ x.of = job.of)
      BY <1>3, <3>1 DEF RightInv
    <3>3. Right(rep, x)'
      BY <1>7, <3>2
    <3> QED BY <3>1, <3>3
  <2>2. ASSUME NEW a \in Asker, askers'[a].does = "knows" PROVE Right(askers[a].on, askers[a])'
    <3> PICK x : x = askers[a]
      OBVIOUS
    <3> PICK y : y = askers'[a]
      OBVIOUS
    <3>1. /\ x \in Knows /\ x.does = "knows" /\ y.on = x.on /\ y.of = x.of /\ y.is = x.is
          /\ x.excused => y.excused
          /\ x.on = job.on /\ x.of = job.of => y.excused
      BY <1>4, <2>2
    <3>2. x.on \in Replica /\ Right(x.on, x)
      BY <3>1 DEF Knows, RightInv
    <3>3. Right(x.on, y)'
      BY <1>7, <3>1, <3>2
    <3> QED BY <3>1, <3>3
  <2> QED BY <2>1, <2>2 DEF RightInv
<1> QED BY <1>5, <1>6, <1>8

(* What nobody is told of excuses every answer there is of the user. *)
LEMMA SilenceKeeps ==
    ASSUME RoleInv, NEW m \in Member, verify(m) \/ deleteUser(m) \/ LinkUser(m)
    PROVE  RoleInv'
<1> USE DEF RoleInv
<1>1. PICK s \in Standing \cup {Deleted} : Silently(m, s)
  <2>1. stands[m] # Deleted => stands[m] \in Standing
    BY DEF RoleTypes
  <2>2. CASE verify(m)
    <3>1. [stands[m] EXCEPT !.verified = TRUE] \in Standing
      BY <2>1, <2>2 DEF verify, Silently, Standing
    <3> QED BY <2>2, <3>1 DEF verify
  <2>3. CASE deleteUser(m)
    BY <2>3 DEF deleteUser
  <2>4. CASE LinkUser(m)
    <3>1. PICK verified \in BOOLEAN : Silently(m, [stands[m] EXCEPT !.verified = verified])
      BY <2>4 DEF LinkUser
    <3>2. [stands[m] EXCEPT !.verified = verified] \in Standing
      BY <2>1, <3>1 DEF Silently, Standing
    <3> QED BY <3>1, <3>2
  <2> QED BY <2>2, <2>3, <2>4
<1>2. Becomes(m, s) /\ Excused(Replica, m) /\ UNCHANGED <<now, changers>>
  BY <1>1 DEF Silently
<1>3. RoleTypes'
  <2>1. linked' \subseteq Member
    BY DEF verify, deleteUser, LinkUser, RoleTypes
  <2>2. /\ DOMAIN cached' = Replica /\ \A rep \in Replica : IsCache(cached'[rep])
        /\ askers' \in [Asker -> {NotAsking} \cup Asks \cup Knows]
    BY <1>2, ExcusedIs
  <2>3. stands' \in [Member -> Standing \cup {Deleted}] /\ stood' \in [Member -> [Standing \cup {Deleted} -> Int]]
    BY <1>2, BecomesIs
  <2> QED BY <1>2, <2>1, <2>2, <2>3 DEF RoleTypes
<1>4. AgesInv'
  BY <1>2, ChangeKeepsAges
<1>5. RightInv'
  BY <1>2, ChangeKeepsRight
<1> QED BY <1>3, <1>4, <1>5

(* Time passes for what stands, and no asker waits for too long. *)
LEMMA RolesTickKeeps ==
    ASSUME RoleInv, RolesTick
    PROVE  RoleInv'
<1> USE DEF RoleInv
<1>1. /\ UNCHANGED <<stands, linked, cached, askers, changers>>
      /\ now' = now + 1 /\ now \in 0..MaxTime /\ now < MaxTime
      /\ stood' = [m \in Member |-> [stood[m] EXCEPT ![stands[m]] = now + 1]]
  BY DEF RolesTick, RoleTypes
<1>2. ASSUME NEW m \in Member, NEW s \in Standing \cup {Deleted}
      PROVE  /\ stood[m][s] \in Int /\ stood[m][s] <= now
             /\ stood'[m][s] = IF s = stands[m] THEN now + 1 ELSE stood[m][s]
  BY <1>1 DEF RoleTypes, AgesInv
<1>3. RoleTypes'
  <2>1. now' \in 0..MaxTime
    BY <1>1, TimeAssumption
  <2>2. \A m \in Member : [stood[m] EXCEPT ![stands[m]] = now + 1] \in [Standing \cup {Deleted} -> Int]
    BY <1>1 DEF RoleTypes
  <2>3. stood' \in [Member -> [Standing \cup {Deleted} -> Int]]
    BY <1>1, <2>2
  <2> QED BY <1>1, <2>1, <2>3 DEF RoleTypes
<1>4. AgesInv'
  <2>1. \A m \in Member : stood'[m][stands'[m]] = now' /\ \A s \in Standing \cup {Deleted} : stood'[m][s] <= now'
    BY <1>1, <1>2 DEF RoleTypes
  <2>2. ASSUME NEW a \in Asker, askers'[a] # NotAsking PROVE Timely(askers[a])'
    <3>1. Timely(askers[a]) /\ now < askers[a].since + LookupTime /\ askers[a] \in Asks \cup Knows
      BY <1>1, <2>2 DEF AgesInv, RolesTick, RoleTypes
    <3>2. askers[a].since \in Int
      BY <3>1 DEF Asks, Knows
    <3>3. CASE askers[a].does = "knows"
      <4>1. askers[a].of \in Member /\ askers[a].is \in Standing \cup {Deleted}
        BY <3>1, <3>3 DEF Asks, Knows
      <4>2. askers[a].since <= stood'[askers[a].of][askers[a].is]
        BY <1>1, <1>2, <3>1, <3>2, <3>3, <4>1 DEF Timely
      <4> QED BY <1>1, <3>1, <3>2, <4>2, RoleAssumption DEF Timely
    <3>4. CASE askers[a].does # "knows"
      BY <1>1, <3>1, <3>2, <3>4, RoleAssumption DEF Timely
    <3> QED BY <3>3, <3>4
  <2>3. ASSUME NEW rep \in Replica, NEW i \in DOMAIN cached'[rep] PROVE Aged(cached[rep][i])'
    <3> PICK e : e = cached[rep][i]
      OBVIOUS
    <3>1. e \in Entry /\ Aged(e)
      BY <1>1 DEF AgesInv, RoleTypes, IsCache
    <3>2. e.of \in Member /\ e.is \in Standing /\ e.expiresAt \in Int
      BY <3>1 DEF Entry
    <3>3. e.expiresAt <= stood'[e.of][e.is] + RoleTtl + LookupTime
      BY <1>1, <1>2, <3>1, <3>2, RoleAssumption DEF Aged
    <3> QED BY <1>1, <3>3 DEF Aged
  <2> QED BY <2>1, <2>2, <2>3 DEF AgesInv
<1>5. RightInv'
  BY <1>1 DEF RightInv, Right, Does
<1> QED BY <1>3, <1>4, <1>5

LEMMA RolesStart == RolesInit => RoleInv
<1> SUFFICES ASSUME RolesInit PROVE RoleInv
  OBVIOUS
<1>1. /\ now = 0 /\ stands \in [Member -> Standing] /\ linked \in SUBSET Member
      /\ cached = [rep \in Replica |-> <<>>]
      /\ askers = [a \in Asker |-> NotAsking]
      /\ changers = [c \in Changer |-> NotChanging]
      /\ stood = [m \in Member |-> [s \in Standing \cup {Deleted} |-> IF s = stands[m] THEN 0 ELSE -1]]
  BY DEF RolesInit
<1>2. IsCache(<<>>) /\ DOMAIN <<>> = {}
  BY RoleAssumption DEF IsCache
<1>3. RoleTypes
  <2>1. now \in 0..MaxTime
    BY <1>1, TimeAssumption
  <2>2. stood \in [Member -> [Standing \cup {Deleted} -> Int]]
    BY <1>1
  <2> QED BY <1>1, <1>2, <2>1, <2>2 DEF RoleTypes
<1>4. AgesInv
  BY <1>1, <1>2 DEF AgesInv
<1>5. RightInv
  BY <1>1, <1>2 DEF RightInv, NotAsking
<1> QED BY <1>3, <1>4, <1>5 DEF RoleInv

LEMMA RolesStep == RoleInv /\ [RolesNext]_<<now, roleVars>> => RoleInv'
<1> SUFFICES ASSUME RoleInv, [RolesNext]_<<now, roleVars>> PROVE RoleInv'
  OBVIOUS
<1>1. CASE UNCHANGED <<now, roleVars>>
  <2>1. UNCHANGED <<now, stands, linked, cached, askers, changers, stood>>
    BY <1>1 DEF roleVars
  <2>2. RoleTypes'
    BY <2>1 DEF RoleInv, RoleTypes
  <2>3. AgesInv'
    BY <2>1 DEF RoleInv, AgesInv, Timely, Aged
  <2>4. RightInv'
    BY <2>1 DEF RoleInv, RightInv, Right, Does
  <2> QED BY <2>2, <2>3, <2>4 DEF RoleInv
<1>2. CASE RolesNext
  BY <1>2, AskerKeeps, ReaderKeeps, WriterKeeps, TellerKeeps, SilenceKeeps, RolesTickKeeps DEF RolesNext
<1> QED BY <1>1, <1>2

(* Roles that were taken away have no effect for longer than an entry lives *)
(* and a lookup takes, and where a change was told, none but those that the *)
(* lookups which overtook it have brought along: mapSessionUser and the     *)
(* calls of the user service, for any number of each.                      *)
THEOREM RolesInEffectCorrect == RolesSpec => []RolesInEffect
<1>1. RoleInv => RolesInEffect
  <2> SUFFICES ASSUME RoleInv, NEW rep \in Replica, NEW m \in Member, NEW e \in Answers(rep, m)
               PROVE  /\ stood[m][e.is] + RoleTtl + LookupTime >= now
                      /\ e.is # stands[m] =>
                            \/ e.excused
                            \/ \E c \in Changer : Does(c, "tells") /\ changers[c].of = m /\ changers[c].on = rep
    BY DEF RolesInEffect, RolesBounded, RolesImmediate
  <2>1. PICK i \in DOMAIN cached[rep] : e = cached[rep][i] /\ e.of = m /\ now < e.expiresAt
    BY DEF Answers, Served, Entries
  <2>2. e \in Entry /\ Aged(e) /\ Right(rep, e) /\ now \in 0..MaxTime
    BY <2>1 DEF RoleInv, RoleTypes, IsCache, AgesInv, RightInv
  <2>3. stood[m][e.is] \in Int /\ e.expiresAt \in Int
    BY <2>1, <2>2 DEF Entry, RoleInv, RoleTypes
  <2>4. stood[m][e.is] + RoleTtl + LookupTime >= now
    BY <2>1, <2>2, <2>3, RoleAssumption DEF Aged
  <2> QED BY <2>1, <2>2, <2>4 DEF Right
<1> QED BY <1>1, RolesStart, RolesStep, PTL DEF RolesSpec

(* The types of the role cache: one entry for each user, and no more of     *)
(* them than there is room for.                                            *)
THEOREM RolesTypeCorrect == RolesSpec => []RolesTypeOK
<1>1. RoleInv => RolesTypeOK
  <2> SUFFICES ASSUME RoleInv PROVE RolesTypeOK
    OBVIOUS
  <2>1. \A rep \in Replica : IsCache(cached[rep])
    BY DEF RoleInv, RoleTypes
  <2>2. \A rep \in Replica : \A i \in DOMAIN cached[rep] : cached[rep][i] \in Entry
    BY <2>1 DEF IsCache
  <2>3. \A a \in Asker : askers[a].does \in {"nothing", "asks", "knows"}
    BY DEF RoleInv, RoleTypes, NotAsking, Asks, Knows
  <2>4. \A c \in Changer : changers[c].does \in {"nothing", "reads", "writes", "tells", "over"}
    BY DEF RoleInv, RoleTypes, NotChanging, Over, Job
  <2>5. stands \in [Member -> Standing \cup {Deleted}] /\ linked \subseteq Member
    BY DEF RoleInv, RoleTypes
  <2> QED BY <2>1, <2>2, <2>3, <2>4, <2>5 DEF RolesTypeOK, IsCache, Entry
<1> QED BY <1>1, RolesStart, RolesStep, PTL DEF RolesSpec

-----------------------------------------------------------------------------
(* The mails to an address.                                                *)
Sends == [by : Mailing \cup {Nobody}, since : Nat, placed : Nat]
MailTypes ==
    /\ now \in Nat
    /\ slots \in [Recipient -> [token : Mailing \cup {Nobody}, until : Nat]]
    /\ lastSendTimes \in [Replica -> [Recipient -> Sends]]
    /\ mails \in [Mailing -> [at : Stages, to : Recipient \cup {Nobody}, rep : Replica \cup {Nobody},
                              door : Door, granted : Nat]]
    /\ lastMail \in [Recipient -> [Door -> Int]]
    /\ \A m \in Mailing : mails[m].at \notin {"idle", "done"} =>
          mails[m].to \in Recipient /\ mails[m].rep \in Replica /\ mails[m].door \in {Redis, mails[m].rep}

(* Who a door has let pass last, and until when it lets pass nobody else *)
Holder(k, d)    == IF d = Redis THEN slots[k].token ELSE lastSendTimes[d][k].by
HeldUntil(k, d) == IF d = Redis THEN slots[k].until ELSE lastSendTimes[d][k].since + Cooldown

(* The mails on their way that it has let pass *)
Via(m, k, d) == In(m, "sending") /\ mails[m].to = k /\ mails[m].door = d
Far(s, t) == s >= t + Cooldown \/ t >= s + Cooldown

(* A mail on its way, and the last one that was sent, still hold the door   *)
(* or were let pass a cooldown ago; and all of these a cooldown apart.     *)
StillHeld(k, d) == \A m \in Mailing : Via(m, k, d) =>
    now >= mails[m].granted + Cooldown \/ (Holder(k, d) = m /\ HeldUntil(k, d) = mails[m].granted + Cooldown)
SentHeld(k, d) ==
    \/ now >= lastMail[k][d] + Cooldown
    \/ /\ Holder(k, d) \in Mailing /\ In(Holder(k, d), "done")
       /\ HeldUntil(k, d) = lastMail[k][d] + Cooldown
FarFromSent(k, d) == \A m \in Mailing : Via(m, k, d) => Far(mails[m].granted, lastMail[k][d])
FarFromOthers(k, d) == \A m, n \in Mailing :
    m # n /\ Via(m, k, d) /\ Via(n, k, d) => Far(mails[m].granted, mails[n].granted)
ApartAt(k, d) == StillHeld(k, d) /\ SentHeld(k, d) /\ FarFromSent(k, d) /\ FarFromOthers(k, d)

(* The inductive invariant: of every door that has lost no slot *)
MailsInv ==
    /\ MailTypes
    /\ early \subseteq torn
    /\ \A k \in Recipient, d \in Door : <<k, d>> \in torn \/ ApartAt(k, d)

(* What one request does leaves a door alone when no mail is let pass, and  *)
(* whoever it takes the door from holds it no longer or is not sending.    *)
LEMMA DoorKept ==
    ASSUME MailTypes, now' \in Nat, now' >= now, NEW k \in Recipient, NEW d \in Door, ApartAt(k, d),
           lastMail'[k][d] = lastMail[k][d],
           \A m \in Mailing : Via(m, k, d)' => Via(m, k, d) /\ mails'[m].granted = mails[m].granted,
           \A m \in Mailing : In(m, "done") => In(m, "done")',
           \/ Holder(k, d)' = Holder(k, d) /\ HeldUntil(k, d)' = HeldUntil(k, d)
           \/ HeldUntil(k, d) <= now'
           \/ \A m \in Mailing : m = Holder(k, d) => ~ In(m, "done") /\ ~ Via(m, k, d)'
    PROVE  ApartAt(k, d)'
<1>1. \A m \in Mailing : mails[m].granted \in Nat
  BY DEF MailTypes
<1>2. lastMail[k][d] \in Int /\ now \in Nat /\ Cooldown \in Nat
  BY MailAssumption DEF MailTypes
<1>3. StillHeld(k, d)'
  <2> SUFFICES ASSUME NEW m \in Mailing, Via(m, k, d)'
               PROVE  \/ now' >= mails'[m].granted + Cooldown
                      \/ Holder(k, d)' = m /\ HeldUntil(k, d)' = mails'[m].granted + Cooldown
    BY DEF StillHeld
  <2>1. Via(m, k, d) /\ mails'[m].granted = mails[m].granted
    OBVIOUS
  <2>2. CASE now >= mails[m].granted + Cooldown
    BY <1>1, <1>2, <2>1, <2>2
  <2>3. CASE Holder(k, d) = m /\ HeldUntil(k, d) = mails[m].granted + Cooldown
    BY <1>1, <1>2, <2>1, <2>3
  <2> QED BY <2>1, <2>2, <2>3 DEF ApartAt, StillHeld
<1>4. SentHeld(k, d)'
  <2>1. CASE now >= lastMail[k][d] + Cooldown
    BY <1>2, <2>1 DEF SentHeld
  <2>2. CASE /\ Holder(k, d) \in Mailing /\ In(Holder(k, d), "done")
             /\ HeldUntil(k, d) = lastMail[k][d] + Cooldown
    <3>1. CASE HeldUntil(k, d) <= now'
      BY <1>2, <2>2, <3>1 DEF SentHeld
    <3>2. CASE Holder(k, d)' = Holder(k, d) /\ HeldUntil(k, d)' = HeldUntil(k, d)
      <4> PICK h \in Mailing : h = Holder(k, d)
        BY <2>2
      <4>1. In(h, "done")'
        BY <2>2
      <4>2. In(Holder(k, d), "done")'
        BY <3>2, <4>1 DEF In
      <4> QED BY <2>2, <3>2, <4>2 DEF SentHeld
    <3> QED BY <2>2, <3>1, <3>2
  <2> QED BY <2>1, <2>2 DEF ApartAt, SentHeld
<1>5. FarFromSent(k, d)'
  BY DEF ApartAt, FarFromSent, Far
<1>6. FarFromOthers(k, d)'
  BY DEF ApartAt, FarFromOthers, Far
<1> QED BY <1>3, <1>4, <1>5, <1>6 DEF ApartAt

(* A door that nobody holds any longer lets a mail pass. *)
LEMMA DoorGranted ==
    ASSUME MailTypes, now' = now, NEW k \in Recipient, NEW d \in Door, ApartAt(k, d),
           NEW m \in Mailing, ~ In(m, "sending"),
           Holder(k, d) \notin Mailing \/ HeldUntil(k, d) <= now,
           lastMail'[k][d] = lastMail[k][d],
           \A n \in Mailing \ {m} : Via(n, k, d)' => Via(n, k, d) /\ mails'[n].granted = mails[n].granted,
           mails'[m].granted = now,
           Holder(k, d)' = m, HeldUntil(k, d)' = now + Cooldown
    PROVE  ApartAt(k, d)'
<1>1. \A n \in Mailing : mails[n].granted \in Nat
  BY DEF MailTypes
<1>2. lastMail[k][d] \in Int /\ now \in Nat /\ Cooldown \in Nat
  BY MailAssumption DEF MailTypes
<1>3. \A n \in Mailing : Via(n, k, d) => now >= mails[n].granted + Cooldown
  BY <1>1, <1>2 DEF ApartAt, StillHeld
<1>4. now >= lastMail[k][d] + Cooldown
  BY <1>2 DEF ApartAt, SentHeld
<1>5. StillHeld(k, d)'
  BY <1>3 DEF StillHeld
<1>6. SentHeld(k, d)'
  BY <1>4 DEF SentHeld
<1>7. FarFromSent(k, d)'
  BY <1>4 DEF ApartAt, FarFromSent, Far
<1>8. FarFromOthers(k, d)'
  BY <1>3 DEF ApartAt, FarFromOthers, Far
<1> QED BY <1>5, <1>6, <1>7, <1>8 DEF ApartAt

(* A mail that is sent is the last one of its door. *)
LEMMA DoorSent ==
    ASSUME MailTypes, now' = now, NEW k \in Recipient, NEW d \in Door, ApartAt(k, d),
           NEW m \in Mailing, Via(m, k, d), In(m, "done")',
           lastMail'[k][d] = mails[m].granted,
           \A n \in Mailing \ {m} : mails'[n] = mails[n],
           Holder(k, d)' = Holder(k, d), HeldUntil(k, d)' = HeldUntil(k, d)
    PROVE  ApartAt(k, d)'
<1>1. \A n \in Mailing : mails[n].granted \in Nat
  BY DEF MailTypes
<1>2. \A n \in Mailing : Via(n, k, d)' => n # m /\ Via(n, k, d) /\ mails'[n].granted = mails[n].granted
  BY DEF Via, In
<1>3. StillHeld(k, d)'
  BY <1>2 DEF ApartAt, StillHeld
<1>4. SentHeld(k, d)'
  <2>1. CASE now >= mails[m].granted + Cooldown
    BY <2>1 DEF SentHeld
  <2>2. CASE Holder(k, d) = m /\ HeldUntil(k, d) = mails[m].granted + Cooldown
    BY <2>2 DEF SentHeld, In
  <2> QED BY <2>1, <2>2 DEF ApartAt, StillHeld
<1>5. FarFromSent(k, d)'
  BY <1>1, <1>2 DEF ApartAt, FarFromOthers, FarFromSent, Far
<1>6. FarFromOthers(k, d)'
  BY <1>2 DEF ApartAt, FarFromOthers, Far
<1> QED BY <1>3, <1>4, <1>5, <1>6 DEF ApartAt

(* What the steps of a mail do to the record of its request *)
LEMMA PassIs ==
    ASSUME MailTypes, NEW m \in Mailing, NEW stage \in Stages, Pass(m, stage),
           mails[m].at \notin {"idle", "done"}
    PROVE  /\ mails' \in [Mailing -> [at : Stages, to : Recipient \cup {Nobody}, rep : Replica \cup {Nobody},
                                      door : Door, granted : Nat]]
           /\ \A n \in Mailing \ {m} : mails'[n] = mails[n]
           /\ mails'[m].at = stage /\ mails'[m].to = mails[m].to /\ mails'[m].rep = mails[m].rep
           /\ mails'[m].door = mails[m].door /\ mails'[m].granted = mails[m].granted
           /\ \A n \in Mailing : mails'[n].at \notin {"idle", "done"} =>
                 mails'[n].to \in Recipient /\ mails'[n].rep \in Replica /\ mails'[n].door \in {Redis, mails'[n].rep}
BY DEF MailTypes, Pass

LEMMA DoneIs ==
    ASSUME MailTypes, NEW m \in Mailing, MailDone(m)
    PROVE  /\ mails' \in [Mailing -> [at : Stages, to : Recipient \cup {Nobody}, rep : Replica \cup {Nobody},
                                      door : Door, granted : Nat]]
           /\ \A n \in Mailing \ {m} : mails'[n] = mails[n]
           /\ mails'[m].at = "done"
           /\ \A n \in Mailing : mails'[n].at \notin {"idle", "done"} =>
                 mails'[n].to \in Recipient /\ mails'[n].rep \in Replica /\ mails'[n].door \in {Redis, mails'[n].rep}
<1>1. [NoMail EXCEPT !.at = "done"] \in
         [at : Stages, to : Recipient \cup {Nobody}, rep : Replica \cup {Nobody}, door : Door, granted : Nat]
  BY DEF NoMail, Stages, Door
<1>2. [NoMail EXCEPT !.at = "done"].at = "done"
  BY DEF NoMail
<1> QED BY <1>1, <1>2 DEF MailTypes, MailDone

LEMMA AcquireKeeps ==
    ASSUME MailsInv, NEW m \in Mailing, NEW rep \in Replica, NEW k0 \in Recipient,
           acquireSendSlot(m, rep, k0), now' = now
    PROVE  MailsInv'
<1> USE DEF MailsInv
<1> DEFINE Mails == [at : Stages, to : Recipient \cup {Nobody}, rep : Replica \cup {Nobody},
                     door : Door, granted : Nat]
<1> PICK slot : slot = [token |-> m, until |-> now + Cooldown]
  OBVIOUS
<1> PICK asked : asked = [NoMail EXCEPT !.to = k0, !.rep = rep, !.at = "sending", !.granted = now]
  OBVIOUS
<1> PICK asking : asking = [asked EXCEPT !.at = "fallback"]
  OBVIOUS
<1>1. /\ UNCHANGED <<lastSendTimes, lastMail, early, torn>> /\ In(m, "idle")
      /\ \/ /\ Vacant(k0) /\ slots' = [slots EXCEPT ![k0] = slot] /\ mails' = [mails EXCEPT ![m] = asked]
         \/ /\ slots' = slots \/ (Vacant(k0) /\ slots' = [slots EXCEPT ![k0] = slot])
            /\ mails' = [mails EXCEPT ![m] = asking]
  BY DEF acquireSendSlot
<1>2. /\ now \in Nat /\ Cooldown \in Nat \ {0}
      /\ slot \in [token : Mailing \cup {Nobody}, until : Nat]
      /\ slot.token = m /\ slot.until = now + Cooldown
  BY MailAssumption DEF MailTypes
<1>3. /\ asked \in Mails /\ asked.at = "sending" /\ asked.to = k0 /\ asked.rep = rep
      /\ asked.door = Redis /\ asked.granted = now
      /\ asking \in Mails /\ asking.at = "fallback" /\ asking.to = k0 /\ asking.rep = rep /\ asking.door = Redis
  BY <1>2 DEF NoMail, Stages, Door
<1>4. \A n \in Mailing \ {m} : mails'[n] = mails[n]
  BY <1>1 DEF MailTypes
<1>5. MailTypes'
  <2>1. slots' \in [Recipient -> [token : Mailing \cup {Nobody}, until : Nat]]
    BY <1>1, <1>2 DEF MailTypes
  <2>2. mails' \in [Mailing -> Mails]
    BY <1>1, <1>3 DEF MailTypes
  <2>3. mails'[m] \in {asked, asking}
    BY <1>1 DEF MailTypes
  <2>4. ASSUME NEW n \in Mailing, mails'[n].at \notin {"idle", "done"}
        PROVE  mails'[n].to \in Recipient /\ mails'[n].rep \in Replica /\ mails'[n].door \in {Redis, mails'[n].rep}
    <3>1. CASE n = m
      BY <1>3, <2>3, <3>1
    <3>2. CASE n # m
      BY <1>4, <2>4, <3>2 DEF MailTypes
    <3> QED BY <3>1, <3>2
  <2> QED BY <1>1, <2>1, <2>2, <2>4 DEF MailTypes
<1>6. ASSUME NEW k \in Recipient, NEW d \in Door, <<k, d>> \notin torn' PROVE ApartAt(k, d)'
  <2>1. ApartAt(k, d)
    BY <1>1, <1>6
  <2>2. \A n \in Mailing : In(n, "done") => In(n, "done")'
    BY <1>1, <1>4 DEF In
  <2>3. \A n \in Mailing \ {m} : Via(n, k, d)' => Via(n, k, d) /\ mails'[n].granted = mails[n].granted
    BY <1>4 DEF Via, In
  <2>4. CASE mails' = [mails EXCEPT ![m] = asked] /\ k = k0 /\ d = Redis
    <3>1. Vacant(k0) /\ slots' = [slots EXCEPT ![k0] = slot]
      BY <1>1, <1>3, <2>4 DEF MailTypes
    <3>2. HeldUntil(k, d) <= now /\ Holder(k, d)' = m /\ HeldUntil(k, d)' = now + Cooldown
      BY <1>2, <2>4, <3>1 DEF Vacant, HeldUntil, Holder, MailTypes
    <3>3. mails'[m].granted = now /\ ~ In(m, "sending")
      BY <1>1, <1>3, <2>4 DEF MailTypes, In
    <3> QED BY <1>1, <2>1, <2>3, <3>2, <3>3, DoorGranted
  <2>5. CASE ~ (mails' = [mails EXCEPT ![m] = asked] /\ k = k0 /\ d = Redis)
    <3>1. ~ Via(m, k, d)'
      <4>1. CASE mails' = [mails EXCEPT ![m] = asked]
        BY <1>3, <2>5, <4>1 DEF Via, In, MailTypes
      <4>2. CASE mails' = [mails EXCEPT ![m] = asking]
        BY <1>3, <2>5, <4>2 DEF Via, In, MailTypes
      <4> QED BY <1>1, <4>1, <4>2
    <3>2. \/ Holder(k, d)' = Holder(k, d) /\ HeldUntil(k, d)' = HeldUntil(k, d)
          \/ HeldUntil(k, d) <= now'
      <4>1. CASE d = Redis /\ k = k0 /\ Vacant(k0)
        BY <4>1 DEF Vacant, HeldUntil
      <4>2. CASE ~ (d = Redis /\ k = k0 /\ Vacant(k0))
        BY <1>1, <4>2 DEF Holder, HeldUntil, MailTypes
      <4> QED BY <4>1, <4>2
    <3> QED BY <1>1, <1>2, <2>1, <2>2, <2>3, <3>1, <3>2, DoorKept
  <2> QED BY <2>4, <2>5
<1> QED BY <1>1, <1>5, <1>6

(* An entry that is no cooldown holds nobody back. *)
LEMMA Lapsed ==
    ASSUME MailTypes, NEW rep \in Replica, NEW k \in Recipient, ~ isInCooldown(rep, k)
    PROVE  Holder(k, rep) \notin Mailing \/ HeldUntil(k, rep) <= now
<1>1. rep # Redis /\ now \in Nat /\ Cooldown \in Nat /\ lastSendTimes[rep][k] \in Sends
  BY MailAssumption DEF MailTypes
<1>2. CASE lastSendTimes[rep][k].by = Nobody
  BY <1>1, <1>2, MailAssumption DEF Holder
<1>3. CASE lastSendTimes[rep][k].by # Nobody
  BY <1>1, <1>3 DEF HeldUntil, isInCooldown, SentTo, Sends
<1> QED BY <1>2, <1>3

(* The memory of a replica: whoever is dropped in a cooldown to make room   *)
(* is torn.                                                                *)
LEMMA FallBackKeeps ==
    ASSUME MailsInv, NEW m \in Mailing, FallBack(m), now' = now
    PROVE  MailsInv'
<1> USE DEF MailsInv
<1> PICK rep \in Replica, k0 \in Recipient : rep = mails[m].rep /\ k0 = mails[m].to
  BY DEF FallBack, In, MailTypes
<1>1. UNCHANGED <<slots, lastMail, early>> /\ In(m, "fallback") /\ now \in Nat /\ Cooldown \in Nat \ {0}
  BY MailAssumption DEF FallBack, MailTypes
<1>2. CASE isInCooldown(rep, k0)
  <2>1. MailDone(m) /\ UNCHANGED <<lastSendTimes, torn>>
    BY <1>2 DEF FallBack
  <2>2. MailTypes'
    BY <1>1, <2>1, DoneIs DEF MailTypes
  <2>3. ASSUME NEW k \in Recipient, NEW d \in Door, <<k, d>> \notin torn' PROVE ApartAt(k, d)'
    <3>1. ApartAt(k, d)
      BY <2>1, <2>3
    <3>2. Holder(k, d)' = Holder(k, d) /\ HeldUntil(k, d)' = HeldUntil(k, d)
      BY <1>1, <2>1 DEF Holder, HeldUntil
    <3>3. \A n \in Mailing : Via(n, k, d)' => Via(n, k, d) /\ mails'[n].granted = mails[n].granted
      BY <2>1, DoneIs DEF Via, In
    <3>4. \A n \in Mailing : In(n, "done") => In(n, "done")'
      BY <2>1, DoneIs DEF In
    <3> QED BY <1>1, <3>1, <3>2, <3>3, <3>4, DoorKept
  <2> QED BY <1>1, <2>1, <2>2, <2>3
<1>3. CASE ~ isInCooldown(rep, k0)
  <2> PICK entry : entry = [by |-> m, since |-> now,
                            placed |-> IF k0 \in SentTo(rep) THEN lastSendTimes[rep][k0].placed ELSE now]
    OBVIOUS
  <2>1. trackSend(m) /\ mails' = [mails EXCEPT ![m].at = "sending", ![m].door = rep, ![m].granted = now]
    BY <1>3 DEF FallBack, Grant
  <2>2. PICK out \in Recipient :
           /\ lastSendTimes' = [lastSendTimes EXCEPT ![rep][out] = NoSend, ![rep][k0] = entry]
           /\ torn' = IF out # k0 /\ isInCooldown(rep, out) THEN torn \cup {<<out, rep>>} ELSE torn
    BY <2>1 DEF trackSend, Oldest, SentTo
  <2>3. /\ \A r \in Replica \ {rep} : lastSendTimes'[r] = lastSendTimes[r]
        /\ \A k \in Recipient : k # k0 /\ k # out => lastSendTimes'[rep][k] = lastSendTimes[rep][k]
        /\ lastSendTimes'[rep][k0] = entry
    BY <2>2 DEF MailTypes
  <2>4. lastSendTimes' \in [Replica -> [Recipient -> Sends]]
    <3>1. entry \in Sends /\ NoSend \in Sends
      BY <1>1 DEF NoSend, Sends, MailTypes
    <3>2. [lastSendTimes[rep] EXCEPT ![out] = NoSend, ![k0] = entry]
             \in [Recipient -> Sends]
      BY <3>1 DEF MailTypes
    <3>3. lastSendTimes' = [lastSendTimes EXCEPT ![rep] = [lastSendTimes[rep] EXCEPT ![out] = NoSend, ![k0] = entry]]
      BY <2>2 DEF MailTypes
    <3> QED BY <3>2, <3>3 DEF MailTypes
  <2>5. /\ \A n \in Mailing \ {m} : mails'[n] = mails[n]
        /\ mails'[m].at = "sending" /\ mails'[m].to = k0 /\ mails'[m].rep = rep
        /\ mails'[m].door = rep /\ mails'[m].granted = now
        /\ mails' \in [Mailing -> [at : Stages, to : Recipient \cup {Nobody}, rep : Replica \cup {Nobody},
                                   door : Door, granted : Nat]]
    <3> PICK mail : mail = [mails[m] EXCEPT !.at = "sending", !.door = rep, !.granted = now]
      OBVIOUS
    <3>1. /\ mail.at = "sending" /\ mail.to = k0 /\ mail.rep = rep /\ mail.door = rep /\ mail.granted = now
          /\ mail \in [at : Stages, to : Recipient \cup {Nobody}, rep : Replica \cup {Nobody},
                       door : Door, granted : Nat]
      <4>1. /\ "sending" \in Stages /\ rep \in Door
            /\ mails[m] \in [at : Stages, to : Recipient \cup {Nobody}, rep : Replica \cup {Nobody},
                             door : Door, granted : Nat]
        BY DEF MailTypes, Stages, Door
      <4> HIDE DEF MailsInv
      <4> QED BY <1>1, <4>1
    <3>2. mails' = [mails EXCEPT ![m] = mail]
      BY <2>1 DEF MailTypes
    <3> QED BY <3>1, <3>2 DEF MailTypes
  <2>6. MailTypes'
    BY <1>1, <2>4, <2>5 DEF MailTypes
  <2>7. ASSUME NEW k \in Recipient, NEW d \in Door, <<k, d>> \notin torn' PROVE ApartAt(k, d)'
    <3>1. ApartAt(k, d)
      BY <2>2, <2>7
    <3>2. \A n \in Mailing \ {m} : Via(n, k, d)' => Via(n, k, d) /\ mails'[n].granted = mails[n].granted
      BY <2>5 DEF Via, In
    <3>3. \A n \in Mailing : In(n, "done") => In(n, "done")'
      BY <1>1, <2>5 DEF In
    <3>4. rep # Redis
      BY MailAssumption
    <3>5. CASE k = k0 /\ d = rep
      <4>1. Holder(k, d) \notin Mailing \/ HeldUntil(k, d) <= now
        BY <1>3, <3>5, Lapsed
      <4>2. Holder(k, d)' = m /\ HeldUntil(k, d)' = now + Cooldown
        BY <2>3, <3>4, <3>5 DEF Holder, HeldUntil
      <4>3. ~ In(m, "sending")
        BY <1>1 DEF In
      <4> QED BY <1>1, <2>5, <3>1, <3>2, <4>1, <4>2, <4>3, DoorGranted
    <3>6. CASE ~ (k = k0 /\ d = rep)
      <4>1. ~ Via(m, k, d)'
        BY <2>5, <3>6 DEF Via
      <4>2. \/ Holder(k, d)' = Holder(k, d) /\ HeldUntil(k, d)' = HeldUntil(k, d)
            \/ Holder(k, d) \notin Mailing \/ HeldUntil(k, d) <= now
        <5>1. CASE d = Redis
          BY <1>1, <5>1 DEF Holder, HeldUntil
        <5>2. CASE d = rep /\ k = out
          BY <2>2, <2>7, <3>6, <5>2, Lapsed
        <5>3. CASE d # Redis /\ ~ (d = rep /\ k = out)
          <6>1. lastSendTimes'[d][k] = lastSendTimes[d][k]
            BY <2>3, <3>6, <5>3 DEF Door
          <6> QED BY <5>3, <6>1 DEF Holder, HeldUntil
        <5> QED BY <5>1, <5>2, <5>3
      <4> QED BY <1>1, <3>1, <3>2, <3>3, <4>1, <4>2, DoorKept
    <3> QED BY <3>5, <3>6
  <2> QED BY <1>1, <2>2, <2>6, <2>7
<1> QED BY <1>2, <1>3

(* A mail that is sent *)
LEMMA DeliverKeeps ==
    ASSUME MailsInv, NEW m \in Mailing, Deliver(m), now' = now
    PROVE  MailsInv'
<1> USE DEF MailsInv
<1> PICK k0 \in Recipient, d0 \in Door, g \in Nat :
       k0 = mails[m].to /\ d0 = mails[m].door /\ g = mails[m].granted
  BY DEF Deliver, In, MailTypes, Door
<1>1. /\ UNCHANGED <<slots, lastSendTimes, torn>> /\ MailDone(m) /\ In(m, "sending")
      /\ lastMail' = [lastMail EXCEPT ![k0][d0] = g]
      /\ early' = IF g - lastMail[k0][d0] \in (1 - Cooldown)..(Cooldown - 1) THEN early \cup {<<k0, d0>>} ELSE early
  BY DEF Deliver, Mailed
<1>2. Via(m, k0, d0) /\ now \in Nat /\ Cooldown \in Nat \ {0} /\ lastMail[k0][d0] \in Int
  BY <1>1, MailAssumption DEF Via, MailTypes
<1>3. lastMail' \in [Recipient -> [Door -> Int]]
  <2>1. [lastMail[k0] EXCEPT ![d0] = g] \in [Door -> Int]
    BY DEF MailTypes
  <2> QED BY <1>1, <2>1 DEF MailTypes
<1>4. MailTypes'
  BY <1>1, <1>3, DoneIs DEF MailTypes
<1>5. early' \subseteq torn'
  <2>1. <<k0, d0>> \in torn \/ Far(g, lastMail[k0][d0])
    BY <1>2 DEF ApartAt, FarFromSent
  <2> QED BY <1>1, <1>2, <2>1 DEF Far
<1>6. ASSUME NEW k \in Recipient, NEW d \in Door, <<k, d>> \notin torn' PROVE ApartAt(k, d)'
  <2>1. ApartAt(k, d)
    BY <1>1, <1>6
  <2>2. Holder(k, d)' = Holder(k, d) /\ HeldUntil(k, d)' = HeldUntil(k, d)
    BY <1>1 DEF Holder, HeldUntil
  <2>3. /\ \A n \in Mailing \ {m} : mails'[n] = mails[n]
        /\ In(m, "done")' /\ ~ Via(m, k, d)'
    BY <1>1, DoneIs DEF In, Via
  <2>4. CASE k = k0 /\ d = d0
    <3>1. lastMail'[k][d] = mails[m].granted
      BY <1>1, <2>4 DEF MailTypes
    <3> QED BY <1>2, <2>1, <2>2, <2>3, <2>4, <3>1, DoorSent
  <2>5. CASE ~ (k = k0 /\ d = d0)
    <3>1. lastMail'[k][d] = lastMail[k][d]
      BY <1>1, <2>5 DEF MailTypes
    <3>2. \A n \in Mailing : Via(n, k, d)' => Via(n, k, d) /\ mails'[n].granted = mails[n].granted
      BY <2>3 DEF Via, In
    <3>3. \A n \in Mailing : In(n, "done") => In(n, "done")'
      BY <2>3 DEF In
    <3> QED BY <1>2, <2>1, <2>2, <3>1, <3>2, <3>3, DoorKept
  <2> QED BY <2>4, <2>5
<1> QED BY <1>4, <1>5, <1>6

(* A mail that is not sent, or seems not to be *)
LEMMA SendFailsKeeps ==
    ASSUME MailsInv, NEW m \in Mailing, SendFails(m), now' = now
    PROVE  MailsInv'
<1> USE DEF MailsInv
<1> PICK k0 \in Recipient, d0 \in Door, g \in Nat :
       k0 = mails[m].to /\ d0 = mails[m].door /\ g = mails[m].granted
  BY DEF SendFails, In, MailTypes, Door
<1> PICK stage \in {"releasing", "clearing"} : Pass(m, stage)
  BY DEF SendFails
<1>1. /\ UNCHANGED <<slots, lastSendTimes>> /\ In(m, "sending")
      /\ \/ UNCHANGED <<lastMail, early, torn>>
         \/ /\ lastMail' = [lastMail EXCEPT ![k0][d0] = g]
            /\ early' \subseteq early \cup {<<k0, d0>>}
            /\ torn' = torn \cup {<<k0, d0>>}
  BY DEF SendFails, Mailed
<1>2. now \in Nat /\ Cooldown \in Nat \ {0} /\ mails[m].at \notin {"idle", "done"} /\ stage \in Stages
  BY <1>1, MailAssumption DEF In, MailTypes, Stages
<1>3. lastMail' \in [Recipient -> [Door -> Int]]
  <2>1. [lastMail[k0] EXCEPT ![d0] = g] \in [Door -> Int]
    BY DEF MailTypes
  <2> QED BY <1>1, <2>1 DEF MailTypes
<1>4. MailTypes'
  BY <1>1, <1>2, <1>3, PassIs DEF MailTypes
<1>5. ASSUME NEW k \in Recipient, NEW d \in Door, <<k, d>> \notin torn' PROVE ApartAt(k, d)'
  <2>1. ApartAt(k, d)
    BY <1>1, <1>5
  <2>2. Holder(k, d)' = Holder(k, d) /\ HeldUntil(k, d)' = HeldUntil(k, d)
    BY <1>1 DEF Holder, HeldUntil
  <2>3. /\ \A n \in Mailing \ {m} : mails'[n] = mails[n]
        /\ ~ Via(m, k, d)' /\ ~ In(m, "done")
    BY <1>2, PassIs DEF In, Via
  <2>4. lastMail'[k][d] = lastMail[k][d]
    BY <1>1, <1>5 DEF MailTypes
  <2>5. \A n \in Mailing : Via(n, k, d)' => Via(n, k, d) /\ mails'[n].granted = mails[n].granted
    BY <2>3 DEF Via, In
  <2>6. \A n \in Mailing : In(n, "done") => In(n, "done")'
    BY <2>3 DEF In
  <2> QED BY <1>2, <2>1, <2>2, <2>4, <2>5, <2>6, DoorKept
<1>6. early' \subseteq torn'
  BY <1>1
<1> QED BY <1>4, <1>5, <1>6

(* The slot in Redis goes only if the one who lets go of it has it.         *)
LEMMA ReleaseKeeps ==
    ASSUME MailsInv, NEW m \in Mailing, releaseSendSlot(m), now' = now
    PROVE  MailsInv'
<1> USE DEF MailsInv
<1> PICK k0 \in Recipient : k0 = mails[m].to
  BY DEF releaseSendSlot, In, MailTypes
<1>1. /\ UNCHANGED <<lastSendTimes, lastMail, early, torn>> /\ Pass(m, "clearing") /\ In(m, "releasing")
      /\ slots' = slots \/ (slots[k0].token = m /\ slots' = [slots EXCEPT ![k0] = NoSlot])
  BY DEF releaseSendSlot
<1>2. now \in Nat /\ Cooldown \in Nat \ {0} /\ mails[m].at \notin {"idle", "done"} /\ "clearing" \in Stages
  BY <1>1, MailAssumption DEF In, MailTypes, Stages
<1>3. MailTypes'
  <2>1. slots' \in [Recipient -> [token : Mailing \cup {Nobody}, until : Nat]]
    BY <1>1 DEF MailTypes, NoSlot
  <2> QED BY <1>1, <1>2, <2>1, PassIs DEF MailTypes
<1>4. ASSUME NEW k \in Recipient, NEW d \in Door, <<k, d>> \notin torn' PROVE ApartAt(k, d)'
  <2>1. ApartAt(k, d)
    BY <1>1, <1>4
  <2>2. /\ \A n \in Mailing \ {m} : mails'[n] = mails[n]
        /\ ~ Via(m, k, d)' /\ ~ In(m, "done")
    BY <1>1, <1>2, PassIs DEF In, Via
  <2>3. \/ Holder(k, d)' = Holder(k, d) /\ HeldUntil(k, d)' = HeldUntil(k, d)
        \/ \A n \in Mailing : n = Holder(k, d) => ~ In(n, "done") /\ ~ Via(n, k, d)'
    <3>1. CASE d = Redis /\ k = k0 /\ slots[k0].token = m
      BY <2>2, <3>1 DEF Holder
    <3>2. CASE ~ (d = Redis /\ k = k0 /\ slots[k0].token = m)
      BY <1>1, <3>2 DEF Holder, HeldUntil, MailTypes
    <3> QED BY <3>1, <3>2
  <2>4. \A n \in Mailing : Via(n, k, d)' => Via(n, k, d) /\ mails'[n].granted = mails[n].granted
    BY <2>2 DEF Via, In
  <2>5. \A n \in Mailing : In(n, "done") => In(n, "done")'
    BY <2>2 DEF In
  <2> QED BY <1>1, <1>2, <2>1, <2>3, <2>4, <2>5, DoorKept
<1> QED BY <1>1, <1>3, <1>4

(* The entry of the replica goes whosever it is: then that one is torn. *)
LEMMA ClearKeeps ==
    ASSUME MailsInv, NEW m \in Mailing, clearLocalSlot(m), now' = now
    PROVE  MailsInv'
<1> USE DEF MailsInv
<1> PICK rep \in Replica, k0 \in Recipient : rep = mails[m].rep /\ k0 = mails[m].to
  BY DEF clearLocalSlot, In, MailTypes
<1>1. /\ UNCHANGED <<slots, lastMail, early>> /\ MailDone(m) /\ In(m, "clearing")
      /\ lastSendTimes' = [lastSendTimes EXCEPT ![rep][k0] = NoSend]
      /\ torn' = IF isInCooldown(rep, k0) /\ lastSendTimes[rep][k0].by # m THEN torn \cup {<<k0, rep>>} ELSE torn
  BY DEF clearLocalSlot
<1>2. now \in Nat /\ Cooldown \in Nat \ {0}
  BY MailAssumption DEF MailTypes
<1>3. MailTypes'
  <2>1. [lastSendTimes[rep] EXCEPT ![k0] = NoSend] \in [Recipient -> Sends]
    BY DEF MailTypes, NoSend, Sends
  <2>2. lastSendTimes' \in [Replica -> [Recipient -> Sends]]
    BY <1>1, <2>1 DEF MailTypes
  <2> QED BY <1>1, <2>2, DoneIs DEF MailTypes
<1>4. ASSUME NEW k \in Recipient, NEW d \in Door, <<k, d>> \notin torn' PROVE ApartAt(k, d)'
  <2>1. ApartAt(k, d)
    BY <1>1, <1>4
  <2>2. /\ \A n \in Mailing \ {m} : mails'[n] = mails[n]
        /\ ~ Via(m, k, d)' /\ ~ In(m, "done") /\ In(m, "done")'
    BY <1>1, DoneIs DEF In, Via
  <2>3. \/ Holder(k, d)' = Holder(k, d) /\ HeldUntil(k, d)' = HeldUntil(k, d)
        \/ HeldUntil(k, d) <= now
        \/ \A n \in Mailing : n = Holder(k, d) => ~ In(n, "done") /\ ~ Via(n, k, d)'
    <3>1. CASE d = rep /\ k = k0
      <4>1. ~ isInCooldown(rep, k0) \/ lastSendTimes[rep][k0].by = m
        BY <1>1, <1>4, <3>1
      <4>2. d # Redis
        BY <3>1, MailAssumption
      <4>3. CASE lastSendTimes[rep][k0].by = m
        BY <2>2, <3>1, <4>2, <4>3 DEF Holder
      <4>4. CASE ~ isInCooldown(rep, k0)
        BY <3>1, <4>4, Lapsed
      <4> QED BY <4>1, <4>3, <4>4
    <3>2. CASE ~ (d = rep /\ k = k0)
      BY <1>1, <3>2 DEF Holder, HeldUntil, MailTypes, Door
    <3> QED BY <3>1, <3>2
  <2>4. \A n \in Mailing : Via(n, k, d)' => Via(n, k, d) /\ mails'[n].granted = mails[n].granted
    BY <2>2 DEF Via, In
  <2>5. \A n \in Mailing : In(n, "done") => In(n, "done")'
    BY <2>2 DEF In
  <2> QED BY <1>1, <1>2, <2>1, <2>3, <2>4, <2>5, DoorKept
<1> QED BY <1>1, <1>3, <1>4

(* A replica that starts again has forgotten everybody, and its requests.   *)
LEMMA ForgetKeeps ==
    ASSUME MailsInv, NEW rep \in Replica, ForgetSends(rep), now' = now
    PROVE  MailsInv'
<1> USE DEF MailsInv
<1> PICK gone : gone = [NoMail EXCEPT !.at = "done"]
  OBVIOUS
<1>1. /\ UNCHANGED <<slots, lastMail, early>>
      /\ mails' = [m \in Mailing |-> IF mails[m].rep = rep THEN gone ELSE mails[m]]
      /\ lastSendTimes' = [lastSendTimes EXCEPT ![rep] = [k \in Recipient |-> NoSend]]
      /\ torn' = torn \cup (Tracked(rep) \X {rep})
  BY DEF ForgetSends
<1>2. now \in Nat /\ Cooldown \in Nat \ {0} /\ rep # Redis
  BY MailAssumption DEF MailTypes
<1>3. /\ gone \in [at : Stages, to : Recipient \cup {Nobody}, rep : Replica \cup {Nobody}, door : Door, granted : Nat]
      /\ gone.at = "done"
  BY DEF NoMail, Stages, Door
<1>4. MailTypes'
  <2>1. lastSendTimes' \in [Replica -> [Recipient -> Sends]]
    BY <1>1 DEF MailTypes, NoSend, Sends
  <2>2. /\ mails' \in [Mailing -> [at : Stages, to : Recipient \cup {Nobody}, rep : Replica \cup {Nobody},
                                   door : Door, granted : Nat]]
        /\ \A n \in Mailing : mails'[n].at \notin {"idle", "done"} =>
              mails'[n].to \in Recipient /\ mails'[n].rep \in Replica /\ mails'[n].door \in {Redis, mails'[n].rep}
    BY <1>1, <1>3 DEF MailTypes
  <2> QED BY <1>1, <2>1, <2>2 DEF MailTypes
<1>5. ASSUME NEW k \in Recipient, NEW d \in Door, <<k, d>> \notin torn' PROVE ApartAt(k, d)'
  <2>1. ApartAt(k, d)
    BY <1>1, <1>5
  <2>2. \A n \in Mailing : mails'[n] = mails[n] \/ mails'[n].at = "done"
    BY <1>1, <1>3
  <2>3. \A n \in Mailing : Via(n, k, d)' => Via(n, k, d) /\ mails'[n].granted = mails[n].granted
    BY <2>2 DEF Via, In
  <2>4. \A n \in Mailing : In(n, "done") => In(n, "done")'
    BY <2>2 DEF In
  <2>5. \/ Holder(k, d)' = Holder(k, d) /\ HeldUntil(k, d)' = HeldUntil(k, d)
        \/ HeldUntil(k, d) <= now
        \/ \A n \in Mailing : n = Holder(k, d) => ~ In(n, "done") /\ ~ Via(n, k, d)'
    <3>1. CASE d = rep
      <4>1. ~ isInCooldown(rep, k)
        BY <1>1, <1>5, <3>1 DEF Tracked
      <4> QED BY <3>1, <4>1, Lapsed
    <3>2. CASE d # rep
      BY <1>1, <3>2 DEF Holder, HeldUntil, MailTypes, Door
    <3> QED BY <3>1, <3>2
  <2> QED BY <1>1, <1>2, <2>1, <2>3, <2>4, <2>5, DoorKept
<1> QED BY <1>1, <1>4, <1>5

(* The timer of an entry fires when its cooldown is over. *)
LEMMA SendTimerKeeps ==
    ASSUME MailsInv, NEW rep \in Replica, NEW k0 \in Recipient, SendTimer(rep, k0), now' = now
    PROVE  MailsInv'
<1> USE DEF MailsInv
<1>1. /\ UNCHANGED <<slots, mails, lastMail, early, torn>> /\ ~ isInCooldown(rep, k0)
      /\ lastSendTimes' = [lastSendTimes EXCEPT ![rep][k0] = NoSend]
      /\ now \in Nat
  BY DEF SendTimer, Tracked, SentTo, MailTypes
<1>2. MailTypes'
  <2>1. [lastSendTimes[rep] EXCEPT ![k0] = NoSend] \in [Recipient -> Sends]
    BY DEF MailTypes, NoSend, Sends
  <2>2. lastSendTimes' \in [Replica -> [Recipient -> Sends]]
    BY <1>1, <2>1 DEF MailTypes
  <2> QED BY <1>1, <2>2 DEF MailTypes
<1>3. ASSUME NEW k \in Recipient, NEW d \in Door, <<k, d>> \notin torn' PROVE ApartAt(k, d)'
  <2>1. ApartAt(k, d)
    BY <1>1, <1>3
  <2>2. \/ Holder(k, d)' = Holder(k, d) /\ HeldUntil(k, d)' = HeldUntil(k, d)
        \/ Holder(k, d) \notin Mailing \/ HeldUntil(k, d) <= now
    <3>1. CASE d = rep /\ k = k0
      BY <1>1, <3>1, Lapsed
    <3>2. CASE ~ (d = rep /\ k = k0)
      BY <1>1, <3>2 DEF Holder, HeldUntil, MailTypes, Door
    <3> QED BY <3>1, <3>2
  <2>3. /\ \A n \in Mailing : Via(n, k, d)' => Via(n, k, d) /\ mails'[n].granted = mails[n].granted
        /\ \A n \in Mailing : In(n, "done") => In(n, "done")'
    BY <1>1 DEF Via, In
  <2> QED BY <1>1, <2>1, <2>2, <2>3, DoorKept
<1> QED BY <1>1, <1>2, <1>3

LEMMA MailTickKeeps ==
    ASSUME MailsInv, MailTick
    PROVE  MailsInv'
<1> USE DEF MailsInv
<1>1. /\ UNCHANGED <<slots, lastSendTimes, mails, lastMail, early, torn>>
      /\ now \in Nat /\ now' = now + 1
  BY DEF MailTick, mailVars, MailTypes
<1>2. MailTypes'
  BY <1>1 DEF MailTypes
<1>3. ASSUME NEW k \in Recipient, NEW d \in Door, <<k, d>> \notin torn' PROVE ApartAt(k, d)'
  <2>1. ApartAt(k, d)
    BY <1>1, <1>3
  <2>2. /\ Holder(k, d)' = Holder(k, d) /\ HeldUntil(k, d)' = HeldUntil(k, d)
        /\ \A n \in Mailing : Via(n, k, d)' => Via(n, k, d) /\ mails'[n].granted = mails[n].granted
        /\ \A n \in Mailing : In(n, "done") => In(n, "done")'
    BY <1>1 DEF Holder, HeldUntil, Via, In
  <2> QED BY <1>1, <2>1, <2>2, DoorKept
<1> QED BY <1>1, <1>2, <1>3

LEMMA MailsStart == AuthMailsInit => MailsInv
<1> SUFFICES ASSUME AuthMailsInit PROVE MailsInv
  OBVIOUS
<1>1. Cooldown \in Nat \ {0} /\ Never = 0 - Cooldown
  BY MailAssumption DEF Never
<1>2. MailTypes
  <2>1. NoMail \in [at : Stages, to : Recipient \cup {Nobody}, rep : Replica \cup {Nobody}, door : Door, granted : Nat]
        /\ NoMail.at = "idle"
    BY DEF NoMail, Stages, Door
  <2>2. lastMail \in [Recipient -> [Door -> Int]]
    BY <1>1 DEF AuthMailsInit
  <2>3. NoSlot \in [token : Mailing \cup {Nobody}, until : Nat] /\ NoSend \in Sends
    BY DEF NoSlot, NoSend, Sends
  <2> QED BY <2>1, <2>2, <2>3 DEF AuthMailsInit, MailTypes
<1>3. ASSUME NEW k \in Recipient, NEW d \in Door PROVE ApartAt(k, d)
  <2>1. now = 0 /\ lastMail[k][d] = Never /\ \A m \in Mailing : ~ Via(m, k, d)
    BY <1>1 DEF AuthMailsInit, Via, In, NoMail
  <2> QED BY <1>1, <2>1 DEF ApartAt, StillHeld, SentHeld, FarFromSent, FarFromOthers
<1> QED BY <1>2, <1>3 DEF MailsInv, AuthMailsInit

LEMMA MailsStep == MailsInv /\ [AuthMailsNext]_<<now, mailVars>> => MailsInv'
<1> SUFFICES ASSUME MailsInv, [AuthMailsNext]_<<now, mailVars>> PROVE MailsInv'
  OBVIOUS
<1>1. CASE UNCHANGED <<now, mailVars>>
  <2>1. UNCHANGED <<now, slots, lastSendTimes, mails, lastMail, early, torn>>
    BY <1>1 DEF mailVars
  <2>2. MailTypes'
    BY <2>1 DEF MailsInv, MailTypes
  <2>3. \A k \in Recipient, d \in Door : ApartAt(k, d) => ApartAt(k, d)'
    BY <2>1 DEF ApartAt, StillHeld, SentHeld, FarFromSent, FarFromOthers, Holder, HeldUntil, Via, In, Far
  <2> QED BY <2>1, <2>2, <2>3 DEF MailsInv
<1>2. CASE AuthMailsNext
  BY <1>2, MailTickKeeps, AcquireKeeps, FallBackKeeps, DeliverKeeps, SendFailsKeeps, ReleaseKeeps, ClearKeeps,
     ForgetKeeps, SendTimerKeeps DEF AuthMailsNext
<1> QED BY <1>1, <1>2

(* Two mails that the same door let pass to one recipient were let pass a   *)
(* cooldown apart, unless the door lost a slot: acquireSendSlot,            *)
(* releaseSendSlot and trackSend on any number of replicas, whatever        *)
(* requests to Redis fail and however late a failure is found out.         *)
THEOREM MailsApartCorrect == AuthMailsSpec => []MailsApart
<1>1. MailsInv => MailsApart
  BY DEF MailsInv, MailsApart
<1> QED BY <1>1, MailsStart, MailsStep, PTL DEF AuthMailsSpec

-----------------------------------------------------------------------------
(* The two ways of signing in: the places of a call, and what it has in     *)
(* hand there                                                               *)
Syncing  == {"endSessions", "syncUser", "syncAccount", "syncWrite"}
Naming   == {"linkNew", "toLegacy"}
Cleaning == {"cleanSessions", "cleanAccounts"}
Entering == {"migrate", "findAccount", "link", "insert", "check", "session"}
HasSeen  == Place \ {"idle", "migrate", "check", "signUp"}
HasText  == Entering \cup Naming \cup (Syncing \ {"endSessions"}) \cup {"upsert", "signUp", "saveReset"}

Call == [op : Operation \cup {"none"}, at : Place, text : Text \cup {NoText},
         email : Address \cup {"none"}, old : Address \cup {"none"}, seen : UserDoc \cup {NoUser}]
IsCall(call) ==
    /\ call \in Call
    /\ call.at \in HasSeen \/ call.op = "signInLegacy" => call.seen \in UserDoc
    /\ call.at \in HasText => call.text # NoText
    /\ call.at \in Entering => call.op \in {"signInIam", "signInLegacy"}
    /\ call.at \in Naming \cup {"signUp"} => call.email \in Address
    /\ call.at \in {"link", "insert"} => Compares(call.text, call.seen.password)
    /\ call.at = "saveReset" => call.op = "reset"
    /\ call.at \in {"read", "save"} => call.op \in {"update", "signInLegacy"}
    /\ call.at \in Syncing => call.op \in {"update", "reset"}
    /\ call.at \in Syncing \ {"endSessions"} => ~ call.text.sha256
    /\ call.op \in {"update", "reset"} => call.old \in Address

Called == callers \in [Caller -> Call] /\ \A c \in Caller : IsCall(callers[c])
IdentityTypes ==
    /\ user \in UserDoc \cup {NoUser}
    /\ accounts \in [AccountId -> [owner : 1..MaxUser, password : Text] \cup {NoAccount}]
    /\ sessions \subseteq 1..MaxUser
    /\ Called
    /\ apart \subseteq Reasons

(* The accounts of the user open with this text. *)
Matching(t) == \A a \in AccountsOf(user.id) : accounts[a].password = sha256(t)

(* Who is about to bring IAM in line with the password the user has, and    *)
(* who is about to give a password to a user IAM has made                   *)
Writing(c) ==
    /\ callers[c].at \in Syncing /\ callers[c].seen.id = user.id
    /\ PlainText(c) /\ user.password = Bcrypted(callers[c].text)
Signing(c) == callers[c].at \in Naming /\ callers[c].seen.id = user.id /\ user.password = NoText

(* A user has one account of IAM.  Where it does not open with the password *)
(* of the user, some call is about to bring it in line, and the text that   *)
(* a sign-up will give to a user without a password is that of the account. *)
OneAccount == \A a, b \in AccountId : accounts[a].owner = accounts[b].owner => accounts[a].owner = 0 \/ a = b
InStep ==
    ~ Delegated /\ user.id # 0 /\ AccountsOf(user.id) # {} =>
       \/ user.password # NoText /\ Matching(user.password)
       \/ \E c \in Caller : Writing(c) \/ Signing(c)
SignedUp == ~ Delegated => \A c \in Caller : Signing(c) => Matching(callers[c].text)

(* What is left of a user that was deleted is about to be cleaned up. *)
Gone == \A c \in Caller : callers[c].at \in Cleaning => callers[c].seen.id # user.id
Cleans(c, id, places) == callers[c].at \in places /\ callers[c].seen.id = id
Cleaned ==
    /\ \A s \in sessions : s = user.id \/ \E c \in Caller : Cleans(c, s, {"cleanSessions"})
    /\ \A a \in AccountId : accounts[a].owner \in {0, user.id} \/ \E c \in Caller : Cleans(c, accounts[a].owner, Cleaning)

Kept == OneAccount /\ InStep /\ SignedUp /\ Gone /\ Cleaned
IdentityInv == IdentityTypes /\ (apart = {} => Kept)

-----------------------------------------------------------------------------
LEMMA Texts ==
    ASSUME NEW t \in Text \cup {NoText}
    PROVE  /\ sha256(t).sha256 /\ sha256(t) # NoText /\ sha256(sha256(t)) = sha256(t)
           /\ sha256(Bcrypted(t)) = sha256(t)
           /\ t # NoText => sha256(t) \in Text /\ Bcrypted(t) \in Text /\ Bcrypted(t) # NoText
           /\ t.sha256 \in BOOLEAN
<1> DEFINE R == [of : Password \cup {"none"}, sha256 : BOOLEAN]
<1>1. NoText \in R /\ NoText.sha256 = FALSE
  BY DEF NoText
<1>2. \A x \in Text : x \in R /\ x.of \in Password
  BY DEF Text
<1>3. \A x \in R : sha256(x) \in R /\ sha256(x).of = x.of /\ sha256(x).sha256 = TRUE
  BY DEF sha256
<1>4. \A x, y \in R : x.of = y.of /\ x.sha256 = y.sha256 => x = y
  OBVIOUS
<1>5. \A x \in R : x.of \in Password => x \in Text
  BY DEF Text
<1>6. t \in R /\ t.sha256 \in BOOLEAN
  BY <1>1, <1>2
<1>7. sha256(sha256(t)) = sha256(t)
  BY <1>3, <1>4, <1>6
<1>8. sha256(t).sha256 /\ sha256(t) # NoText /\ (t # NoText => sha256(t) \in Text)
  BY <1>1, <1>2, <1>3, <1>5, <1>6
<1>9. Bcrypted(t) \in {t, sha256(t)}
  BY DEF Bcrypted
<1> QED BY <1>6, <1>7, <1>8, <1>9

LEMMA ComparesIs ==
    ASSUME NEW t \in Text \cup {NoText}, NEW hash \in Text \cup {NoText}, Compares(t, hash)
    PROVE  hash # NoText /\ sha256(hash) = sha256(t)
BY Texts DEF Compares

(* There is an ID for a new user. *)
LEMMA NewestIs ==
    ASSUME IdentityTypes
    PROVE  /\ Newest \in 0..MaxUser
           /\ \A a \in AccountId : accounts[a].owner <= Newest
           /\ \A s \in sessions : s <= Newest
           /\ \A c \in Caller : callers[c].seen.id <= Newest
<1> DEFINE ids  == sessions \cup {callers[c].seen.id : c \in Caller} \cup {accounts[a].owner : a \in AccountId}
           left == {MaxUser - id : id \in ids \cup {0}}
<1>1. MaxUser \in Nat /\ ids \subseteq 0..MaxUser
  <2>1. \A c \in Caller : callers[c].seen.id \in 0..MaxUser
    <3> SUFFICES ASSUME NEW c \in Caller PROVE callers[c].seen.id \in 0..MaxUser
      OBVIOUS
    <3>1. callers[c].seen \in UserDoc \cup {NoUser}
      BY DEF IdentityTypes, Called, Call
    <3> QED BY <3>1, IdentityAssumption DEF UserDoc, NoUser
  <2>2. \A a \in AccountId : accounts[a].owner \in 0..MaxUser
    BY IdentityAssumption DEF IdentityTypes, NoAccount
  <2>3. sessions \subseteq 0..MaxUser /\ MaxUser \in Nat
    BY IdentityAssumption DEF IdentityTypes
  <2> QED BY <2>1, <2>2, <2>3
<1>2. left \subseteq Nat /\ left # {}
  <2>1. MaxUser - 0 \in left
    OBVIOUS
  <2> HIDE DEF ids
  <2> QED BY <1>1, <2>1
<1>3. PICK least \in left : \A l \in left : ~ l < least
  <2> HIDE DEF left
  <2>1. PICK least \in left : \A l \in left : ~ (<<l, least>> \in OpToRel(<, Nat))
    BY <1>2, WFMin, NatLessThanWellFounded
  <2> QED BY <1>2, <2>1 DEF OpToRel
<1>4. PICK new \in ids \cup {0} : least = MaxUser - new
  OBVIOUS
<1> HIDE DEF ids
<1>5. new \in 0..MaxUser /\ \A id \in ids : id <= new
  <2>1. new \in 0..MaxUser
    BY <1>1
  <2> SUFFICES ASSUME NEW id \in ids PROVE id <= new
    BY <2>1
  <2>2. MaxUser - id \in left /\ id \in Int
    BY <1>1
  <2>3. ~ (MaxUser - id < MaxUser - new)
    BY <1>3, <1>4, <2>2
  <2> QED BY <1>1, <2>1, <2>2, <2>3
<1> USE DEF ids
<1>6. Newest = CHOOSE id \in 0..MaxUser :
            /\ \A a \in AccountId : accounts[a].owner <= id
            /\ \A s \in sessions \cup {callers[c].seen.id : c \in Caller} : s <= id
            /\ id = 0 \/ id \in ids
  BY DEF Newest
<1>7. /\ \A a \in AccountId : accounts[a].owner <= new
      /\ \A s \in sessions \cup {callers[c].seen.id : c \in Caller} : s <= new
      /\ new = 0 \/ new \in ids
  BY <1>4, <1>5
<1> QED BY <1>5, <1>6, <1>7

-----------------------------------------------------------------------------
(* A call moves on, or returns, and no other does.                         *)
Others(c) == callers' \in [Caller -> Call] /\ \A d \in Caller : d # c => callers'[d] = callers[d]
Moved(c, place, doc) ==
    /\ Others(c)
    /\ callers'[c].op = callers[c].op /\ callers'[c].text = callers[c].text
    /\ callers'[c].email = callers[c].email /\ callers'[c].old = callers[c].old
    /\ callers'[c].at = place /\ callers'[c].seen = doc
Returned(c) == Others(c) /\ callers'[c] = Idle

LEMMA SeeIs ==
    ASSUME Called, NEW c \in Caller, NEW place \in Place, NEW doc \in UserDoc \cup {NoUser}, See(c, place, doc)
    PROVE  Moved(c, place, doc)
BY DEF Called, Call, See, Moved, Others

LEMMA GotoIs ==
    ASSUME Called, NEW c \in Caller, NEW place \in Place, Goto(c, place)
    PROVE  Moved(c, place, callers[c].seen)
BY DEF Called, Call, Goto, Moved, Others

LEMMA ReturnIs ==
    ASSUME Called, NEW c \in Caller, Return(c)
    PROVE  Returned(c) /\ IsCall(Idle)
<1>1. Idle \in Call
  BY DEF Idle, Call, Place
<1>2. IsCall(Idle)
  BY <1>1 DEF IsCall, Idle, HasSeen, HasText, Entering, Naming, Syncing
<1> QED BY <1>1, <1>2 DEF Called, Return, Returned, Others

LEMMA CalledKept ==
    ASSUME Called, NEW c \in Caller, Others(c), IsCall(callers'[c])
    PROVE  Called'
BY DEF Called, Others

(* What a call does that changes no password, and no account or session,    *)
(* keeps all this, unless it was the one that had to bring IAM in line or   *)
(* to clean up.                                                             *)
SameLogin == user'.id = user.id /\ user'.password = user.password /\ accounts' = accounts

LEMMA CleansAsBefore ==
    ASSUME Kept, NEW c \in Caller, Others(c), user'.id = user.id, sessions' \subseteq sessions \cup {user.id},
           \A a \in AccountId : accounts'[a].owner = accounts[a].owner,
           callers[c].at \notin Cleaning, callers'[c].at \notin Cleaning
    PROVE  OneAccount' /\ Gone' /\ Cleaned'
<1>1. OneAccount' /\ Gone'
  BY DEF Kept, OneAccount, Gone, Others
<1>2. \A id, places : places \subseteq Cleaning => \A d \in Caller : Cleans(d, id, places) => Cleans(d, id, places)'
  BY DEF Cleans, Others
<1>3. \A s \in sessions' : s = user'.id \/ \E d \in Caller : Cleans(d, s, {"cleanSessions"})'
  BY <1>2 DEF Kept, Cleaned, Cleaning
<1>4. \A a \in AccountId : \/ accounts'[a].owner \in {0, user'.id}
                            \/ \E d \in Caller : Cleans(d, accounts[a].owner, Cleaning)'
  BY <1>2 DEF Kept, Cleaned
<1> QED BY <1>1, <1>3, <1>4 DEF Cleaned

LEMMA InStepAsBefore ==
    ASSUME Kept, NEW c \in Caller, Others(c), user'.id = user.id, user'.password = user.password,
           AccountsOf(user.id)' = AccountsOf(user.id), \A a \in AccountsOf(user.id) : accounts'[a] = accounts[a],
           Writing(c) => Writing(c)' \/ AccountsOf(user.id) = {},
           Signing(c)' <=> Signing(c), Signing(c) => callers'[c].text = callers[c].text
    PROVE  InStep' /\ SignedUp'
<1>1. \A d \in Caller : d # c => callers'[d] = callers[d] /\ (Writing(d)' <=> Writing(d)) /\ (Signing(d)' <=> Signing(d))
  BY DEF Others, Writing, Signing, PlainText
<1>2. InStep'
  BY <1>1 DEF Kept, InStep, Matching
<1>3. ASSUME ~ Delegated, NEW d \in Caller, Signing(d)' PROVE Matching(callers[d].text)'
  <2>1. callers'[d].text = callers[d].text /\ Matching(callers[d].text)
    BY <1>1, <1>3 DEF Kept, SignedUp
  <2> QED BY <2>1 DEF Matching
<1> QED BY <1>2, <1>3 DEF SignedUp

LEMMA StaysOut ==
    ASSUME Kept, NEW c \in Caller, Others(c), SameLogin, sessions' \subseteq sessions \cup {user.id},
           callers[c].at \notin Naming \cup Cleaning, callers'[c].at \notin Naming \cup Cleaning,
           Writing(c) => Writing(c)' \/ AccountsOf(user.id) = {}
    PROVE  Kept'
<1>1. AccountsOf(user.id)' = AccountsOf(user.id) /\ ~ Signing(c) /\ ~ Signing(c)'
  BY DEF SameLogin, AccountsOf, Signing
<1>2. InStep' /\ SignedUp'
  BY <1>1, InStepAsBefore DEF SameLogin
<1>3. OneAccount' /\ Gone' /\ Cleaned'
  BY CleansAsBefore DEF SameLogin
<1> QED BY <1>2, <1>3 DEF Kept

LEMMA AsideKeeps ==
    ASSUME IdentityInv, NEW c \in Caller, Others(c), IsCall(callers'[c]),
           user' \in UserDoc \cup {NoUser}, SameLogin, sessions' = sessions,
           apart \subseteq apart', apart' \subseteq Reasons,
           apart' = {} => /\ callers[c].at \notin Naming \cup Syncing \cup Cleaning
                          /\ callers'[c].at \notin Naming \cup Cleaning
    PROVE  IdentityInv'
<1>1. Called'
  BY CalledKept DEF IdentityInv, IdentityTypes
<1>2. IdentityTypes'
  BY <1>1 DEF IdentityInv, IdentityTypes, SameLogin
<1>3. ASSUME apart' = {} PROVE Kept'
  BY <1>3, StaysOut DEF IdentityInv, Writing
<1> QED BY <1>2, <1>3 DEF IdentityInv

-----------------------------------------------------------------------------
(* The requests that leave the password and what IAM knows as they are      *)
LEMMA EnterKeeps ==
    ASSUME IdentityInv, NEW c \in Caller, NEW op \in Operation, NEW text \in Text \cup {NoText},
           NEW email \in Address \cup {"none"}, Enter(c, op, text, email)
    PROVE  IdentityInv'
<1> DEFINE place == IF op = "signInLegacy" THEN LegacyPlace ELSE FirstPlace[op]
           call  == [op |-> op, text |-> text, email |-> email, old |-> user.email, seen |-> user, at |-> place]
<1>1. callers' = [callers EXCEPT ![c] = call] /\ At(c, "idle") /\ Data /\ UNCHANGED apart
  BY DEF Enter
<1>2. /\ op \in {"signInIam", "signUpIam", "signUpLegacy", "signInLegacy", "reset"} => text # NoText
      /\ op \in {"signUpIam", "signUpLegacy"} => email \in Address
      /\ op = "signInLegacy" /\ place # "check" => Compares(text, user.password)
      /\ op = "reset" => user.resetToken
      /\ op \in {"update", "delete"} => user # NoUser
  BY DEF Enter, Operation
<1>3. /\ op = "signInIam" => place = "migrate"
      /\ op \in {"signUpIam", "signUpLegacy"} => place = "signUp"
      /\ op = "reset" => place = "saveReset"
      /\ op = "update" => place = "read"
      /\ op = "delete" => place = "remove"
      /\ op = "signInLegacy" => place \in {"read", "check", "migrate"}
      /\ op = "signInLegacy" /\ place = "check" => user.iamId
  BY DEF FirstPlace, LegacyPlace
<1>4. user \in UserDoc \cup {NoUser} /\ Called
  BY DEF IdentityInv, IdentityTypes
<1>5. op \in {"signInLegacy", "reset", "update", "delete"} => user \in UserDoc
  <2>1. ~ NoUser.resetToken /\ ~ NoUser.iamId /\ ~ Compares(text, NoUser.password)
    BY DEF NoUser, Compares
  <2> QED BY <1>2, <1>3, <1>4, <2>1
<1>6. /\ user.email \in Address \cup {"none"}
      /\ user \in UserDoc => user.email \in Address
  BY <1>4 DEF UserDoc, NoUser
<1>7. place \in Place /\ place \in {"migrate", "check", "signUp", "saveReset", "read", "remove"}
  BY <1>3 DEF Operation, Place
<1> HIDE DEF place
<1>8. call \in Call
  BY <1>4, <1>6, <1>7 DEF Call
<1>9. IsCall(call)
  BY <1>2, <1>3, <1>5, <1>6, <1>7, <1>8
     DEF IsCall, HasSeen, HasText, Entering, Naming, Syncing, Operation
<1> HIDE DEF call
<1>10. Others(c) /\ callers'[c] = call /\ call.at = place
  BY <1>1, <1>4, <1>8 DEF Others, Called, call
<1> QED BY <1>1, <1>4, <1>7, <1>9, <1>10, AsideKeeps
        DEF IdentityInv, IdentityTypes, Data, At, SameLogin, Naming, Syncing, Cleaning

LEMMA ForgotKeeps ==
    ASSUME IdentityInv, ForgotPassword
    PROVE  IdentityInv'
<1>1. /\ user \in UserDoc /\ user' = [user EXCEPT !.resetToken = TRUE]
      /\ UNCHANGED <<accounts, sessions, callers, apart>>
  BY DEF IdentityInv, IdentityTypes, ForgotPassword
<1>2. user' \in UserDoc /\ SameLogin
  BY <1>1 DEF UserDoc, SameLogin
<1>3. IdentityTypes'
  BY <1>1, <1>2 DEF IdentityInv, IdentityTypes, Called
<1>4. ASSUME apart' = {} PROVE Kept'
  <2>1. \A d \in Caller : (Writing(d)' <=> Writing(d)) /\ (Signing(d)' <=> Signing(d))
    BY <1>1, <1>2 DEF SameLogin, Writing, Signing, PlainText
  <2>2. Kept /\ AccountsOf(user.id)' = AccountsOf(user.id)
    BY <1>1, <1>2, <1>4 DEF IdentityInv, SameLogin, AccountsOf
  <2>3. OneAccount' /\ Gone' /\ Cleaned'
    BY <1>1, <1>2, <2>2 DEF Kept, OneAccount, Gone, Cleaned, Cleans, SameLogin
  <2>4. InStep' /\ SignedUp'
    BY <1>1, <1>2, <2>1, <2>2 DEF Kept, InStep, SignedUp, Matching, SameLogin
  <2> QED BY <2>3, <2>4 DEF Kept
<1> QED BY <1>3, <1>4 DEF IdentityInv

(* What is known of the call that takes a step *)
LEMMA CallIs ==
    ASSUME IdentityInv, NEW c \in Caller
    PROVE  /\ Called /\ IsCall(callers[c])
           /\ callers[c].op \in Operation \cup {"none"} /\ callers[c].at \in Place
           /\ callers[c].text \in Text \cup {NoText}
           /\ callers[c].email \in Address \cup {"none"} /\ callers[c].old \in Address \cup {"none"}
           /\ callers[c].seen \in UserDoc \cup {NoUser}
           /\ user \in UserDoc \cup {NoUser}
           /\ apart \subseteq Reasons
BY DEF IdentityInv, IdentityTypes, Called, IsCall, Call

(* A record of a call that differs from one in its place *)
LEMMA MovedCall ==
    ASSUME IdentityInv, NEW c \in Caller, NEW place \in Place, NEW doc \in UserDoc \cup {NoUser}, Moved(c, place, doc)
    PROVE  callers'[c] \in Call /\ Others(c)
BY DEF Moved, Others

LEMMA AfterMigrationKeeps ==
    ASSUME IdentityInv, NEW c \in Caller, callers[c].at \in {"migrate", "findAccount", "link", "insert"},
           AfterMigration(c)
    PROVE  Others(c) /\ IsCall(callers'[c]) /\ callers'[c].at \in {"check", "read"}
<1> DEFINE place == IF callers[c].op = "signInIam" THEN "check" ELSE "read"
<1>1. place \in Place /\ place \in {"check", "read"} /\ Goto(c, place)
  BY DEF AfterMigration, Place
<1>2. callers[c].op \in {"signInIam", "signInLegacy"} /\ callers[c].text # NoText
  BY CallIs DEF IsCall, Entering, HasText
<1>3. Moved(c, place, callers[c].seen) /\ callers'[c] \in Call
  BY <1>1, CallIs, GotoIs, MovedCall
<1>4. place = "read" => callers[c].op = "signInLegacy"
  BY <1>2
<1> HIDE DEF place
<1>5. IsCall(callers'[c])
  BY <1>1, <1>2, <1>3, <1>4, CallIs
     DEF Moved, IsCall, HasSeen, HasText, Entering, Naming, Syncing
<1> QED BY <1>1, <1>3, <1>5 DEF Moved

LEMMA ReadUserKeeps ==
    ASSUME IdentityInv, NEW c \in Caller, ReadUser(c)
    PROVE  IdentityInv'
<1>1. callers[c].at = "migrate" /\ Data /\ UNCHANGED apart
  BY DEF ReadUser, At
<1>2. CASE Found(callers[c].email).password = NoText
  <2>1. AfterMigration(c)
    BY <1>2 DEF ReadUser
  <2> QED BY <1>1, <2>1, CallIs, AfterMigrationKeeps, AsideKeeps
          DEF Data, SameLogin, Naming, Syncing, Cleaning
<1>3. CASE Found(callers[c].email).password # NoText
  <2>1. See(c, "findAccount", user) /\ user \in UserDoc
    BY <1>3, CallIs DEF ReadUser, Found, NoUser
  <2>2. Moved(c, "findAccount", user) /\ callers'[c] \in Call
    BY <2>1, CallIs, SeeIs, MovedCall DEF Place
  <2>3. IsCall(callers'[c])
    BY <1>1, <2>1, <2>2, CallIs DEF Moved, IsCall, HasSeen, HasText, Entering, Naming, Syncing
  <2> QED BY <1>1, <2>2, <2>3, CallIs, AsideKeeps
          DEF Data, Moved, SameLogin, Naming, Syncing, Cleaning
<1> QED BY <1>2, <1>3

LEMMA FindAccountKeeps ==
    ASSUME IdentityInv, NEW c \in Caller, FindAccount(c)
    PROVE  IdentityInv'
<1>1. callers[c].at = "findAccount" /\ Data /\ UNCHANGED apart
  BY DEF FindAccount, At
<1>2. CASE AfterMigration(c)
  BY <1>1, <1>2, CallIs, AfterMigrationKeeps, AsideKeeps
     DEF Data, SameLogin, Naming, Syncing, Cleaning
<1>3. CASE Goto(c, "link") /\ Compares(callers[c].text, callers[c].seen.password)
  <2>1. Moved(c, "link", callers[c].seen) /\ callers'[c] \in Call
    BY <1>3, CallIs, GotoIs, MovedCall DEF Place
  <2>2. IsCall(callers'[c])
    BY <1>1, <1>3, <2>1, CallIs DEF Moved, IsCall, HasSeen, HasText, Entering, Naming, Syncing, Place
  <2> QED BY <1>1, <2>1, <2>2, CallIs, AsideKeeps
          DEF Data, Moved, SameLogin, Naming, Syncing, Cleaning
<1> QED BY <1>2, <1>3 DEF FindAccount

LEMMA LinkIdKeeps ==
    ASSUME IdentityInv, NEW c \in Caller, LinkId(c)
    PROVE  IdentityInv'
<1>1. /\ callers[c].at = "link" /\ Goto(c, "insert")
      /\ user' = IF user.id = callers[c].seen.id THEN [user EXCEPT !.iamId = TRUE] ELSE user
      /\ UNCHANGED <<accounts, sessions, apart>>
  BY DEF LinkId, At
<1>2. callers[c].seen \in UserDoc /\ callers[c].seen.id # 0
  BY <1>1, CallIs DEF IsCall, HasSeen, Place, UserDoc
<1>3. user' \in UserDoc \cup {NoUser} /\ SameLogin
  <2>1. CASE user \in UserDoc
    BY <1>1, <2>1 DEF SameLogin, UserDoc
  <2>2. CASE user = NoUser
    BY <1>1, <1>2, <2>2 DEF SameLogin, NoUser
  <2> QED BY <2>1, <2>2, CallIs
<1>4. Moved(c, "insert", callers[c].seen) /\ callers'[c] \in Call
  BY <1>1, CallIs, GotoIs, MovedCall DEF Place
<1>5. IsCall(callers'[c])
  BY <1>1, <1>2, <1>4, CallIs DEF Moved, IsCall, HasSeen, HasText, Entering, Naming, Syncing
<1> QED BY <1>1, <1>3, <1>4, <1>5, CallIs, AsideKeeps DEF Moved, Naming, Syncing, Cleaning

LEMMA CheckKeeps ==
    ASSUME IdentityInv, NEW c \in Caller, Check(c)
    PROVE  IdentityInv'
<1> DEFINE doc == Found(callers[c].email)
<1>1. callers[c].at = "check" /\ Data /\ UNCHANGED apart
  BY DEF Check, At
<1>2. CASE Return(c)
  BY <1>1, <1>2, CallIs, ReturnIs, AsideKeeps DEF Data, Returned, Idle, SameLogin, Naming, Syncing, Cleaning
<1>3. CASE See(c, "session", doc) /\ doc # NoUser
  <2>1. doc \in UserDoc
    BY <1>3, CallIs DEF Found
  <2>2. Moved(c, "session", doc) /\ callers'[c] \in Call
    BY <1>3, <2>1, CallIs, SeeIs, MovedCall DEF Place
  <2> HIDE DEF doc
  <2>3. IsCall(callers'[c])
    BY <1>1, <2>1, <2>2, CallIs DEF Moved, IsCall, HasSeen, HasText, Entering, Naming, Syncing
  <2> QED BY <1>1, <2>2, <2>3, CallIs, AsideKeeps
          DEF Data, Moved, SameLogin, Naming, Syncing, Cleaning
<1> QED BY <1>2, <1>3 DEF Check

LEMMA LinkOrCreateIs ==
    ASSUME IdentityInv, NEW c \in Caller, callers[c].seen \in UserDoc, linkOrCreateUser(c)
    PROVE  /\ user' \in UserDoc /\ apart \subseteq apart' /\ apart' \subseteq Reasons
           /\ apart' = {} => user'.id = user.id /\ user'.password = user.password
<1> DEFINE seen == callers[c].seen
<1>1. seen.id \in 1..MaxUser /\ seen.email \in Address
  BY DEF UserDoc
<1>2. apart \subseteq apart' /\ apart' \subseteq Reasons
  BY CallIs DEF linkOrCreateUser, Because, Reasons
<1>3. CASE user.email = seen.email \/ (user.id = seen.id /\ seen.iamId)
  <2>1. user \in UserDoc
    BY <1>1, <1>3, CallIs, IdentityAssumption DEF NoUser
  <2>2. user' = [user EXCEPT !.iamId = TRUE, !.email = seen.email]
    BY <1>3 DEF linkOrCreateUser
  <2> QED BY <1>1, <1>2, <2>1, <2>2 DEF UserDoc
<1>4. CASE ~ (user.email = seen.email \/ (user.id = seen.id /\ seen.iamId))
  <2>1. /\ seen.id < MaxUser /\ "signIn" \in apart'
        /\ user' = [NoUser EXCEPT !.id = seen.id + 1, !.email = seen.email, !.iamId = TRUE]
    BY <1>4 DEF linkOrCreateUser, Because
  <2>2. seen.id + 1 \in 1..MaxUser
    BY <1>1, <2>1, IdentityAssumption
  <2>3. user' \in UserDoc
    BY <1>1, <2>1, <2>2 DEF NoUser, UserDoc
  <2> QED BY <1>2, <2>1, <2>3
<1> QED BY <1>3, <1>4

LEMMA UpsertKeeps ==
    ASSUME IdentityInv, NEW c \in Caller, Upsert(c)
    PROVE  IdentityInv'
<1>1. callers[c].at = "upsert" /\ linkOrCreateUser(c) /\ Return(c) /\ UNCHANGED <<accounts, sessions>>
  BY DEF Upsert, At
<1>2. callers[c].seen \in UserDoc
  BY <1>1, CallIs DEF IsCall, HasSeen, Place
<1>3. /\ user' \in UserDoc /\ apart \subseteq apart' /\ apart' \subseteq Reasons
      /\ apart' = {} => user'.id = user.id /\ user'.password = user.password
  BY <1>1, <1>2, LinkOrCreateIs
<1>4. Others(c) /\ callers'[c] = Idle /\ IsCall(callers'[c])
  BY <1>1, CallIs, ReturnIs DEF Returned
<1>5. Called'
  BY <1>4, CallIs, CalledKept
<1>6. IdentityTypes'
  BY <1>1, <1>3, <1>5 DEF IdentityInv, IdentityTypes
<1>7. ASSUME apart' = {} PROVE Kept'
  BY <1>1, <1>3, <1>4, <1>7, StaysOut DEF IdentityInv, SameLogin, Writing, Idle, Naming, Syncing, Cleaning
<1> QED BY <1>6, <1>7 DEF IdentityInv

LEMMA RefusedKeeps ==
    ASSUME IdentityInv, NEW c \in Caller, Refused(c)
    PROVE  IdentityInv'
<1>1. callers[c].at = "signUp" /\ Return(c) /\ Data /\ UNCHANGED apart
  BY DEF Refused, At
<1> QED BY <1>1, CallIs, ReturnIs, AsideKeeps DEF Data, Returned, Idle, SameLogin, Naming, Syncing, Cleaning

LEMMA ReadDocumentKeeps ==
    ASSUME IdentityInv, NEW c \in Caller, ReadDocument(c)
    PROVE  IdentityInv'
<1>1. callers[c].at = "read" /\ Data /\ UNCHANGED apart
  BY DEF ReadDocument, At
<1>2. CASE Return(c)
  BY <1>1, <1>2, CallIs, ReturnIs, AsideKeeps DEF Data, Returned, Idle, SameLogin, Naming, Syncing, Cleaning
<1>3. CASE See(c, "save", user) /\ user.id = callers[c].seen.id
  <2>1. callers[c].seen.id # 0
    BY <1>1, CallIs DEF IsCall, HasSeen, Place, UserDoc
  <2>2. user \in UserDoc
    BY <1>3, <2>1, CallIs DEF NoUser
  <2>3. Moved(c, "save", user) /\ callers'[c] \in Call
    BY <1>3, <2>2, CallIs, SeeIs, MovedCall DEF Place
  <2>4. IsCall(callers'[c])
    BY <1>1, <2>2, <2>3, CallIs DEF Moved, IsCall, HasSeen, HasText, Entering, Naming, Syncing
  <2> QED BY <1>1, <2>3, <2>4, CallIs, AsideKeeps
          DEF Data, Moved, SameLogin, Naming, Syncing, Cleaning
<1> QED BY <1>2, <1>3 DEF ReadDocument

LEMMA ThrowKeeps ==
    ASSUME IdentityInv, NEW c \in Caller, Throw(c)
    PROVE  IdentityInv'
<1>1. /\ Return(c) /\ Data /\ apart \subseteq apart' /\ apart' \subseteq Reasons
      /\ apart' = {} => callers[c].at \notin Naming \cup Syncing \cup Cleaning
  BY CallIs DEF Throw, Because, Reasons, Naming, Syncing, Cleaning
<1> QED BY <1>1, CallIs, ReturnIs, AsideKeeps DEF Data, Returned, Idle, SameLogin, Naming, Cleaning

-----------------------------------------------------------------------------
(* The requests that write a password to the user                           *)
LEMMA SetsPassword ==
    ASSUME Kept, NEW c \in Caller, Others(c), user'.id = user.id, user'.password # NoText,
           accounts' = accounts, sessions' = sessions,
           callers[c].at \notin Cleaning, callers'[c].at \notin Naming \cup Cleaning,
           \/ Delegated \/ AccountsOf(user.id) = {} \/ Writing(c)'
           \/ \A a \in AccountsOf(user.id) : accounts[a].password = sha256(user'.password)
    PROVE  Kept'
<1>1. AccountsOf(user.id)' = AccountsOf(user.id)
  BY DEF AccountsOf
<1>2. SignedUp'
  BY DEF SignedUp, Signing
<1>3. InStep'
  BY <1>1 DEF InStep, Matching
<1>4. OneAccount' /\ Gone' /\ Cleaned'
  BY CleansAsBefore
<1> QED BY <1>2, <1>3, <1>4 DEF Kept

(* What a call does next that wrote its text, or had it written             *)
LEMMA SyncPasswordIs ==
    ASSUME IdentityInv, NEW c \in Caller, SyncPassword(c),
           callers[c].at \in HasSeen, callers[c].op \in {"update", "reset"}
    PROVE  /\ Others(c) /\ IsCall(callers'[c]) /\ callers'[c].at \in {"idle", "syncUser"}
           /\ PlainText(c) => Moved(c, "syncUser", callers[c].seen)
<1>1. CASE ~ PlainText(c)
  <2>1. Returned(c) /\ IsCall(Idle)
    BY <1>1, CallIs, ReturnIs DEF SyncPassword
  <2> QED BY <1>1, <2>1 DEF Returned, Idle
<1>2. CASE PlainText(c)
  <2>1. Moved(c, "syncUser", callers[c].seen) /\ callers'[c] \in Call
    BY <1>2, CallIs, GotoIs, MovedCall DEF SyncPassword, Place
  <2>2. IsCall(callers'[c])
    BY <1>2, <2>1, CallIs DEF PlainText, Moved, IsCall, HasSeen, HasText, Entering, Naming, Syncing
  <2> QED BY <2>1, <2>2 DEF Moved
<1> QED BY <1>1, <1>2

LEMMA SaveResetKeeps ==
    ASSUME IdentityInv, NEW c \in Caller, SaveReset(c)
    PROVE  IdentityInv'
<1> DEFINE text == callers[c].text
<1>1. callers[c].at = "saveReset" /\ UNCHANGED <<accounts, sessions>>
  BY DEF SaveReset, At
<1>2. callers[c].op = "reset" /\ text # NoText /\ callers[c].seen \in UserDoc /\ callers[c].at \in HasSeen
  BY <1>1, CallIs DEF IsCall, HasSeen, HasText, Place
<1>3. CASE user.id # callers[c].seen.id
  <2>1. Return(c) /\ UNCHANGED <<user, apart>>
    BY <1>3 DEF SaveReset
  <2> QED BY <1>1, <2>1, CallIs, ReturnIs, AsideKeeps DEF Returned, Idle, SameLogin, Naming, Syncing, Cleaning
<1>4. CASE user.id = callers[c].seen.id
  <2>1. /\ user' = [user EXCEPT !.password = Bcrypted(text), !.resetToken = FALSE]
        /\ SyncPassword(c) /\ Because("hashed", SentHashed(c))
    BY <1>4 DEF SaveReset
  <2>2. user \in UserDoc
    BY <1>2, <1>4, CallIs DEF UserDoc, NoUser
  <2>3. Bcrypted(text) \in Text /\ Bcrypted(text) # NoText
    BY <1>2, CallIs, Texts
  <2>4. user' \in UserDoc /\ user'.id = user.id /\ user'.password = Bcrypted(text)
    BY <2>1, <2>2, <2>3 DEF UserDoc
  <2>5. /\ apart \subseteq apart' /\ apart' \subseteq Reasons
        /\ apart' = {} => PlainText(c) \/ AccountsOf(user.id) = {}
    BY <1>2, <2>1, CallIs DEF Because, Reasons, SentHashed
  <2>6. /\ Others(c) /\ IsCall(callers'[c]) /\ callers'[c].at \in {"idle", "syncUser"}
        /\ PlainText(c) => Moved(c, "syncUser", callers[c].seen)
    BY <1>2, <2>1, SyncPasswordIs
  <2>7. PlainText(c) => Writing(c)'
    BY <1>4, <2>4, <2>6 DEF Writing, Moved, Syncing, PlainText, Bcrypted, sha256
  <2>8. IdentityTypes'
    BY <1>1, <2>4, <2>5, <2>6, CallIs, CalledKept DEF IdentityInv, IdentityTypes
  <2>9. ASSUME apart' = {} PROVE Kept'
    BY <1>1, <2>3, <2>4, <2>5, <2>6, <2>7, <2>9, SetsPassword DEF IdentityInv, Naming, Cleaning
  <2> QED BY <2>8, <2>9 DEF IdentityInv
<1> QED BY <1>3, <1>4

LEMMA WithInputIs ==
    ASSUME IdentityInv, NEW c \in Caller, callers[c].seen \in UserDoc, callers[c].op \in {"update", "signInLegacy"}
    PROVE  /\ WithInput(c) \in UserDoc /\ WithInput(c).id = callers[c].seen.id
           /\ WithInput(c).password = IF callers[c].op = "signInLegacy" \/ callers[c].text = NoText
                                      THEN callers[c].seen.password ELSE Bcrypted(callers[c].text)
<1> DEFINE text == callers[c].text
           seen == callers[c].seen
           mail == IF callers[c].email = "none" THEN seen.email ELSE callers[c].email
           pass == IF text = NoText THEN seen.password ELSE Bcrypted(text)
<1>1. mail \in Address /\ pass \in Text \cup {NoText}
  <2>1. text # NoText => Bcrypted(text) \in Text
    BY CallIs, Texts
  <2> QED BY <2>1, CallIs DEF UserDoc
<1>2. callers[c].op # "signInLegacy" => WithInput(c) = [seen EXCEPT !.email = mail, !.password = pass]
  BY DEF WithInput
<1> HIDE DEF mail, pass
<1>3. callers[c].op # "signInLegacy" =>
        WithInput(c) \in UserDoc /\ WithInput(c).id = seen.id /\ WithInput(c).password = pass
  BY <1>1, <1>2 DEF UserDoc
<1>4. callers[c].op = "signInLegacy" => WithInput(c) = seen
  BY DEF WithInput
<1> QED BY <1>3, <1>4 DEF pass

LEMMA SaveKeeps ==
    ASSUME IdentityInv, NEW c \in Caller, Save(c)
    PROVE  IdentityInv'
<1> DEFINE text == callers[c].text
           seen == callers[c].seen
<1>1. callers[c].at = "save" /\ UNCHANGED <<accounts, sessions>>
  BY DEF Save, At
<1>2. callers[c].op \in {"update", "signInLegacy"} /\ seen \in UserDoc /\ callers[c].at \in HasSeen
  BY <1>1, CallIs DEF IsCall, HasSeen, Place
<1>3. CASE user.id # seen.id
  <2>1. Return(c) /\ UNCHANGED <<user, apart>>
    BY <1>3 DEF Save
  <2> QED BY <1>1, <2>1, CallIs, ReturnIs, AsideKeeps DEF Returned, Idle, SameLogin, Naming, Syncing, Cleaning
<1>4. CASE user.id = seen.id
  <2>1. user' \in UserDoc /\ user'.id = user.id
    BY <1>2, <1>4, WithInputIs DEF Save
  <2>2. /\ apart \subseteq apart' /\ apart' \subseteq Reasons
        /\ apart' = {} => ~ SentHashed(c) /\ user.password = seen.password
    BY <1>4, CallIs DEF Save, Reasons
  <2>3. CASE callers[c].op = "signInLegacy" \/ text = NoText
    <3>1. user'.password = seen.password
      BY <1>2, <1>4, <2>3, WithInputIs DEF Save
    <3>2. Others(c) /\ IsCall(callers'[c]) /\ callers'[c].at \in {"idle", "endSessions"}
      <4>1. CASE Return(c)
        BY <4>1, CallIs, ReturnIs DEF Returned, Idle
      <4>2. CASE Goto(c, "endSessions") /\ callers[c].op = "update"
        <5>1. Moved(c, "endSessions", seen) /\ callers'[c] \in Call
          BY <4>2, CallIs, GotoIs, MovedCall DEF Place
        <5>2. IsCall(callers'[c])
          BY <1>2, <4>2, <5>1, CallIs DEF Moved, IsCall, HasSeen, HasText, Entering, Naming, Syncing
        <5> QED BY <5>1, <5>2 DEF Moved
      <4> QED BY <1>2, <1>4, <2>3, <4>1, <4>2 DEF Save, SyncPassword, PlainText
    <3>3. IdentityTypes'
      BY <1>1, <2>1, <2>2, <3>2, CallIs, CalledKept DEF IdentityInv, IdentityTypes
    <3>4. ASSUME apart' = {} PROVE Kept'
      BY <1>1, <2>1, <2>2, <3>1, <3>2, <3>4, StaysOut
         DEF IdentityInv, SameLogin, Writing, Naming, Syncing, Cleaning
    <3> QED BY <3>3, <3>4 DEF IdentityInv
  <2>4. CASE callers[c].op = "update" /\ text # NoText
    <3>1. Bcrypted(text) # NoText /\ user'.password = Bcrypted(text)
      BY <1>2, <1>4, <2>4, CallIs, Texts, WithInputIs DEF Save
    <3>2. /\ Others(c) /\ IsCall(callers'[c]) /\ callers'[c].at \in {"idle", "endSessions", "syncUser"}
          /\ PlainText(c) => \E place \in Syncing : Moved(c, place, seen)
      <4>1. CASE SyncPassword(c)
        BY <1>2, <2>4, <4>1, SyncPasswordIs DEF Syncing
      <4>2. CASE Goto(c, "endSessions")
        <5>1. Moved(c, "endSessions", seen) /\ callers'[c] \in Call
          BY <4>2, CallIs, GotoIs, MovedCall DEF Place
        <5>2. IsCall(callers'[c])
          BY <1>2, <2>4, <4>2, <5>1, CallIs DEF Moved, IsCall, HasSeen, HasText, Entering, Naming, Syncing
        <5> QED BY <5>1, <5>2 DEF Moved, Syncing
      <4> QED BY <1>4, <2>4, <4>1, <4>2 DEF Save
    <3>3. PlainText(c) => Writing(c)'
      BY <1>4, <2>1, <3>1, <3>2 DEF Writing, Moved, PlainText, Bcrypted, sha256
    <3>4. apart' = {} => PlainText(c) \/ AccountsOf(user.id) = {}
      BY <2>2, <2>4 DEF SentHashed
    <3>5. IdentityTypes'
      BY <1>1, <2>1, <2>2, <3>2, CallIs, CalledKept DEF IdentityInv, IdentityTypes
    <3>6. ASSUME apart' = {} PROVE Kept'
      BY <1>1, <2>1, <2>2, <3>1, <3>2, <3>3, <3>4, <3>6, SetsPassword DEF IdentityInv, Naming, Cleaning
    <3> QED BY <3>5, <3>6 DEF IdentityInv
  <2> QED BY <1>2, <2>3, <2>4
<1> QED BY <1>3, <1>4

LEMMA SyncToLegacyKeeps ==
    ASSUME IdentityInv, NEW c \in Caller, SyncToLegacy(c)
    PROVE  IdentityInv'
<1> DEFINE text == callers[c].text
           mine == user.email = callers[c].email \/ user.id = callers[c].seen.id
<1>1. /\ callers[c].at = "toLegacy" /\ Return(c) /\ UNCHANGED <<accounts, sessions>>
      /\ user' = IF mine THEN [user EXCEPT !.password = normalizePasswordForIam(text)] ELSE user
      /\ Because("writers", user.password # NoText \/ user.id # callers[c].seen.id)
  BY DEF SyncToLegacy, At
<1>2. callers[c].seen.id # 0 /\ text # NoText /\ callers[c].email \in Address
  BY <1>1, CallIs DEF IsCall, HasSeen, HasText, Naming, Place, UserDoc
<1>3. sha256(text) \in Text /\ sha256(text) # NoText /\ sha256(sha256(text)) = sha256(text)
  BY <1>2, CallIs, Texts
<1>4. user' \in UserDoc \cup {NoUser} /\ user'.id = user.id /\ (mine => user'.password = sha256(text))
  <2>1. CASE mine
    <3>1. user \in UserDoc
      BY <1>2, <2>1, CallIs, IdentityAssumption DEF NoUser
    <3>2. user' = [user EXCEPT !.password = sha256(text)]
      BY <1>1, <2>1 DEF normalizePasswordForIam
    <3> QED BY <1>3, <3>1, <3>2 DEF UserDoc
  <2>2. CASE ~ mine
    BY <1>1, <2>2, CallIs
  <2> QED BY <2>1, <2>2
<1>5. /\ apart \subseteq apart' /\ apart' \subseteq Reasons
      /\ apart' = {} => user.password = NoText /\ user.id = callers[c].seen.id
  BY <1>1, CallIs DEF Because, Reasons
<1>6. Others(c) /\ callers'[c] = Idle /\ IsCall(callers'[c])
  BY <1>1, CallIs, ReturnIs DEF Returned
<1>7. IdentityTypes'
  BY <1>1, <1>4, <1>5, <1>6, CallIs, CalledKept DEF IdentityInv, IdentityTypes
<1>8. ASSUME apart' = {} PROVE Kept'
  <2>1. Signing(c) /\ Kept
    BY <1>1, <1>5, <1>8 DEF IdentityInv, Signing, Naming
  <2>2. Delegated \/ \A a \in AccountsOf(user.id) : accounts[a].password = sha256(text)
    BY <2>1 DEF Kept, SignedUp, Matching
  <2> QED BY <1>1, <1>3, <1>4, <1>5, <1>6, <1>8, <2>1, <2>2, SetsPassword DEF Idle, Naming, Cleaning
<1> QED BY <1>7, <1>8 DEF IdentityInv

-----------------------------------------------------------------------------
(* The requests that bring IAM in line                                      *)
LEMMA EndSessionsKeeps ==
    ASSUME IdentityInv, NEW c \in Caller, EndSessions(c)
    PROVE  IdentityInv'
<1>1. callers[c].at = "endSessions" /\ SyncPassword(c) /\ sessions' \subseteq sessions /\ UNCHANGED <<user, accounts, apart>>
  BY DEF EndSessions, At
<1>2. callers[c].op \in {"update", "reset"} /\ callers[c].at \in HasSeen
  BY <1>1, CallIs DEF IsCall, HasSeen, Place, Syncing
<1>3. /\ Others(c) /\ IsCall(callers'[c]) /\ callers'[c].at \in {"idle", "syncUser"}
      /\ PlainText(c) => Moved(c, "syncUser", callers[c].seen)
  BY <1>1, <1>2, SyncPasswordIs
<1>4. Writing(c) => Writing(c)'
  BY <1>1, <1>3 DEF Writing, Moved, Syncing, PlainText, Bcrypted, sha256
<1>5. IdentityTypes'
  BY <1>1, <1>3, CallIs, CalledKept DEF IdentityInv, IdentityTypes
<1>6. ASSUME apart' = {} PROVE Kept'
  BY <1>1, <1>3, <1>4, <1>6, StaysOut DEF IdentityInv, SameLogin, Naming, Cleaning
<1> QED BY <1>5, <1>6 DEF IdentityInv

LEMMA SyncUserKeeps ==
    ASSUME IdentityInv, NEW c \in Caller, SyncUser(c)
    PROVE  IdentityInv'
<1>1. callers[c].at = "syncUser" /\ Data
  BY DEF SyncUser, At
<1>2. /\ callers[c].old \in Address /\ callers[c].seen.id # 0 /\ callers[c].text # NoText
      /\ callers[c].op \in {"update", "reset"}
  BY <1>1, CallIs DEF IsCall, HasSeen, HasText, Place, Syncing, UserDoc
<1>3. CASE user.email = callers[c].old
  <2>1. See(c, "syncAccount", user) /\ UNCHANGED apart
    BY <1>3 DEF SyncUser
  <2>2. user \in UserDoc
    BY <1>2, <1>3, CallIs, IdentityAssumption DEF NoUser
  <2>3. Moved(c, "syncAccount", user) /\ callers'[c] \in Call
    BY <2>1, <2>2, CallIs, SeeIs, MovedCall DEF Place
  <2>4. IsCall(callers'[c])
    BY <1>1, <1>2, <2>2, <2>3, CallIs DEF Moved, IsCall, HasSeen, HasText, Entering, Naming, Syncing
  <2>5. Writing(c) => Writing(c)'
    BY <1>1, <2>3 DEF Data, Writing, Moved, Syncing, PlainText, Bcrypted, sha256
  <2>6. IdentityTypes'
    BY <1>1, <2>1, <2>3, <2>4, CallIs, CalledKept DEF IdentityInv, IdentityTypes, Data, Moved
  <2>7. ASSUME apart' = {} PROVE Kept'
    BY <1>1, <2>1, <2>3, <2>5, <2>7, StaysOut DEF IdentityInv, Data, SameLogin, Moved, Naming, Cleaning
  <2> QED BY <2>6, <2>7 DEF IdentityInv
<1>4. CASE user.email # callers[c].old
  <2>1. /\ Return(c) /\ apart \subseteq apart' /\ apart' \subseteq Reasons
        /\ apart' = {} => user = NoUser \/ AccountsOf(user.id) = {}
    BY <1>4, CallIs DEF SyncUser, Because, Reasons
  <2>2. Returned(c) /\ IsCall(Idle)
    BY <2>1, CallIs, ReturnIs
  <2>3. ASSUME apart' = {}, Writing(c) PROVE AccountsOf(user.id) = {}
    BY <1>2, <2>1, <2>3 DEF Writing, NoUser
  <2>4. IdentityTypes'
    BY <1>1, <2>1, <2>2, CallIs, CalledKept DEF IdentityInv, IdentityTypes, Data, Returned
  <2>5. ASSUME apart' = {} PROVE Kept'
    BY <1>1, <2>1, <2>2, <2>3, <2>5, StaysOut DEF IdentityInv, Data, SameLogin, Returned, Idle, Naming, Cleaning
  <2> QED BY <2>4, <2>5 DEF IdentityInv
<1> QED BY <1>3, <1>4

LEMMA SyncAccountKeeps ==
    ASSUME IdentityInv, NEW c \in Caller, SyncAccount(c)
    PROVE  IdentityInv'
<1>1. callers[c].at = "syncAccount" /\ Data /\ UNCHANGED apart
  BY DEF SyncAccount, At
<1>2. CASE AccountsOf(callers[c].seen.id) = {}
  <2>1. Returned(c) /\ IsCall(Idle)
    BY <1>2, CallIs, ReturnIs DEF SyncAccount
  <2>2. Writing(c) => AccountsOf(user.id) = {}
    BY <1>2 DEF Writing
  <2>3. IdentityTypes'
    BY <1>1, <2>1, CallIs, CalledKept DEF IdentityInv, IdentityTypes, Data, Returned
  <2>4. ASSUME apart' = {} PROVE Kept'
    BY <1>1, <2>1, <2>2, <2>4, StaysOut DEF IdentityInv, Data, SameLogin, Returned, Idle, Naming, Cleaning
  <2> QED BY <2>3, <2>4 DEF IdentityInv
<1>3. CASE AccountsOf(callers[c].seen.id) # {}
  <2>1. Moved(c, "syncWrite", callers[c].seen) /\ callers'[c] \in Call
    BY <1>3, CallIs, GotoIs, MovedCall DEF SyncAccount, Place
  <2>2. IsCall(callers'[c])
    BY <1>1, <2>1, CallIs DEF Moved, IsCall, HasSeen, HasText, Entering, Naming, Syncing, Place
  <2>3. Writing(c) => Writing(c)'
    BY <1>1, <2>1 DEF Data, Writing, Moved, Syncing, PlainText, Bcrypted, sha256
  <2>4. IdentityTypes'
    BY <1>1, <2>1, <2>2, CallIs, CalledKept DEF IdentityInv, IdentityTypes, Data, Moved
  <2>5. ASSUME apart' = {} PROVE Kept'
    BY <1>1, <2>1, <2>3, <2>5, StaysOut DEF IdentityInv, Data, SameLogin, Moved, Naming, Cleaning
  <2> QED BY <2>4, <2>5 DEF IdentityInv
<1> QED BY <1>2, <1>3

LEMMA SyncWriteKeeps ==
    ASSUME IdentityInv, NEW c \in Caller, SyncWrite(c)
    PROVE  IdentityInv'
<1> DEFINE seen == callers[c].seen
           text == callers[c].text
           mine == AccountsOf(seen.id)
<1>1. /\ callers[c].at = "syncWrite" /\ Return(c) /\ UNCHANGED <<user, sessions>>
      /\ Because("writers", user.id = seen.id /\ user.password # Bcrypted(text))
  BY DEF SyncWrite, At
<1>2. seen.id # 0 /\ text # NoText
  BY <1>1, CallIs DEF IsCall, HasSeen, HasText, Place, Syncing, UserDoc
<1>3. /\ sha256(text) \in Text /\ Bcrypted(text) # NoText /\ sha256(Bcrypted(text)) = sha256(text)
  BY <1>2, CallIs, Texts
<1>4. /\ apart \subseteq apart' /\ apart' \subseteq Reasons
      /\ apart' = {} /\ user.id = seen.id => user.password = Bcrypted(text)
  BY <1>1, CallIs DEF Because, Reasons
<1>5. Others(c) /\ callers'[c] = Idle /\ IsCall(callers'[c])
  BY <1>1, CallIs, ReturnIs DEF Returned
<1>6. CASE mine = {}
  <2>1. accounts' = accounts
    BY <1>6 DEF SyncWrite
  <2>2. Writing(c) => AccountsOf(user.id) = {}
    BY <1>6 DEF Writing
  <2>3. IdentityTypes'
    BY <1>1, <1>4, <1>5, <2>1, CallIs, CalledKept DEF IdentityInv, IdentityTypes
  <2>4. ASSUME apart' = {} PROVE Kept'
    BY <1>1, <1>4, <1>5, <2>1, <2>2, <2>4, StaysOut DEF IdentityInv, SameLogin, Idle, Naming, Cleaning
  <2> QED BY <2>3, <2>4 DEF IdentityInv
<1>7. CASE mine # {}
  <2>1. PICK a \in mine : accounts' = [accounts EXCEPT ![a].password = sha256(text)]
    BY <1>7 DEF SyncWrite, normalizePasswordForIam
  <2>2. a \in AccountId /\ accounts[a].owner = seen.id
    BY <2>1 DEF AccountsOf
  <2>3. /\ accounts[a] \in [owner : 1..MaxUser, password : Text]
        /\ accounts \in [AccountId -> [owner : 1..MaxUser, password : Text] \cup {NoAccount}]
    BY <1>2, <2>2 DEF IdentityInv, IdentityTypes, NoAccount
  <2>4. /\ accounts' \in [AccountId -> [owner : 1..MaxUser, password : Text] \cup {NoAccount}]
        /\ \A b \in AccountId : accounts'[b].owner = accounts[b].owner /\ (b # a => accounts'[b] = accounts[b])
        /\ accounts'[a].password = sha256(text)
    BY <1>3, <2>1, <2>2, <2>3
  <2>5. AccountsOf(user.id)' = AccountsOf(user.id)
    BY <1>1, <2>4 DEF AccountsOf
  <2>6. IdentityTypes'
    BY <1>1, <1>4, <1>5, <2>4, CallIs, CalledKept DEF IdentityInv, IdentityTypes
  <2>7. ASSUME apart' = {} PROVE Kept'
    <3>1. Kept
      BY <1>4, <2>7 DEF IdentityInv
    <3>2. OneAccount' /\ Gone' /\ Cleaned'
      BY <1>1, <1>5, <2>4, <3>1, CleansAsBefore DEF Idle, Cleaning
    <3>3. ASSUME user.id = seen.id PROVE InStep' /\ SignedUp'
      <4>1. AccountsOf(user.id) = {a} /\ user.password = Bcrypted(text)
        BY <1>2, <1>4, <2>2, <2>7, <3>1, <3>3 DEF AccountsOf, Kept, OneAccount
      <4>2. (user.password # NoText /\ Matching(user.password))'
        BY <1>1, <1>3, <2>4, <2>5, <4>1 DEF Matching
      <4> QED BY <1>1, <4>2 DEF InStep, SignedUp, Signing
    <3>4. ASSUME user.id # seen.id PROVE InStep' /\ SignedUp'
      <4>1. \A b \in AccountsOf(user.id) : accounts'[b] = accounts[b]
        BY <2>2, <2>4, <3>4 DEF AccountsOf
      <4>2. ~ Writing(c) /\ ~ Signing(c) /\ ~ Signing(c)'
        BY <1>1, <1>5, <3>4 DEF Writing, Signing, Idle, Naming
      <4> QED BY <1>1, <1>5, <2>5, <3>1, <4>1, <4>2, InStepAsBefore
    <3> QED BY <3>2, <3>3, <3>4 DEF Kept
  <2> QED BY <2>6, <2>7 DEF IdentityInv
<1> QED BY <1>6, <1>7

-----------------------------------------------------------------------------
(* The requests that add and remove users, accounts and sessions            *)
LEMMA CreateSessionKeeps ==
    ASSUME IdentityInv, NEW c \in Caller, CreateSession(c)
    PROVE  IdentityInv'
<1> DEFINE place == IF callers[c].op = "signInIam" THEN "upsert" ELSE "read"
<1>1. /\ callers[c].at = "session" /\ Goto(c, place) /\ UNCHANGED <<user, accounts>>
      /\ sessions' = sessions \cup {callers[c].seen.id}
  BY DEF CreateSession, At
<1>2. /\ callers[c].seen \in UserDoc /\ callers[c].seen.id \in 1..MaxUser
      /\ callers[c].op \in {"signInIam", "signInLegacy"} /\ callers[c].text # NoText
  BY <1>1, CallIs DEF IsCall, HasSeen, HasText, Entering, Place, UserDoc
<1>3. apart \subseteq apart' /\ apart' \subseteq Reasons /\ (apart' = {} => user.id = callers[c].seen.id)
  BY CallIs DEF CreateSession, Because, Reasons
<1>4. place \in Place /\ place \in {"upsert", "read"} /\ (place = "read" => callers[c].op = "signInLegacy")
  BY <1>2 DEF Place
<1> HIDE DEF place
<1>5. Moved(c, place, callers[c].seen) /\ callers'[c] \in Call
  BY <1>1, <1>4, CallIs, GotoIs, MovedCall
<1>6. IsCall(callers'[c])
  BY <1>2, <1>4, <1>5, CallIs DEF Moved, IsCall, HasSeen, HasText, Entering, Naming, Syncing
<1>7. IdentityTypes'
  BY <1>1, <1>2, <1>3, <1>5, <1>6, CallIs, CalledKept DEF IdentityInv, IdentityTypes, Moved
<1>8. ASSUME apart' = {} PROVE Kept'
  BY <1>1, <1>3, <1>4, <1>5, <1>8, StaysOut
     DEF IdentityInv, SameLogin, Moved, Writing, Naming, Syncing, Cleaning
<1> QED BY <1>7, <1>8 DEF IdentityInv

LEMMA InsertAccountKeeps ==
    ASSUME IdentityInv, NEW c \in Caller, InsertAccount(c)
    PROVE  IdentityInv'
<1> DEFINE seen == callers[c].seen
           text == callers[c].text
<1>1. callers[c].at = "insert" /\ AfterMigration(c) /\ UNCHANGED <<user, sessions>>
  BY DEF InsertAccount, At
<1>2. /\ seen \in UserDoc /\ seen.id \in 1..MaxUser /\ seen.password \in Text \cup {NoText}
      /\ text # NoText /\ Compares(text, seen.password)
  BY <1>1, CallIs DEF IsCall, HasSeen, HasText, Entering, Place, UserDoc
<1>3. sha256(text) \in Text /\ seen.password # NoText /\ sha256(seen.password) = sha256(text)
  BY <1>2, CallIs, Texts, ComparesIs
<1>4. PICK a \in AccountsOf(0) : accounts' = [accounts EXCEPT ![a] = [owner |-> seen.id, password |-> sha256(text)]]
  BY DEF InsertAccount, normalizePasswordForIam
<1>5. /\ apart \subseteq apart' /\ apart' \subseteq Reasons
      /\ apart' = {} => AccountsOf(seen.id) = {} /\ user.id = seen.id /\ user.password = seen.password
  BY CallIs DEF InsertAccount, Because, Reasons
<1>6. Others(c) /\ IsCall(callers'[c]) /\ callers'[c].at \in {"check", "read"}
  BY <1>1, AfterMigrationKeeps
<1>7. /\ accounts' \in [AccountId -> [owner : 1..MaxUser, password : Text] \cup {NoAccount}]
      /\ a \in AccountId /\ accounts'[a].owner = seen.id /\ accounts'[a].password = sha256(text)
      /\ \A b \in AccountId : b # a => accounts'[b] = accounts[b]
  BY <1>2, <1>3, <1>4 DEF IdentityInv, IdentityTypes, AccountsOf
<1>8. IdentityTypes'
  BY <1>1, <1>5, <1>6, <1>7, CallIs, CalledKept DEF IdentityInv, IdentityTypes
<1>9. ASSUME apart' = {} PROVE Kept'
  <2>1. Kept
    BY <1>5, <1>9 DEF IdentityInv
  <2>2. \A b \in AccountId : accounts[b].owner # user.id
    BY <1>5, <1>9 DEF AccountsOf
  <2>3. OneAccount'
    BY <1>5, <1>7, <1>9, <2>1, <2>2 DEF Kept, OneAccount
  <2>4. (user.password # NoText /\ Matching(user.password))'
    BY <1>1, <1>3, <1>5, <1>7, <1>9, <2>2 DEF Matching, AccountsOf
  <2>5. InStep' /\ SignedUp'
    BY <2>4 DEF InStep, SignedUp, Signing
  <2>6. Gone'
    BY <1>1, <1>6, <2>1 DEF Kept, Gone, Others, Cleaning
  <2>7. \A id, places : places \subseteq Cleaning => \A d \in Caller : Cleans(d, id, places) => d # c
    BY <1>1 DEF Cleans, Cleaning
  <2>8. \A s \in sessions' : s = user'.id \/ \E d \in Caller : Cleans(d, s, {"cleanSessions"})'
    BY <1>1, <1>6, <2>1, <2>7 DEF Kept, Cleaned, Cleans, Others, Cleaning
  <2>9. \A b \in AccountId : b # a => \/ accounts[b].owner \in {0, user.id}
                                      \/ \E d \in Caller : d # c /\ Cleans(d, accounts[b].owner, Cleaning)
    BY <1>1, <2>1, <2>7 DEF Kept, Cleaned
  <2>10. \A b \in AccountId : \/ accounts'[b].owner \in {0, user'.id}
                               \/ \E d \in Caller : Cleans(d, accounts[b].owner, Cleaning)'
    BY <1>1, <1>5, <1>6, <1>7, <1>9, <2>9 DEF Cleans, Others
  <2> QED BY <2>1, <2>3, <2>5, <2>6, <2>8, <2>10 DEF Kept, Cleaned
<1> QED BY <1>8, <1>9 DEF IdentityInv

LEMMA LinkNewKeeps ==
    ASSUME IdentityInv, NEW c \in Caller, LinkNew(c)
    PROVE  IdentityInv'
<1>1. callers[c].at = "linkNew" /\ linkOrCreateUser(c) /\ Goto(c, "toLegacy") /\ UNCHANGED <<accounts, sessions>>
  BY DEF LinkNew, At
<1>2. callers[c].seen \in UserDoc
  BY <1>1, CallIs DEF IsCall, HasSeen, Place
<1>3. /\ user' \in UserDoc /\ apart \subseteq apart' /\ apart' \subseteq Reasons
      /\ apart' = {} => user'.id = user.id /\ user'.password = user.password
  BY <1>1, <1>2, LinkOrCreateIs
<1>4. Moved(c, "toLegacy", callers[c].seen) /\ callers'[c] \in Call
  BY <1>1, CallIs, GotoIs, MovedCall DEF Place
<1>5. IsCall(callers'[c])
  BY <1>1, <1>2, <1>4, CallIs DEF Moved, IsCall, HasSeen, HasText, Entering, Naming, Syncing
<1>6. IdentityTypes'
  BY <1>1, <1>3, <1>4, <1>5, CallIs, CalledKept DEF IdentityInv, IdentityTypes, Moved
<1>7. ASSUME apart' = {} PROVE Kept'
  <2>1. Kept /\ AccountsOf(user.id)' = AccountsOf(user.id)
    BY <1>1, <1>3, <1>7 DEF IdentityInv, AccountsOf
  <2>2. ~ Writing(c) /\ (Signing(c)' <=> Signing(c))
    BY <1>1, <1>3, <1>4, <1>7 DEF Writing, Signing, Moved, Syncing, Naming
  <2>3. InStep' /\ SignedUp'
    BY <1>1, <1>3, <1>4, <1>7, <2>1, <2>2, InStepAsBefore DEF Moved
  <2>4. OneAccount' /\ Gone' /\ Cleaned'
    BY <1>1, <1>3, <1>4, <1>7, <2>1, CleansAsBefore DEF Moved, Cleaning
  <2> QED BY <2>3, <2>4 DEF Kept
<1> QED BY <1>6, <1>7 DEF IdentityInv

(* A new user is nobody's yet. *)
LEMMA NewUserIs ==
    ASSUME IdentityInv, NEW c \in Caller, callers[c].email \in Address, Newest < MaxUser
    PROVE  /\ NewUser(c) \in UserDoc /\ NewUser(c).id = Newest + 1 /\ NewUser(c).password = NoText
           /\ Newest + 1 \in 1..MaxUser
           /\ \A a \in AccountId : accounts[a].owner # Newest + 1
           /\ \A d \in Caller : callers[d].seen.id # Newest + 1
<1>1. Newest \in 0..MaxUser /\ MaxUser \in Nat
  BY NewestIs, IdentityAssumption DEF IdentityInv
<1>2. Newest + 1 \in 1..MaxUser
  BY <1>1
<1>3. \A d \in Caller : callers[d].seen.id \in Int
  <2> SUFFICES ASSUME NEW d \in Caller PROVE callers[d].seen.id \in Int
    OBVIOUS
  <2>1. callers[d].seen \in UserDoc \cup {NoUser}
    BY CallIs
  <2> QED BY <2>1 DEF UserDoc, NoUser
<1>4. \A a \in AccountId : accounts[a].owner \in Int
  BY DEF IdentityInv, IdentityTypes, NoAccount
<1>5. \A a \in AccountId : accounts[a].owner <= Newest
  BY NewestIs DEF IdentityInv
<1>6. \A d \in Caller : callers[d].seen.id <= Newest
  BY NewestIs DEF IdentityInv
<1>7. NewUser(c) \in UserDoc /\ NewUser(c).id = Newest + 1 /\ NewUser(c).password = NoText
  BY <1>2 DEF NewUser, NoUser, UserDoc
<1> QED BY <1>1, <1>2, <1>3, <1>4, <1>5, <1>6, <1>7

LEMMA SignUpLegacyKeeps ==
    ASSUME IdentityInv, NEW c \in Caller, SignUpLegacy(c)
    PROVE  IdentityInv'
<1> DEFINE text == callers[c].text
<1>1. /\ callers[c].at = "signUp" /\ user = NoUser /\ Newest < MaxUser
      /\ user' = [NewUser(c) EXCEPT !.password = Bcrypted(text)]
      /\ Return(c) /\ UNCHANGED <<accounts, sessions, apart>>
  BY DEF SignUpLegacy, At
<1>2. callers[c].email \in Address /\ text # NoText
  BY <1>1, CallIs DEF IsCall, HasText
<1>3. Bcrypted(text) \in Text /\ Bcrypted(text) # NoText
  BY <1>2, CallIs, Texts
<1>4. user' \in UserDoc /\ user'.id = Newest + 1 /\ user'.password # NoText
  BY <1>1, <1>2, <1>3, NewUserIs DEF UserDoc
<1>5. Others(c) /\ callers'[c] = Idle /\ IsCall(callers'[c])
  BY <1>1, CallIs, ReturnIs DEF Returned
<1>6. IdentityTypes'
  BY <1>1, <1>4, <1>5, CallIs, CalledKept DEF IdentityInv, IdentityTypes
<1>7. ASSUME apart' = {} PROVE Kept'
  <2>1. Kept
    BY <1>1, <1>7 DEF IdentityInv
  <2>2. OneAccount'
    BY <1>1, <2>1 DEF Kept, OneAccount
  <2>3. AccountsOf(user.id)' = {}
    BY <1>1, <1>2, <1>4, NewUserIs DEF AccountsOf
  <2>4. InStep' /\ SignedUp'
    BY <1>4, <2>3 DEF InStep, SignedUp, Signing
  <2>5. Gone'
    BY <1>1, <1>2, <1>4, <1>5, NewUserIs DEF Gone, Others, Idle, Cleaning
  <2>6. \A s \in sessions : \E d \in Caller : d # c /\ Cleans(d, s, {"cleanSessions"})
    BY <1>1, <2>1 DEF IdentityInv, IdentityTypes, Kept, Cleaned, Cleans, NoUser
  <2>7. \A a \in AccountId : accounts[a].owner = 0 \/ \E d \in Caller : d # c /\ Cleans(d, accounts[a].owner, Cleaning)
    BY <1>1, <2>1 DEF Kept, Cleaned, Cleans, Cleaning, NoUser
  <2>8. Cleaned'
    BY <1>1, <1>5, <2>6, <2>7 DEF Cleaned, Cleans, Others
  <2> QED BY <2>2, <2>4, <2>5, <2>8 DEF Kept
<1> QED BY <1>6, <1>7 DEF IdentityInv

LEMMA SignUpIamKeeps ==
    ASSUME IdentityInv, NEW c \in Caller, SignUpIam(c)
    PROVE  IdentityInv'
<1> DEFINE text == callers[c].text
           id   == Newest + 1
<1>1. /\ callers[c].at = "signUp" /\ (~ Delegated => callers[c].op = "signUpIam") /\ user = NoUser /\ Newest < MaxUser
      /\ user' = NewUser(c) /\ sessions' = sessions \cup {id}
      /\ See(c, "linkNew", NewUser(c)) /\ UNCHANGED apart
  BY DEF SignUpIam, At
<1>2. callers[c].email \in Address /\ text # NoText
  BY <1>1, CallIs DEF IsCall, HasText
<1>3. Passed(c) \in Text /\ (~ Delegated => Passed(c) = sha256(text))
  BY <1>1, <1>2, CallIs, Texts DEF Passed, normalizePasswordForIam
<1>4. PICK a \in AccountsOf(0) : accounts' = [accounts EXCEPT ![a] = [owner |-> id, password |-> Passed(c)]]
  BY DEF SignUpIam
<1>5. /\ NewUser(c) \in UserDoc /\ NewUser(c).id = id /\ NewUser(c).password = NoText /\ id \in 1..MaxUser
      /\ \A b \in AccountId : accounts[b].owner # id
      /\ \A d \in Caller : callers[d].seen.id # id
  BY <1>1, <1>2, NewUserIs
<1> HIDE DEF id
<1>6. /\ accounts' \in [AccountId -> [owner : 1..MaxUser, password : Text] \cup {NoAccount}]
      /\ a \in AccountId /\ accounts'[a].owner = id /\ accounts'[a].password = Passed(c)
      /\ \A b \in AccountId : b # a => accounts'[b] = accounts[b]
  BY <1>3, <1>4, <1>5 DEF IdentityInv, IdentityTypes, AccountsOf
<1>7. Moved(c, "linkNew", NewUser(c)) /\ callers'[c] \in Call
  BY <1>1, <1>5, CallIs, SeeIs, MovedCall DEF Place
<1>8. IsCall(callers'[c])
  BY <1>1, <1>2, <1>5, <1>7, CallIs DEF Moved, IsCall, HasSeen, HasText, Entering, Naming, Syncing
<1>9. IdentityTypes'
  BY <1>1, <1>5, <1>6, <1>7, <1>8, CallIs, CalledKept DEF IdentityInv, IdentityTypes, Moved
<1>10. ASSUME apart' = {} PROVE Kept'
  <2>1. Kept
    BY <1>1, <1>10 DEF IdentityInv
  <2>2. OneAccount'
    BY <1>5, <1>6, <2>1 DEF Kept, OneAccount
  <2>3. \A b \in AccountsOf(user.id)' : b = a
    BY <1>1, <1>5, <1>6 DEF AccountsOf
  <2>4. \A d \in Caller : Signing(d)' => d = c
    BY <1>1, <1>5, <1>7 DEF Signing, Moved, Others
  <2>5. Signing(c)'
    BY <1>1, <1>5, <1>7 DEF Signing, Moved, Naming
  <2>6. InStep' /\ SignedUp'
    BY <1>3, <1>6, <1>7, <2>3, <2>4, <2>5 DEF InStep, SignedUp, Matching, Moved
  <2>7. Gone'
    BY <1>1, <1>5, <1>7 DEF Gone, Moved, Others, Cleaning
  <2>8. \A s \in sessions : \E d \in Caller : d # c /\ Cleans(d, s, {"cleanSessions"})
    BY <1>1, <2>1 DEF IdentityInv, IdentityTypes, Kept, Cleaned, Cleans, NoUser
  <2>9. \A b \in AccountId : accounts[b].owner = 0 \/ \E d \in Caller : d # c /\ Cleans(d, accounts[b].owner, Cleaning)
    BY <1>1, <2>1 DEF Kept, Cleaned, Cleans, Cleaning, NoUser
  <2>10. \A s \in sessions' : s = user'.id \/ \E d \in Caller : Cleans(d, s, {"cleanSessions"})'
    BY <1>1, <1>5, <1>7, <2>8 DEF Cleans, Moved, Others
  <2>11. \A b \in AccountId : \/ accounts'[b].owner \in {0, user'.id}
                               \/ \E d \in Caller : Cleans(d, accounts[b].owner, Cleaning)'
    BY <1>1, <1>5, <1>6, <1>7, <2>9 DEF Cleans, Moved, Others
  <2> QED BY <2>2, <2>6, <2>7, <2>10, <2>11 DEF Kept, Cleaned
<1> QED BY <1>9, <1>10 DEF IdentityInv

LEMMA RemoveKeeps ==
    ASSUME IdentityInv, NEW c \in Caller, Remove(c)
    PROVE  IdentityInv'
<1>1. callers[c].at = "remove" /\ UNCHANGED <<accounts, sessions, apart>>
  BY DEF Remove, At
<1>2. callers[c].seen \in UserDoc /\ callers[c].seen.id # 0
  BY <1>1, CallIs DEF IsCall, HasSeen, Place, UserDoc
<1>3. CASE user.id # callers[c].seen.id
  <2>1. Return(c) /\ UNCHANGED user
    BY <1>3 DEF Remove
  <2> QED BY <1>1, <2>1, CallIs, ReturnIs, AsideKeeps DEF Returned, Idle, SameLogin, Naming, Syncing, Cleaning
<1>4. CASE user.id = callers[c].seen.id
  <2>1. user' = NoUser /\ Goto(c, "cleanSessions")
    BY <1>4 DEF Remove
  <2>2. Moved(c, "cleanSessions", callers[c].seen) /\ callers'[c] \in Call
    BY <2>1, CallIs, GotoIs, MovedCall DEF Place
  <2>3. IsCall(callers'[c])
    BY <1>1, <1>2, <2>2, CallIs DEF Moved, IsCall, HasSeen, HasText, Entering, Naming, Syncing
  <2>4. IdentityTypes'
    BY <1>1, <2>1, <2>2, <2>3, CallIs, CalledKept DEF IdentityInv, IdentityTypes, Moved
  <2>5. ASSUME apart' = {} PROVE Kept'
    <3>1. Kept
      BY <1>1, <2>5 DEF IdentityInv
    <3>2. OneAccount'
      BY <1>1, <3>1 DEF Kept, OneAccount
    <3>3. Called' /\ user'.id = 0
      BY <2>1, <2>4 DEF IdentityTypes, NoUser
    <3>4. \A d \in Caller : callers'[d].at \in Naming \cup Cleaning => callers'[d].seen.id # 0
      BY <3>3 DEF Called, IsCall, HasSeen, Place, Naming, Cleaning, UserDoc
    <3>5. InStep' /\ SignedUp' /\ Gone'
      BY <3>3, <3>4 DEF InStep, SignedUp, Signing, Gone
    <3>6. \A s \in sessions : \E d \in Caller : callers'[d].at = "cleanSessions" /\ callers'[d].seen.id = s
      BY <1>1, <1>4, <2>2, <3>1 DEF Kept, Cleaned, Cleans, Moved, Others
    <3>7. \A a \in AccountId : accounts[a].owner = 0 \/
             \E d \in Caller : callers'[d].at \in Cleaning /\ callers'[d].seen.id = accounts[a].owner
      BY <1>1, <1>4, <2>2, <3>1 DEF Kept, Cleaned, Cleans, Moved, Others, Cleaning
    <3>8. Cleaned'
      BY <1>1, <3>6, <3>7 DEF Cleaned, Cleans
    <3> QED BY <3>2, <3>5, <3>8 DEF Kept
  <2> QED BY <2>4, <2>5 DEF IdentityInv
<1> QED BY <1>3, <1>4

LEMMA CleanSessionsKeeps ==
    ASSUME IdentityInv, NEW c \in Caller, CleanSessions(c)
    PROVE  IdentityInv'
<1>1. /\ callers[c].at = "cleanSessions" /\ sessions' = sessions \ {callers[c].seen.id}
      /\ Goto(c, "cleanAccounts") /\ UNCHANGED <<user, accounts, apart>>
  BY DEF CleanSessions, At
<1>2. Moved(c, "cleanAccounts", callers[c].seen) /\ callers'[c] \in Call
  BY <1>1, CallIs, GotoIs, MovedCall DEF Place
<1>3. IsCall(callers'[c])
  BY <1>1, <1>2, CallIs DEF Moved, IsCall, HasSeen, HasText, Entering, Naming, Syncing, Place
<1>4. IdentityTypes'
  BY <1>1, <1>2, <1>3, CallIs, CalledKept DEF IdentityInv, IdentityTypes, Moved
<1>5. ASSUME apart' = {} PROVE Kept'
  <2>1. Kept
    BY <1>1, <1>5 DEF IdentityInv
  <2>2. AccountsOf(user.id)' = AccountsOf(user.id) /\ ~ Writing(c) /\ ~ Signing(c) /\ ~ Signing(c)'
    BY <1>1, <1>2 DEF AccountsOf, Writing, Signing, Moved, Syncing, Naming
  <2>3. InStep' /\ SignedUp'
    BY <1>1, <1>2, <2>1, <2>2, InStepAsBefore DEF Moved
  <2>4. OneAccount' /\ Gone'
    BY <1>1, <1>2, <2>1 DEF Kept, OneAccount, Gone, Moved, Others, Cleaning
  <2>5. \A s \in sessions' : s = user.id \/ \E d \in Caller : callers'[d].at = "cleanSessions" /\ callers'[d].seen.id = s
    BY <1>1, <1>2, <2>1 DEF Kept, Cleaned, Cleans, Moved, Others
  <2>6. \A a \in AccountId : accounts[a].owner \in {0, user.id} \/
           \E d \in Caller : callers'[d].at \in Cleaning /\ callers'[d].seen.id = accounts[a].owner
    BY <1>1, <1>2, <2>1 DEF Kept, Cleaned, Cleans, Moved, Others, Cleaning
  <2>7. Cleaned'
    BY <1>1, <2>5, <2>6 DEF Cleaned, Cleans
  <2> QED BY <2>3, <2>4, <2>7 DEF Kept
<1> QED BY <1>4, <1>5 DEF IdentityInv

LEMMA CleanAccountsKeeps ==
    ASSUME IdentityInv, NEW c \in Caller, CleanAccounts(c)
    PROVE  IdentityInv'
<1> DEFINE id == callers[c].seen.id
<1>1. /\ callers[c].at = "cleanAccounts" /\ Return(c) /\ UNCHANGED <<user, sessions, apart>>
      /\ accounts' = [a \in AccountId |-> IF a \in AccountsOf(id) THEN NoAccount ELSE accounts[a]]
  BY DEF CleanAccounts, At
<1>2. /\ accounts' \in [AccountId -> [owner : 1..MaxUser, password : Text] \cup {NoAccount}]
      /\ \A a \in AccountId : IF accounts[a].owner = id THEN accounts'[a].owner = 0 ELSE accounts'[a] = accounts[a]
  BY <1>1 DEF IdentityInv, IdentityTypes, AccountsOf, NoAccount
<1>3. Others(c) /\ callers'[c] = Idle /\ IsCall(callers'[c])
  BY <1>1, CallIs, ReturnIs DEF Returned
<1>4. IdentityTypes'
  BY <1>1, <1>2, <1>3, CallIs, CalledKept DEF IdentityInv, IdentityTypes
<1>5. ASSUME apart' = {} PROVE Kept'
  <2>1. Kept
    BY <1>1, <1>5 DEF IdentityInv
  <2>2. user.id # id
    BY <1>1, <2>1 DEF Kept, Gone, Cleaning
  <2>3. OneAccount'
    BY <1>2, <2>1 DEF Kept, OneAccount
  <2>4. Gone'
    BY <1>1, <1>3, <2>1 DEF Kept, Gone, Others, Idle, Cleaning
  <2>5. Cleaned'
    <3>1. \A s \in sessions : s = user.id \/ \E d \in Caller : callers'[d].at = "cleanSessions" /\ callers'[d].seen.id = s
      BY <1>1, <1>3, <2>1 DEF Kept, Cleaned, Cleans, Others
    <3>2. \A a \in AccountId : accounts'[a].owner \in {0, user.id} \/
             \E d \in Caller : callers'[d].at \in Cleaning /\ callers'[d].seen.id = accounts'[a].owner
      BY <1>1, <1>2, <1>3, <2>1 DEF Kept, Cleaned, Cleans, Others
    <3> QED BY <1>1, <3>1, <3>2 DEF Cleaned, Cleans
  <2>6. InStep' /\ SignedUp'
    <3>1. CASE user.id = 0
      <4>1. Called' /\ user'.id = 0
        BY <1>1, <1>4, <3>1 DEF IdentityTypes
      <4>2. \A d \in Caller : callers'[d].at \in Naming => callers'[d].seen.id # 0
        BY <4>1 DEF Called, IsCall, HasSeen, Place, Naming, UserDoc
      <4> QED BY <4>1, <4>2 DEF InStep, SignedUp, Signing
    <3>2. CASE user.id # 0
      <4>1. AccountsOf(user.id)' = AccountsOf(user.id) /\ \A a \in AccountsOf(user.id) : accounts'[a] = accounts[a]
        BY <1>1, <1>2, <2>2, <3>2 DEF AccountsOf
      <4>2. ~ Writing(c) /\ ~ Signing(c) /\ ~ Signing(c)'
        BY <1>1, <1>3 DEF Writing, Signing, Idle, Syncing, Naming
      <4> QED BY <1>1, <1>3, <2>1, <4>1, <4>2, InStepAsBefore
    <3> QED BY <3>1, <3>2
  <2> QED BY <2>3, <2>4, <2>5, <2>6 DEF Kept
<1> QED BY <1>4, <1>5 DEF IdentityInv

-----------------------------------------------------------------------------
LEMMA IdentityStart == IdentityInit => IdentityInv
<1> SUFFICES ASSUME IdentityInit PROVE IdentityInv
  OBVIOUS
<1>1. /\ user = NoUser /\ accounts = [a \in AccountId |-> NoAccount] /\ sessions = {}
      /\ callers = [c \in Caller |-> Idle] /\ apart = {}
  BY DEF IdentityInit
<1>2. Idle \in Call /\ IsCall(Idle) /\ Idle.at = "idle"
  <2>1. Idle \in Call
    BY DEF Idle, Call, Place
  <2> QED BY <2>1 DEF IsCall, Idle, HasSeen, HasText, Entering, Naming, Syncing
<1>3. IdentityTypes
  BY <1>1, <1>2 DEF IdentityTypes, Called
<1>4. OneAccount /\ InStep /\ Cleaned
  BY <1>1 DEF OneAccount, InStep, Cleaned, NoAccount, NoUser
<1>5. SignedUp /\ Gone
  BY <1>1, <1>2 DEF SignedUp, Signing, Gone, Naming, Cleaning
<1> QED BY <1>3, <1>4, <1>5 DEF IdentityInv, Kept

LEMMA IdentityStep == IdentityInv /\ [IdentityNext]_identityVars => IdentityInv'
<1> SUFFICES ASSUME IdentityInv, [IdentityNext]_identityVars PROVE IdentityInv'
  OBVIOUS
<1>1. CASE UNCHANGED identityVars
  BY <1>1 DEF IdentityInv, IdentityTypes, Called, Kept, OneAccount, InStep, SignedUp, Gone, Cleaned, Cleans,
              Matching, Writing, Signing, PlainText, AccountsOf, identityVars
<1>2. CASE ForgotPassword
  BY <1>2, ForgotKeeps
<1>3. ASSUME NEW c \in Caller, NEW op \in Operation, NEW text \in Text \cup {NoText},
             NEW email \in Address \cup {"none"}, Enter(c, op, text, email)
      PROVE  IdentityInv'
  BY <1>3, EnterKeeps
<1>4. ASSUME NEW c \in Caller, CallStep(c) PROVE IdentityInv'
  <2>1. CASE ReadUser(c) \/ FindAccount(c) \/ LinkId(c) \/ InsertAccount(c)
    BY <2>1, ReadUserKeeps, FindAccountKeeps, LinkIdKeeps, InsertAccountKeeps
  <2>2. CASE Check(c) \/ CreateSession(c) \/ Upsert(c)
    BY <2>2, CheckKeeps, CreateSessionKeeps, UpsertKeeps
  <2>3. CASE SignUpIam(c) \/ SignUpLegacy(c) \/ Refused(c) \/ LinkNew(c) \/ SyncToLegacy(c)
    BY <2>3, SignUpIamKeeps, SignUpLegacyKeeps, RefusedKeeps, LinkNewKeeps, SyncToLegacyKeeps
  <2>4. CASE SaveReset(c) \/ ReadDocument(c) \/ Save(c)
    BY <2>4, SaveResetKeeps, ReadDocumentKeeps, SaveKeeps
  <2>6. CASE EndSessions(c) \/ SyncUser(c) \/ SyncAccount(c) \/ SyncWrite(c)
    BY <2>6, EndSessionsKeeps, SyncUserKeeps, SyncAccountKeeps, SyncWriteKeeps
  <2>5. CASE Remove(c) \/ CleanSessions(c) \/ CleanAccounts(c) \/ Throw(c)
    BY <2>5, RemoveKeeps, CleanSessionsKeeps, CleanAccountsKeeps, ThrowKeeps
  <2> QED BY <1>4, <2>1, <2>2, <2>3, <2>4, <2>5, <2>6 DEF CallStep
<1> QED BY <1>1, <1>2, <1>3, <1>4 DEF IdentityNext

(* Two texts open a door that have the same sha256. *)
LEMMA DoorsAlike ==
    ASSUME ~ Delegated, IdentityTypes, NEW t \in Text, ~ t.sha256,
           AccountsOf(user.id) # {}, user.password # NoText, Matching(user.password)
    PROVE  LegacyAccepts(t) <=> IamAccepts(t)
<1>1. user.password \in Text
  BY DEF IdentityTypes, UserDoc, NoUser
<1>2. \A x, y \in Text : x.of = y.of /\ x.sha256 = y.sha256 => x = y
  BY DEF Text
<1>3. \A x \in Text : sha256(x) \in Text /\ sha256(x).of = x.of /\ sha256(x).sha256 = TRUE /\ x.sha256 \in BOOLEAN
  BY DEF Text, sha256
<1>4. LegacyAccepts(t) <=> t = user.password \/ sha256(t) = user.password
  BY DEF LegacyAccepts, Compares
<1>5. LegacyAccepts(t) <=> sha256(t) = sha256(user.password)
  BY <1>1, <1>2, <1>3, <1>4
<1>6. IamAccepts(t) <=> sha256(user.password) = sha256(t)
  BY DEF IamAccepts, Verifies, Matching, normalizePasswordForIam
<1> QED BY <1>5, <1>6

(* Once no call runs, the two ways of signing in take the same passwords,   *)
(* with the exceptions that EitherDoor names, where the legacy sign-in is   *)
(* not delegated to IAM: however many callers the person has, and whatever  *)
(* calls of signing in, signing up, resetting, updating and deleting        *)
(* overlapped.                                                              *)
THEOREM EitherDoorCorrect ==
    ASSUME ~ Delegated
    PROVE  IdentitySpec => []EitherDoor
<1>1. IdentityInv => EitherDoor
  <2> SUFFICES ASSUME IdentityInv, Quiet, apart = {}, NEW t \in Text, ~ t.sha256, AccountsOf(user.id) # {}
               PROVE  LegacyAccepts(t) <=> IamAccepts(t)
    BY DEF EitherDoor, SameDoors
  <2>1. \A c \in Caller : ~ Writing(c) /\ ~ Signing(c)
    BY DEF Quiet, At, Writing, Signing, Syncing, Naming
  <2>2. CASE user.id # 0
    BY <2>1, <2>2, DoorsAlike DEF IdentityInv, Kept, InStep
  <2>3. CASE user.id = 0
    <3>1. user = NoUser
      BY <2>3 DEF IdentityInv, IdentityTypes, UserDoc
    <3>2. \A a \in AccountsOf(user.id) : accounts[a] = NoAccount
      BY <2>3 DEF IdentityInv, IdentityTypes, AccountsOf
    <3>3. ~ LegacyAccepts(t)
      BY <3>1 DEF LegacyAccepts, Compares, NoUser
    <3>4. ~ IamAccepts(t)
      BY <3>2, Texts DEF IamAccepts, Verifies, NoAccount, normalizePasswordForIam
    <3> QED BY <3>3, <3>4
  <2> QED BY <2>2, <2>3
<1> QED BY <1>1, IdentityStart, IdentityStep, PTL DEF IdentitySpec

(* Once no call runs, no session and no account belongs to a user that was  *)
(* deleted, with the exceptions that EitherDoor names.                      *)
THEOREM OrphansCorrect == IdentitySpec => []NoOrphans
<1>1. IdentityInv => NoOrphans
  <2> SUFFICES ASSUME IdentityInv, Quiet, apart = {}
               PROVE  /\ sessions \subseteq {user.id}
                      /\ \A a \in AccountId : accounts[a].owner \in {0, user.id}
    BY DEF NoOrphans
  <2>1. \A c \in Caller : \A id : ~ Cleans(c, id, {"cleanSessions"}) /\ ~ Cleans(c, id, Cleaning)
    BY DEF Quiet, At, Cleans, Cleaning
  <2> QED BY <2>1 DEF IdentityInv, Kept, Cleaned
<1> QED BY <1>1, IdentityStart, IdentityStep, PTL DEF IdentitySpec

(* What the documents, the sessions and the calls may hold                  *)
THEOREM IdentityTypeCorrect == IdentitySpec => []IdentityTypeOK
<1>1. IdentityInv => IdentityTypeOK
  BY DEF IdentityInv, IdentityTypes, IdentityTypeOK, Called, Call
<1> QED BY <1>1, IdentityStart, IdentityStep, PTL DEF IdentitySpec
=============================================================================
