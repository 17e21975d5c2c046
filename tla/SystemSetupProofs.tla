-------------------------- MODULE SystemSetupProofs --------------------------
(***************************************************************************)
(* One initial admin, for any number of creators, addresses and clocks that *)
(* differ.  A claim keeps others out only as long as nobody finds it stale, *)
(* and whoever gives up deletes whichever claim there is.  So the argument  *)
(* is about time: who holds the claim is live, and its claim is too young   *)
(* for everybody; and when it has made an admin, its claim is young enough  *)
(* for all who have counted no users before there were any.                 *)
(***************************************************************************)
EXTENDS SystemSetup, TLAPS

(* A creator that has the claim, one that has yet to claim, and the admins  *)
(* that nobody was told to be missing *)
Holding(c) == pc[c] \in Creating \cup {"release"}
Counted(c) == pc[c] \in {"expire", "claim"}
Sound      == {a \in admins : \A c \in unheard : Email[c] # a}

(* What a creator in the middle of its work has done so far *)
DoneSoFar ==
    \A c \in Creator :
        /\ pc[c] \in {"link", "sync", "roles"} => Email[c] \in users
        /\ pc[c] \in {"sync", "roles"} => Email[c] \in accounts

(* A live creator is within its span. *)
InTime == \A c \in Creator : Live(c) => began[c] <= now /\ now <= began[c] + Span

OneHolder   == \A c, d \in Creator : Holding(c) /\ Holding(d) => c = d
FreshClaim  == \A c \in Creator : Holding(c) => claim # Free /\ began[c] + Skew[c] <= claim
OneSound    == \A a, b \in Sound : a = b

(* Nobody is left who could get a second admin. *)
Settled ==
    Sound # {} =>
        /\ \A c \in Creator : pc[c] \notin {"user", "link", "sync", "roles", "release"}
        /\ \A c \in Creator : Counted(c) => claim # Free /\ began[c] + Span + Skew[c] <= claim + Stale

-----------------------------------------------------------------------------
LEMMA SetupTypes == SetupSpec => [](SetupTypeOK /\ DoneSoFar)
<1>1. SetupInit => SetupTypeOK /\ DoneSoFar
  BY DEF SetupInit, SetupTypeOK, DoneSoFar, Places, Creating, Free
<1>2. SetupTypeOK /\ DoneSoFar /\ [SetupNext]_setupVars => (SetupTypeOK /\ DoneSoFar)'
  <2> SUFFICES ASSUME SetupTypeOK, DoneSoFar, [SetupNext]_setupVars PROVE (SetupTypeOK /\ DoneSoFar)'
    OBVIOUS
  <2> USE SetupAssumption DEF SetupTypeOK, DoneSoFar, Places, Creating, Address, Goto, Marker, People
  <2>1. ASSUME NEW c \in Creator, CreatorStep(c) PROVE (SetupTypeOK /\ DoneSoFar)'
    <3>1. CASE Boot(c)
      BY <3>1 DEF Boot
    <3>2. CASE Status(c)
      BY <3>2 DEF Status, At
    <3>3. CASE Count(c)
      BY <3>3 DEF Count, At
    <3>4. CASE ExpireClaim(c)
      BY <3>4 DEF ExpireClaim, At
    <3>5. CASE Claim(c)
      BY <3>5 DEF Claim, At, Clock
    <3>6. CASE CreateUser(c)
      BY <3>6 DEF CreateUser, At, Then
    <3>7. CASE LinkAccount(c)
      BY <3>7 DEF LinkAccount, At, Then
    <3>8. CASE SyncUser(c)
      BY <3>8 DEF SyncUser, At, Then
    <3>9. CASE SetRoles(c)
      BY <3>9 DEF SetRoles, At, Then
    <3>10. CASE SyncPassword(c)
      BY <3>10 DEF SyncPassword, At
    <3>11. CASE CreationFails(c)
      BY <3>11 DEF CreationFails
    <3>12. CASE Release(c)
      BY <3>12 DEF Release, At
    <3>13. CASE DbError(c)
      BY <3>13 DEF DbError, At, Clock
    <3>14. CASE Crash(c)
      BY <3>14 DEF Crash
    <3> QED BY <2>1, <3>1, <3>2, <3>3, <3>4, <3>5, <3>6, <3>7, <3>8, <3>9, <3>10, <3>11, <3>12, <3>13, <3>14 DEF CreatorStep
  <2>2. CASE SetupTick
    BY <2>2 DEF SetupTick
  <2>3. CASE UNCHANGED setupVars
    BY <2>3 DEF setupVars
  <2> QED BY <2>1, <2>2, <2>3 DEF SetupNext
<1> QED BY <1>1, <1>2, PTL DEF SetupSpec
(* Time goes on only as far as every live creator's span.                   *)
LEMMA SetupTime == SetupSpec => []InTime
<1>1. SetupInit => InTime
  BY DEF SetupInit, InTime, Live
<1>2. SetupTypeOK /\ InTime /\ [SetupNext]_setupVars => InTime'
  <2> SUFFICES ASSUME SetupTypeOK, InTime, [SetupNext]_setupVars PROVE InTime'
    OBVIOUS
  <2>1. ASSUME NEW c \in Creator, Boot(c) PROVE InTime'
    BY <2>1, SetupAssumption DEF Boot, SetupTypeOK, InTime, Live, Goto
  <2>2. ASSUME NEW c \in Creator, Live(c), pc' = [pc EXCEPT ![c] = pc'[c]], UNCHANGED <<now, began>> PROVE InTime'
    BY <2>2 DEF SetupTypeOK, InTime, Live
  <2>3. ASSUME NEW c \in Creator, CreatorStep(c), ~ Boot(c) PROVE Live(c) /\ pc' = [pc EXCEPT ![c] = pc'[c]] /\ UNCHANGED <<now, began>>
    BY <2>3 DEF CreatorStep, SetupTypeOK, Live, At, Goto, Then, Places, Creating, Status, Count, ExpireClaim, Claim, CreateUser, LinkAccount, SyncUser,
                SetRoles, SyncPassword, CreationFails, Release, DbError, Crash
  <2>4. CASE SetupTick
    BY <2>4, SetupAssumption DEF SetupTick, SetupTypeOK, InTime, Live
  <2>5. CASE UNCHANGED setupVars
    BY <2>5 DEF setupVars, InTime, Live
  <2> QED BY <2>1, <2>2, <2>3, <2>4, <2>5 DEF SetupNext
<1> QED BY <1>1, <1>2, SetupTypes, PTL DEF SetupSpec

-----------------------------------------------------------------------------
ClaimInv == OneHolder /\ FreshClaim /\ OneSound /\ Settled

(* Nobody takes the claim from whoever holds it.                            *)
LEMMA NotStale ==
    ASSUME SlowEnough, SetupTypeOK, InTime, FreshClaim,
           NEW c \in Creator, Holding(c), NEW d \in Creator, Live(d)
    PROVE  ~ claim < Clock(d) - Stale
<1>1. Live(c)
  BY DEF Holding, Creating, Live
<1>2. 2 * Span + Skew[d] - Skew[c] <= Stale
  BY DEF SlowEnough
<1> QED BY <1>1, <1>2, SetupAssumption DEF SetupTypeOK, InTime, FreshClaim, Clock, Free

(* A step that leaves the claim, the users and the admins alone, and brings *)
(* nobody nearer to them.                                                   *)
LEMMA NothingGained ==
    ASSUME SetupTypeOK, ClaimInv, UNCHANGED <<claim, admins, unheard>>,
           \A c \in Creator : Holding(c)' => Holding(c) /\ began'[c] = began[c] /\ (pc'[c] = "release" => pc[c] # "password"),
           \A c \in Creator : (pc'[c] \in {"user", "link", "sync", "roles"}) => pc[c] \in {"user", "link", "sync", "roles"},
           \A c \in Creator : Counted(c)' => Counted(c) /\ began'[c] = began[c]
    PROVE  ClaimInv'
<1> Sound' = Sound
  BY DEF Sound
<1>1. OneHolder' /\ FreshClaim' /\ OneSound'
  BY DEF ClaimInv, OneHolder, FreshClaim, OneSound
<1>2. Settled'
  BY DEF ClaimInv, Settled, Holding, Creating
<1> QED BY <1>1, <1>2 DEF ClaimInv

LEMMA ClaimStep == ASSUME SlowEnough, SetupTypeOK, SetupTypeOK', DoneSoFar, InTime, ClaimInv, [SetupNext]_setupVars
                   PROVE  ClaimInv'
<1> USE DEF SetupTypeOK, Holding, Counted, Creating
<1>1. ASSUME NEW c \in Creator, CreatorStep(c) PROVE ClaimInv'
  <2>1. CASE Boot(c)
    BY <2>1, NothingGained DEF Boot, Goto, Marker, People
  <2>2. CASE Status(c)
    BY <2>2, NothingGained DEF Status, At, Goto, Marker, People
  <2>3. CASE Count(c)
    <3>1. CASE users # {}
      BY <2>3, <3>1, NothingGained DEF Count, At, Goto, Marker, People
    <3>2. CASE users = {}
      <4>1. Sound = {} /\ Sound' = {}
        BY <2>3, <3>2 DEF Count, People, Sound
      <4>2. OneHolder' /\ FreshClaim'
        BY <2>3 DEF Count, At, Goto, Marker, ClaimInv, OneHolder, FreshClaim
      <4> QED BY <4>1, <4>2 DEF ClaimInv, OneSound, Settled
    <3> QED BY <3>1, <3>2
  <2>4. CASE ExpireClaim(c)
    <3>1. Sound' = Sound /\ Live(c)
      BY <2>4 DEF ExpireClaim, At, People, Sound, Live
    <3>2. OneHolder'
      BY <2>4 DEF ExpireClaim, At, Goto, ClaimInv, OneHolder
    <3>3. FreshClaim'
      <4> SUFFICES ASSUME NEW d \in Creator, Holding(d) PROVE claim' = claim /\ began' = began
        BY <2>4 DEF ExpireClaim, At, Goto, ClaimInv, FreshClaim
      <4> QED BY <2>4, <3>1, NotStale DEF ExpireClaim, At, ClaimInv
    <3>4. Settled'
      <4> SUFFICES ASSUME Sound # {} PROVE Settled'
        BY <3>1 DEF Settled
      <4>1. now <= began[c] + Span
        BY <3>1 DEF InTime
      <4>2. claim' = claim
        BY <2>4, <4>1, SetupAssumption DEF ExpireClaim, At, ClaimInv, Settled, Clock
      <4> QED BY <2>4, <3>1, <4>2 DEF ExpireClaim, At, Goto, ClaimInv, Settled
    <3> QED BY <3>1, <3>2, <3>3, <3>4 DEF ClaimInv, OneSound
  <2>5. CASE Claim(c)
    <3>1. CASE claim # Free
      BY <2>5, <3>1, NothingGained DEF Claim, At, Goto, Marker, People
    <3>2. CASE claim = Free
      <4>1. Sound = {} /\ Sound' = {}
        BY <2>5, <3>2 DEF Claim, At, People, Sound, ClaimInv, Settled
      <4>2. Live(c) /\ \A d \in Creator : ~ Holding(d)
        BY <2>5, <3>2 DEF Claim, At, Live, ClaimInv, FreshClaim
      <4>3. OneHolder' /\ FreshClaim'
        BY <2>5, <3>2, <4>2, SetupAssumption DEF Claim, At, Goto, OneHolder, FreshClaim, InTime, Clock, Free
      <4> QED BY <4>1, <4>3 DEF ClaimInv, OneSound, Settled
    <3> QED BY <3>1, <3>2
  <2>6. CASE CreateUser(c) \/ LinkAccount(c) \/ SyncUser(c) \/ CreationFails(c)
    BY <2>6, NothingGained DEF CreateUser, LinkAccount, SyncUser, CreationFails, At, Then, Goto, Marker, People
  <2>7. CASE SetRoles(c)
    <3>1. Holding(c) /\ pc[c] = "roles" /\ Sound = {} /\ UNCHANGED <<claim, now, began>>
      BY <2>7 DEF SetRoles, At, Then, Marker, ClaimInv, Settled
    <3>2. OneHolder' /\ FreshClaim'
      BY <2>7, <3>1 DEF SetRoles, Then, Goto, ClaimInv, OneHolder, FreshClaim
    <3>3. CASE pc'[c] = "release"
      <4> Sound' = {}
        BY <2>7, <3>1, <3>3 DEF SetRoles, Sound
      <4> QED BY <3>2 DEF ClaimInv, OneSound, Settled
    <3>4. CASE pc' = [pc EXCEPT ![c] = "password"]
      <4>1. Sound' \subseteq {Email[c]}
        BY <2>7, <3>1, <3>4 DEF SetRoles, Sound
      <4>2. \A d \in Creator : pc'[d] \notin {"user", "link", "sync", "roles", "release"}
        BY <3>1, <3>4 DEF ClaimInv, OneHolder
      <4>3. ASSUME NEW d \in Creator, Counted(d)' PROVE claim' # Free /\ began'[d] + Span + Skew[d] <= claim' + Stale
        <5>1. began[d] <= now /\ now <= began[c] + Span
          BY <3>1, <3>4, <4>3 DEF InTime, Live
        <5>2. 2 * Span + Skew[d] - Skew[c] <= Stale
          BY DEF SlowEnough
        <5>3. claim # Free /\ began[c] + Skew[c] <= claim
          BY <3>1 DEF ClaimInv, FreshClaim
        <5> QED BY <3>1, <5>1, <5>2, <5>3, SetupAssumption DEF Free
      <4> QED BY <3>2, <4>1, <4>2, <4>3 DEF ClaimInv, OneSound, Settled
    <3> QED BY <2>7, <3>3, <3>4 DEF SetRoles, Then, Goto
  <2>8. CASE SyncPassword(c)
    BY <2>8, NothingGained DEF SyncPassword, At, Goto, Marker, People
  <2>9. CASE Release(c)
    <3>1. Sound' = Sound /\ Sound = {}
      BY <2>9 DEF Release, At, People, Sound, ClaimInv, Settled
    <3>2. \A d \in Creator : ~ Holding(d)'
      BY <2>9 DEF Release, At, Goto, ClaimInv, OneHolder
    <3> QED BY <3>1, <3>2 DEF ClaimInv, OneHolder, FreshClaim, OneSound, Settled
  <2>10. CASE DbError(c)
    <3>1. CASE UNCHANGED claim
      BY <2>10, <3>1, NothingGained DEF DbError, At, Goto, People
    <3>2. CASE claim = Free
      <4>1. pc[c] = "claim" => Sound = {} /\ \A d \in Creator : ~ Holding(d)
        BY <3>2 DEF ClaimInv, Settled, FreshClaim
      <4>2. claim' # claim => pc[c] = "claim"
        BY <2>10 DEF DbError, At, Marker
      <4>3. CASE pc[c] = "claim"
        <5>1. Sound' = {} /\ \A d \in Creator : ~ Holding(d)'
          BY <2>10, <4>1, <4>3 DEF DbError, At, Goto, People, Sound
        <5> QED BY <5>1 DEF ClaimInv, OneHolder, FreshClaim, OneSound, Settled
      <4> QED BY <3>1, <4>2, <4>3
    <3> QED BY <2>10, <3>1, <3>2 DEF DbError, Marker
  <2>11. CASE Crash(c)
    BY <2>11, NothingGained DEF Crash, Goto, Marker, People
  <2> QED BY <1>1, <2>1, <2>2, <2>3, <2>4, <2>5, <2>6, <2>7, <2>8, <2>9, <2>10, <2>11 DEF CreatorStep
<1>2. CASE SetupTick
  BY <1>2, NothingGained DEF SetupTick, Marker, People
<1>3. CASE UNCHANGED setupVars
  BY <1>3, NothingGained DEF setupVars
<1> QED BY <1>1, <1>2, <1>3 DEF SetupNext

(* A claim that a creator meets when it is about to claim was not stale for *)
(* it when it began.                                                        *)
MetFresh == \A c \in Creator : pc[c] = "claim" /\ claim # Free => began[c] + Skew[c] <= claim + Stale

LEMMA MetStep == ASSUME SlowEnough, SetupTypeOK, SetupTypeOK', InTime, MetFresh, [SetupNext]_setupVars PROVE MetFresh'
<1> USE DEF SetupTypeOK, MetFresh
<1>1. ASSUME UNCHANGED <<claim, began>>, \A c \in Creator : pc'[c] = "claim" => pc[c] = "claim" PROVE MetFresh'
  BY <1>1
<1>2. ASSUME NEW c \in Creator, CreatorStep(c) PROVE MetFresh'
  <2>1. CASE Boot(c)
    BY <2>1 DEF Boot, Goto, Marker
  <2>2. CASE ExpireClaim(c)
    <3> SUFFICES ASSUME NEW d \in Creator, pc'[d] = "claim", claim' # Free PROVE began'[d] + Skew[d] <= claim' + Stale
      OBVIOUS
    <3>1. claim' = claim /\ claim # Free /\ began' = began /\ ~ claim < Clock(c) - Stale
      BY <2>2 DEF ExpireClaim, At
    <3>2. CASE d = c
      <4>1. began[c] <= now
        BY <2>2 DEF ExpireClaim, At, InTime, Live
      <4> QED BY <3>1, <3>2, <4>1, SetupAssumption DEF Clock, Free
    <3>3. CASE d # c
      BY <2>2, <3>1, <3>3 DEF ExpireClaim, Goto
    <3> QED BY <3>2, <3>3
  <2>3. CASE Claim(c) \/ DbError(c)
    <3>1. CASE UNCHANGED claim
      BY <1>1, <2>3, <3>1 DEF Claim, DbError, At, Goto
    <3>2. CASE claim' = Clock(c) /\ pc[c] = "claim"
      <4> SUFFICES ASSUME NEW d \in Creator, pc'[d] = "claim" PROVE began'[d] + Skew[d] <= claim' + Stale
        OBVIOUS
      <4>1. pc[d] = "claim" /\ began' = began
        BY <2>3 DEF Claim, DbError, At, Goto
      <4>2. began[d] <= now /\ 2 * Span + Skew[d] - Skew[c] <= Stale
        BY <4>1 DEF InTime, Live, SlowEnough
      <4> QED BY <3>2, <4>1, <4>2, SetupAssumption DEF Clock, Free
    <3> QED BY <2>3, <3>1, <3>2 DEF Claim, DbError, At, Marker
  <2>4. CASE Release(c)
    BY <1>1, <2>4 DEF Release, At, Goto
  <2>5. CASE ~ (Boot(c) \/ ExpireClaim(c) \/ Claim(c) \/ DbError(c) \/ Release(c))
    BY <1>1, <1>2, <2>5 DEF CreatorStep, Status, Count, CreateUser, LinkAccount, SyncUser, SetRoles, SyncPassword, CreationFails, Crash, At, Then, Goto, Marker
  <2> QED BY <2>1, <2>2, <2>3, <2>4, <2>5
<1>3. CASE SetupTick \/ UNCHANGED setupVars
  BY <1>1, <1>3 DEF SetupTick, setupVars, Marker
<1> QED BY <1>2, <1>3 DEF SetupNext

(* Whoever is refused is refused by a claim that met it fresh, and time has *)
(* gone on by a span at most.                                               *)
LEMMA RefusedStep ==
    ASSUME SetupTypeOK, InTime, MetFresh, [SetupNext]_setupVars, NEW c \in Creator, pc[c] = "claim", pc'[c] = "refused"
    PROVE  Clock(c) - claim <= Stale + Span
<1>1. Claim(c)
  BY DEF SetupTypeOK, SetupNext, SetupTick, setupVars, CreatorStep, Boot, Status, Count, ExpireClaim, Claim, CreateUser, LinkAccount, SyncUser, SetRoles, SyncPassword,
         CreationFails, Release, DbError, Crash, At, Then, Goto, Marker, People
<1>2. claim # Free /\ now <= began[c] + Span
  BY <1>1 DEF Claim, At, Goto, SetupTypeOK, InTime, Live
<1>3. began[c] + Skew[c] <= claim + Stale
  BY <1>2 DEF MetFresh
<1> QED BY <1>2, <1>3, SetupAssumption DEF SetupTypeOK, Clock, Free

(* What OneSound says of the admins nobody missed is OneAdmin.              *)
LEMMA OneSoundSuffices == OneSound => OneAdmin
BY DEF OneSound, Sound, OneAdmin

(* Types, and that an admin can sign in: the account and the user are there *)
(* before the role is set.                                                  *)
THEOREM SetupTypeCorrect == SetupSpec => []SetupTypeOK
BY SetupTypes, PTL

(* Callers that raced through the user count do not both get an admin: the  *)
(* claim of createInitialAdmin, as long as two creations and the difference *)
(* of two clocks fit in the life of a claim.                                *)
THEOREM OneAdminCorrect == ASSUME SlowEnough PROVE SetupSpec => []OneAdmin
<1>1. SetupInit => ClaimInv
  BY DEF SetupInit, ClaimInv, OneHolder, FreshClaim, OneSound, Settled, Sound, Holding, Counted, Creating
<1>2. SetupTypeOK /\ SetupTypeOK' /\ DoneSoFar /\ InTime /\ ClaimInv /\ [SetupNext]_setupVars => ClaimInv'
  BY ClaimStep
<1>3. ClaimInv => OneAdmin
  BY OneSoundSuffices DEF ClaimInv
<1> QED BY <1>1, <1>2, <1>3, SetupTypes, SetupTime, PTL DEF SetupSpec

(* A claim whose creator died does not block the setup: nobody is refused   *)
(* by one that is older than its life and the longest creation.             *)
THEOREM RefusedCorrect == ASSUME SlowEnough PROVE SetupSpec => RefusedByFreshClaim
<1>1. SetupInit => MetFresh
  BY DEF SetupInit, MetFresh
<1>2. SetupTypeOK /\ SetupTypeOK' /\ InTime /\ MetFresh /\ [SetupNext]_setupVars => MetFresh'
  BY MetStep
<1>3. SetupTypeOK /\ InTime /\ MetFresh /\ [SetupNext]_setupVars
        => [\A c \in Creator : pc[c] = "claim" /\ pc'[c] = "refused" => Clock(c) - claim <= Stale + Span]_setupVars
  BY RefusedStep
<1> QED BY <1>1, <1>2, <1>3, SetupTypes, SetupTime, PTL DEF SetupSpec, RefusedByFreshClaim
=============================================================================
