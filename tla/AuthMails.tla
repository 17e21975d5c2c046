----------------------------- MODULE AuthMails -----------------------------
(***************************************************************************)
(* The cooldown of verification and password-reset mails (src/core/modules/ *)
(* better-auth/core-better-auth-email-verification.service.ts): a slot per  *)
(* address and kind of mail, in Redis, or in the memory of the replica when *)
(* Redis does not answer.  A mail that could not be sent gives its slot     *)
(* back, however long that took to find out.                                *)
(***************************************************************************)
EXTENDS Replicas

CONSTANTS
    Recipient,  \* addresses, by kind of mail
    Mailing,    \* requests that send a mail
    Cooldown,   \* resendCooldownSeconds
    MaxSends    \* MAX_SEND_TIMES_ENTRIES

Nobody == "nobody"
Redis  == "redis"

ASSUME MailAssumption == /\ {Cooldown, MaxSends} \subseteq Nat \ {0}
                         /\ Nobody \notin Mailing /\ Redis \notin Replica

VARIABLES
    slots,          \* in Redis: the token that holds a recipient, until when
    lastSendTimes,  \* of each replica, in the order of placed: since when, and for whom
    mails,          \* what each request is doing
    lastMail,       \* history: when the slot of the last mail was granted, by door
    early,          \* history: where two mails were let pass within a cooldown
    torn            \* history: where a slot was lost, or seemed to be unused

mailVars == <<slots, lastSendTimes, mails, lastMail, early, torn>>

Door    == Replica \cup {Redis}   \* what a slot was granted by
NoSlot    == [token |-> Nobody, until |-> 0]
NoSend  == [by |-> Nobody, since |-> 0, placed |-> 0]
NoMail  == [at |-> "idle", to |-> Nobody, rep |-> Nobody, door |-> Redis, granted |-> 0]
Stages  == {"idle", "done", "fallback", "sending", "releasing", "clearing"}
Never   == 0 - Cooldown

AuthMailsInit ==
    /\ now = 0
    /\ slots = [k \in Recipient |-> NoSlot]
    /\ lastSendTimes = [rep \in Replica |-> [k \in Recipient |-> NoSend]]
    /\ mails = [m \in Mailing |-> NoMail]
    /\ lastMail = [k \in Recipient |-> [d \in Door |-> Never]]
    /\ early = {} /\ torn = {}

In(m, stage) == mails[m].at = stage
Pass(m, stage) == mails' = [mails EXCEPT ![m].at = stage]
MailDone(m) == mails' = [mails EXCEPT ![m] = [NoMail EXCEPT !.at = "done"]]
Grant(m, door) == mails' = [mails EXCEPT ![m].at = "sending", ![m].door = door, ![m].granted = now]

Vacant(k) == slots[k].until <= now
SentTo(rep) == {k \in Recipient : lastSendTimes[rep][k].by # Nobody}
isInCooldown(rep, k) == k \in SentTo(rep) /\ now - lastSendTimes[rep][k].since < Cooldown
Tracked(rep) == {k \in Recipient : isInCooldown(rep, k)}

-----------------------------------------------------------------------------
(* SET NX PX *)
acquireSendSlot(m, rep, k) ==
    /\ In(m, "idle")
    /\ LET asked == [NoMail EXCEPT !.to = k, !.rep = rep, !.at = "sending", !.granted = now]
       IN  \/ /\ Vacant(k)
              /\ slots' = [slots EXCEPT ![k] = [token |-> m, until |-> now + Cooldown]]
              /\ mails' = [mails EXCEPT ![m] = asked]
           \/ \* no answer, whether or not the key was set
              /\ slots' \in {slots, IF Vacant(k) THEN [slots EXCEPT ![k] = [token |-> m, until |-> now + Cooldown]]
                                    ELSE slots}
              /\ mails' = [mails EXCEPT ![m] = [asked EXCEPT !.at = "fallback"]]
    /\ UNCHANGED <<lastSendTimes, lastMail, early, torn>>

(* trackSend, which forgets the first entry of a full table; an entry that   *)
(* is written again keeps its place.                                        *)
Oldest(rep) == {k \in SentTo(rep) : \A j \in SentTo(rep) :
                    lastSendTimes[rep][k].placed <= lastSendTimes[rep][j].placed}

trackSend(m) ==
    LET rep == mails[m].rep  k == mails[m].to  known == k \in SentTo(rep)
        full == Cardinality(SentTo(rep)) >= MaxSends
    IN  \E out \in IF ~ known /\ full THEN Oldest(rep) ELSE {k} :
           /\ lastSendTimes' = [lastSendTimes EXCEPT ![rep][out] = NoSend,
                 ![rep][k] = [by |-> m, since |-> now,
                              placed |-> IF known THEN lastSendTimes[rep][k].placed ELSE now]]
           /\ torn' = IF out # k /\ isInCooldown(rep, out) THEN torn \cup {<<out, rep>>} ELSE torn

FallBack(m) ==
    /\ In(m, "fallback")
    /\ IF isInCooldown(mails[m].rep, mails[m].to)
       THEN MailDone(m) /\ UNCHANGED <<lastSendTimes, torn>>
       ELSE trackSend(m) /\ Grant(m, mails[m].rep)
    /\ UNCHANGED <<slots, lastMail, early>>

-----------------------------------------------------------------------------
(* Brevo or SMTP took the mail. *)
Mailed(m) ==
    LET k == mails[m].to  d == mails[m].door
    IN  /\ lastMail' = [lastMail EXCEPT ![k][d] = mails[m].granted]
        /\ early' = IF mails[m].granted - lastMail[k][d] \in (1 - Cooldown)..(Cooldown - 1)
                    THEN early \cup {<<k, d>>} ELSE early

Deliver(m) ==
    /\ In(m, "sending")
    /\ Mailed(m)
    /\ MailDone(m)
    /\ UNCHANGED <<slots, lastSendTimes, torn>>

(* Neither did, or the one that did was not heard. *)
SendFails(m) ==
    /\ In(m, "sending")
    /\ Pass(m, IF mails[m].door = Redis THEN "releasing" ELSE "clearing")
    /\ \/ UNCHANGED <<lastMail, early, torn>>
       \/ /\ Mailed(m)
          /\ torn' = torn \cup {<<mails[m].to, mails[m].door>>}
    /\ UNCHANGED <<slots, lastSendTimes>>

(* Mutant: a bare DEL. *)
releaseAnySlot(m) ==
    /\ In(m, "releasing")
    /\ slots' \in {slots, [slots EXCEPT ![mails[m].to] = NoSlot]}
    /\ Pass(m, "clearing")
    /\ UNCHANGED <<lastSendTimes, lastMail, early, torn>>

(* The key goes if it holds the token, errors are          *)
(* swallowed; then the entry of the replica goes, whosever it is.           *)
releaseSendSlot(m) ==
    /\ In(m, "releasing")
    /\ slots' \in {slots, IF slots[mails[m].to].token = m /\ ~ Vacant(mails[m].to)
                          THEN [slots EXCEPT ![mails[m].to] = NoSlot] ELSE slots}
    /\ Pass(m, "clearing")
    /\ UNCHANGED <<lastSendTimes, lastMail, early, torn>>

clearLocalSlot(m) ==
    LET rep == mails[m].rep  k == mails[m].to
    IN  /\ In(m, "clearing")
        /\ lastSendTimes' = [lastSendTimes EXCEPT ![rep][k] = NoSend]
        /\ torn' = IF isInCooldown(rep, k) /\ lastSendTimes[rep][k].by # m
                   THEN torn \cup {<<k, rep>>} ELSE torn
        /\ MailDone(m)
        /\ UNCHANGED <<slots, lastMail, early>>

(* The timer of an entry; whoever writes or removes it anew clears the timer. *)
SendTimer(rep, k) ==
    /\ k \in SentTo(rep) \ Tracked(rep)
    /\ lastSendTimes' = [lastSendTimes EXCEPT ![rep][k] = NoSend]
    /\ UNCHANGED <<slots, mails, lastMail, early, torn>>

(* A replica starts again, and has forgotten whom it has sent mails to.     *)
ForgetSends(rep) ==
    /\ mails' = [m \in Mailing |-> IF mails[m].rep = rep THEN [NoMail EXCEPT !.at = "done"] ELSE mails[m]]
    /\ lastSendTimes' = [lastSendTimes EXCEPT ![rep] = [k \in Recipient |-> NoSend]]
    /\ torn' = torn \cup (Tracked(rep) \X {rep})
    /\ <<mails, lastSendTimes>> # <<mails', lastSendTimes'>>
    /\ UNCHANGED <<slots, lastMail, early>>

MailTick == now < MaxTime /\ now' = now + 1 /\ UNCHANGED mailVars

AuthMailsNext ==
    \/ MailTick
    \/ /\ \/ \E m \in Mailing :
               \/ \E rep \in Replica, k \in Recipient : acquireSendSlot(m, rep, k)
               \/ FallBack(m) \/ Deliver(m) \/ SendFails(m) \/ releaseSendSlot(m) \/ clearLocalSlot(m)
          \/ \E rep \in Replica : ForgetSends(rep) \/ \E k \in Recipient : SendTimer(rep, k)
       /\ UNCHANGED now

AuthMailsSpec == AuthMailsInit /\ [][AuthMailsNext]_<<now, mailVars>>

-----------------------------------------------------------------------------
MailTypeOK ==
    /\ slots \in [Recipient -> [token : Mailing \cup {Nobody}, until : Nat]]
    /\ lastSendTimes \in [Replica -> [Recipient -> [by : Mailing \cup {Nobody}, since : Nat, placed : Nat]]]
    /\ mails \in [Mailing -> [at : Stages, to : Recipient \cup {Nobody}, rep : Replica \cup {Nobody},
                              door : Door, granted : 0..now]]
    /\ lastMail \in [Recipient -> [Door -> Int]]
    /\ early \cup torn \subseteq Recipient \X Door
    /\ \A rep \in Replica : Cardinality(SentTo(rep)) <= MaxSends

(* "Two replicas handling concurrent resend requests cannot both pass the   *)
(* cooldown", and a slow failure does not end somebody else's: two mails to *)
(* one recipient that the same door let pass were let pass a cooldown       *)
(* apart, unless the first seemed not to be sent, or the memory of the      *)
(* replica lost it: by a restart, a full table, or the release of another.  *)
MailsApart == early \subseteq torn
=============================================================================
