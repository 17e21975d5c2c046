-------------------------- MODULE MigrationLedger --------------------------
(***************************************************************************)
(* What the migration runner promises a database shared by many replicas:  *)
(* a ledger of migrations, written by one migration at a time.  A          *)
(* migration in the ledger is never applied again; only the last one is    *)
(* rolled back; one that was begun is either entered, once, or abandoned.  *)
(***************************************************************************)
EXTENDS Integers, Sequences, SequencesExt

CONSTANTS
    Id,       \* the migrations
    Ledger0,  \* what is recorded at the beginning
    None      \* no migration is under way

VARIABLES
    ledger,   \* ids recorded so far, in order
    applied,  \* how often each migration is in effect
    current,  \* the migration that took effect and is not entered yet
    back      \* it is being rolled back

Init ==
    /\ ledger = Ledger0
    /\ applied = [m \in Id |-> 0]
    /\ current = None
    /\ back = FALSE

(* A migration runs, and keeps the ledger busy or throws half way. *)
TakeEffect(m, by) ==
    /\ current = None
    /\ applied' = [applied EXCEPT ![m] = @ + by]
    /\ \/ current' = m /\ back' = (by = -1)
       \/ UNCHANGED <<current, back>>
    /\ UNCHANGED ledger

Apply(m)    == m \notin ToSet(ledger) /\ TakeEffect(m, 1)
RollBack(m) == ledger # <<>> /\ m = Last(ledger) /\ TakeEffect(m, -1)

Free == current' = None /\ back' = FALSE /\ UNCHANGED applied

Enter ==
    /\ current # None
    /\ ledger' = IF back THEN Front(ledger) ELSE Append(ledger, current)
    /\ Free

Abandon ==
    /\ current # None
    /\ UNCHANGED ledger
    /\ Free

Next == Enter \/ Abandon \/ \E m \in Id : Apply(m) \/ RollBack(m)

Spec == Init /\ [][Next]_<<ledger, applied, current, back>>
=============================================================================
