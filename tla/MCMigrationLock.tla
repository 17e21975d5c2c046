-------------------------- MODULE MCMigrationLock --------------------------
(* Two runs share a clock that is the same, or one is ahead by a tick. *)
EXTENDS MigrationLock

CONSTANTS r1, r2, r3

NoSkew  == [r \in Run |-> 0]
OneSkew == [r \in Run |-> IF r = r1 THEN 1 ELSE 0]
=============================================================================
