------------------------- MODULE MCMigrationRunner -------------------------
(* Replicas with images of different releases: r1 runs ts-node sources, r2 *)
(* a compiled image in which a source was copied beside its output.        *)
EXTENDS MigrationRunner, TLC

CONSTANTS r1, r2, r3

NoSkew == [r \in Run |-> 0]
StrictR1 == [r \in Run |-> r = r1]

(* r3 rolls back. *)
Kinds == [r \in Run |-> IF r = r3 THEN "down" ELSE "up"]

ts(i) == [id |-> i, ext |-> "ts", up |-> TRUE, down |-> TRUE]
js(i) == [id |-> i, ext |-> "js", up |-> TRUE, down |-> TRUE]
Images == [r \in Run |-> IF r = r1 THEN {ts(1), ts(2)}
                         ELSE {js(1), ts(2), [js(2) EXCEPT !.up = FALSE], js(3), ts(3)}]

FirstDone == <<[id |-> 1, ext |-> "ts"]>>
=============================================================================
