------------------------------ MODULE Replicas ------------------------------
(* What the services that share a deployment have in common: its replicas   *)
(* and the time.                                                            *)
EXTENDS Clock, FiniteSets, Sequences

CONSTANT Replica
=============================================================================
