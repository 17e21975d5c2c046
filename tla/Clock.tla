------------------------------- MODULE Clock -------------------------------
(* The time that the replicas of a deployment go by.  Their clocks agree up *)
(* to the delays and differences each module names.                        *)
EXTENDS Integers

CONSTANT MaxTime   \* bound: the clock stops here

ASSUME TimeAssumption == MaxTime \in Nat

VARIABLE now
=============================================================================
