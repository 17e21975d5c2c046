--------------------------- MODULE MCSystemSetup ---------------------------
(* Two replicas that boot with the same address and a caller of the public *)
(* endpoint with another one.                                              *)
EXTENDS SystemSetup

CONSTANTS boot1, boot2, http

Addresses == [c \in Creator |-> IF c = http THEN "visitor" ELSE "admin"]
Skews     == [c \in Creator |-> IF c = boot2 THEN 1 ELSE 0]
=============================================================================
