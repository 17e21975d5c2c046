------------------------- MODULE MCLegacySessions -------------------------
(* Two devices, one of them signed in, and three calls; the temporary token *)
(* is fresh for one tick.  Calls are alike.                                *)
EXTENDS LegacySessions, TLC

Calls == Permutations(Call)
=============================================================================
