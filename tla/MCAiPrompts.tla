---------------------------- MODULE MCAiPrompts ----------------------------
(* Two prompts of one user, whose budget is two tokens, in a tenant whose   *)
(* budget is one prompt.                                                    *)
EXTENDS AiPrompts, TLC

CONSTANTS edit, editTenant, remove, ask, unknown, user

UserOfAll  == [p \in Prompt |-> user]
Limits     == [s \in Scope |-> [q \in Quantity |-> IF s = user /\ q = "tokens" THEN 2 ELSE None]]
Defaults   == [s \in Scope |-> [q \in Quantity |->
                  IF <<s, q>> \in {<<user, "tokens">>, <<Tenant, "prompts">>} THEN 1 ELSE 0]]
Tools      == (edit :> "edit") @@ (editTenant :> "edit") @@ (remove :> "remove")
              @@ (ask :> "ask") @@ (unknown :> "unknown")
SomeCalls  == {{}, {editTenant}, {editTenant, remove}, {ask, unknown}}

Sent(mode, confirm, required, remember) ==
    [mode |-> mode, confirm |-> confirm, required |-> required, remember |-> remember]
SomeInputs == {Sent("auto", TRUE, TRUE, user), Sent("auto", FALSE, FALSE, None),
               Sent("plan", FALSE, TRUE, None), Sent("plan", TRUE, TRUE, None)}

(* One setting at a time, which changes while a prompt is still to come: a  *)
(* policy for one call, whose deny is beside an ask, or a lost permission.  *)
OneSetting(r, f) ==
    /\ \A c \in Call : r[c] # {} => c = editTenant /\ "ask" \in r[c] /\ f = {}
    /\ f \subseteq {remove}

SettingsKept == <<rules', forbidden'>> # <<rules, forbidden>> => \E p \in Prompt : talks[p].at = "idle"

MCSpec == /\ PromptInit /\ OneSetting(rules, forbidden)
          /\ [][PromptNext /\ OneSetting(rules', forbidden') /\ SettingsKept]_promptVars

Symmetry == Permutations(Prompt)
=============================================================================
