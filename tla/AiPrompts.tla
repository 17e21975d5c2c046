----------------------------- MODULE AiPrompts -----------------------------
(***************************************************************************)
(* Prompts of the AI assistant and the gates that a tool call of the model *)
(* passes before it is run (src/core/modules/ai/services/                  *)
(* core-ai.service.ts): in auto mode the scoped policies, the confirmation *)
(* and the grants that spare it, in plan mode the authorisation of every   *)
(* step and the confirmation; in both the hooks.                           *)
(*                                                                         *)
(* A call is a tool with arguments.  Policies, grants and what a user may  *)
(* do are read from the database, and change while prompts run.            *)
(***************************************************************************)
EXTENDS AiBudget

CONSTANTS
    Call, ToolOf,
    Offered,        \* tools the roles of the user, and the agent mode, allow
    Mutating, Destructive,
    Question,       \* ask_user_question
    Inputs,         \* mode, confirm, requireConfirmation and rememberDecision
    Batches         \* what the model may ask for at a time

Tool == {ToolOf[c] : c \in Call}
Decision == {"deny", "ask"}

ASSUME PromptAssumption == /\ Offered \subseteq Tool /\ Mutating \cup Destructive \subseteq Offered
                           /\ Question \notin Mutating \cup Destructive
                           /\ Batches \subseteq SUBSET Call /\ {} \in Batches
                           /\ MaxChats >= 2 /\ Inputs # {}
                           /\ Inputs \subseteq [mode : {"auto", "plan"}, confirm : BOOLEAN,
                                                required : BOOLEAN, remember : Scope \cup {None}]

VARIABLES
    rules,      \* for each call, the actions of the policy rules it matches
    forbidden,  \* calls that authorize() of their tool refuses
    grants,     \* [tool, scope]
    steps,      \* what each prompt was sent with, and how far it is
    story,      \* history of each prompt that runs
    approved    \* history: grants that a confirmed prompt asked for

promptVars == <<usage, talks, crowd, rules, forbidden, grants, steps, story, approved>>

Places == {"none", "asking", "judging", "gating", "authorizing", "running", "closing"}

NoStep  == [input |-> CHOOSE i \in Inputs : TRUE, at |-> "none", calls |-> {}, asked |-> {}]
NoStory == [done |-> {}, excused |-> {}, vetoed |-> {}, law |-> [c \in Call |-> {}]]

PromptInit ==
    /\ BudgetInit
    /\ rules \in [Call -> SUBSET Decision]
    /\ forbidden \in SUBSET Call
    /\ grants = {}
    /\ steps = [p \in Prompt |-> NoStep]
    /\ story = [p \in Prompt |-> NoStory]
    /\ approved = {}

At(p, place) == talks[p].at = "talking" /\ steps[p].at = place
Is(p, mode)  == steps[p].input.mode = mode
Known(calls) == {c \in calls : ToolOf[c] \in Offered}

Go(p, place, calls) == steps' = [steps EXCEPT ![p].at = place, ![p].calls = calls, ![p].asked = {}]
End(p) == steps' = [steps EXCEPT ![p] = NoStep] /\ story' = [story EXCEPT ![p] = NoStory]
Settings == UNCHANGED <<rules, forbidden, grants, approved>>

-----------------------------------------------------------------------------
(* prepareRun, up to the budget *)
prompt(p) ==
    /\ BeginTalk(p)
    /\ \E i \in Inputs : steps' = [steps EXCEPT ![p].input = i]
    /\ story' = [story EXCEPT ![p].law = rules]
    /\ Settings

assertWithinBudget(p) ==
    /\ assertUser(p) \/ assertTenant(p)
    /\ CASE talks'[p].at = "tenant"  -> UNCHANGED <<steps, story>>
         [] talks'[p].at = "talking" -> Go(p, "asking", {}) /\ UNCHANGED story
         [] talks'[p].at = "refused" -> End(p)
    /\ Settings

(* An answer of the model.  In auto mode it is final, or asks for calls, or *)
(* is told to say something final; a plan is the first of two.              *)
chat(p) ==
    /\ At(p, "asking") /\ Talk(p)
    /\ CASE Is(p, "auto") ->
                 \E batch \in Batches :
                    IF batch # {} THEN Go(p, "judging", batch)
                    ELSE Go(p, "closing", {}) \/ (talks'[p].used < MaxChats /\ Go(p, "asking", {}))
         [] Is(p, "plan") /\ talks[p].used = 0 -> \E batch \in Batches : Go(p, "authorizing", batch)
         [] Is(p, "plan") /\ talks[p].used > 0 -> Go(p, "closing", {})
    /\ Settings /\ UNCHANGED story

(* The provider throws, or a tool's authorize() does: nothing is recorded. *)
Fail(p) ==
    /\ At(p, "asking") \/ At(p, "authorizing")
    /\ DropTalk(p) /\ End(p)
    /\ Settings

-----------------------------------------------------------------------------
(* CoreAiToolPolicyService.evaluate: a deny anywhere wins. *)
evaluate(c) == IF "deny" \in rules[c] THEN "deny" ELSE IF "ask" \in rules[c] THEN "ask" ELSE "allow"

(* A policy that cannot be read does not hold.  One call denied ends the    *)
(* prompt; one asked for asks for every call of its tool.                   *)
evaluateToolPolicies(p) ==
    /\ At(p, "judging")
    /\ \E failed \in SUBSET Known(steps[p].calls) :
          LET judged == Known(steps[p].calls) \ failed
              denied == {c \in judged : evaluate(c) = "deny"}
              asked  == {c \in judged : evaluate(c) = "ask"}
          IN  /\ story' = [story EXCEPT ![p].excused = @ \cup {c \in failed : story[p].law[c] # {}}]
              /\ IF denied # {} THEN Go(p, "closing", {})
                 ELSE steps' = [steps EXCEPT ![p].at = "gating", ![p].asked = {ToolOf[c] : c \in asked}]
    /\ Settings /\ UNCHANGED budgetVars

confirmationRequiredFor(tool, input) ==
    tool \in Destructive \/ (tool \in Mutating /\ input.required)

(* filterByGrants and findActiveGrant, which fails as if there were none *)
Spared(p, c) ==
    /\ ToolOf[c] \notin Destructive
    /\ \E g \in grants : g.tool = ToolOf[c] /\ g.scope \in ScopesOf(p)

(* Mutant: one call that is spared spares them all. *)
GateSome(p) ==
    /\ At(p, "gating")
    /\ LET blocked == {c \in Known(steps[p].calls) :
                          /\ \/ ToolOf[c] \in steps[p].asked
                             \/ confirmationRequiredFor(ToolOf[c], steps[p].input)
                          /\ ~ steps[p].input.confirm}
       IN  \/ (blocked = {} \/ \E c \in blocked : Spared(p, c)) /\ Go(p, "running", steps[p].calls)
           \/ blocked # {} /\ Go(p, "closing", {})
    /\ Settings /\ UNCHANGED <<budgetVars, story>>

(* One call that is blocked blocks them all. *)
Gate(p) ==
    /\ At(p, "gating")
    /\ LET blocked == {c \in Known(steps[p].calls) :
                          /\ \/ ToolOf[c] \in steps[p].asked
                             \/ confirmationRequiredFor(ToolOf[c], steps[p].input)
                          /\ ~ steps[p].input.confirm}
       IN  \/ (\A c \in blocked : Spared(p, c)) /\ Go(p, "running", steps[p].calls)
           \/ blocked # {} /\ Go(p, "closing", {})
    /\ Settings /\ UNCHANGED <<budgetVars, story>>

(* Plan mode: all steps are authorised before the first is run, and the     *)
(* confirmation of the whole is asked for, of which nothing is recorded.    *)
authorizeCall(c) == ToolOf[c] \in Offered /\ c \notin forbidden

Authorize(p) ==
    /\ At(p, "authorizing")
    /\ LET calls   == steps[p].calls
           refused == {c \in calls : ~ authorizeCall(c)}
           pending == {c \in calls : confirmationRequiredFor(ToolOf[c], steps[p].input)}
       IN  IF refused = {} /\ pending # {} /\ ~ steps[p].input.confirm
           THEN End(p) /\ DropTalk(p)
           ELSE /\ story' = [story EXCEPT ![p].vetoed = refused]
                /\ IF refused # {} THEN Go(p, "closing", {})
                   ELSE Go(p, IF calls = {} THEN "asking" ELSE "running", calls)
                /\ UNCHANGED budgetVars
    /\ Settings

-----------------------------------------------------------------------------
(* Mutant: the model is asked again however often it was. *)
AskForever(p, left) == IF left # {} THEN "running" ELSE "asking"

(* Where a prompt goes on when these calls are left *)
After(p, left) ==
    IF left # {} THEN "running"
    ELSE IF Is(p, "plan") \/ talks[p].used < MaxChats THEN "asking" ELSE "closing"

(* A call that is unknown, or that a hook blocks, has a failure as result. *)
Skip(p, c) ==
    /\ At(p, "running") /\ c \in steps[p].calls
    /\ Go(p, After(p, steps[p].calls \ {c}), steps[p].calls \ {c})
    /\ Settings /\ UNCHANGED <<budgetVars, story>>

(* persistToolGrantIfRequested *)
Remembered(p, tool) ==
    /\ Is(p, "auto") /\ steps[p].input.confirm /\ steps[p].input.remember # None
    /\ tool \in Mutating \ Destructive

(* The hooks may put other arguments in place of those that passed the      *)
(* gates.  A question that was asked ends the batch, in auto mode.          *)
executeToolCall(p, c) ==
    /\ At(p, "running") /\ c \in Known(steps[p].calls)
    /\ \E run \in {d \in Call : ToolOf[d] = ToolOf[c]}, success \in BOOLEAN :
          LET tool  == ToolOf[c]
              ended == tool = Question /\ success /\ Is(p, "auto")
              left  == IF ended THEN {} ELSE steps[p].calls \ {c}
              grant == [tool |-> tool, scope |-> steps[p].input.remember]
          IN  /\ story' = [story EXCEPT ![p].done = @ \cup {run},
                                        ![p].excused = IF run = c \/ story[p].law[run] = {} THEN @ ELSE @ \cup {run}]
              /\ Go(p, IF ended THEN "closing" ELSE After(p, left), left)
              /\ IF success /\ Remembered(p, tool)
                 THEN grants' \in {grants, grants \cup {grant}} /\ approved' = approved \cup {grant}
                 ELSE UNCHANGED <<grants, approved>>
    /\ UNCHANGED <<budgetVars, rules, forbidden>>

(* audit, whose failure is only logged *)
audit(p) ==
    /\ At(p, "closing")
    /\ RecordTalk(p) \/ DropTalk(p)
    /\ End(p)
    /\ Settings

-----------------------------------------------------------------------------
(* An administrator changes a policy; a rule that is gone binds nobody. *)
ChangeRule(c) ==
    /\ \E decisions \in SUBSET Decision : rules' = [rules EXCEPT ![c] = decisions]
    /\ story' = [p \in Prompt |-> [story[p] EXCEPT !.law[c] = @ \cap rules'[c]]]
    /\ UNCHANGED <<budgetVars, forbidden, grants, steps, approved>>

(* What a user may do changes. *)
ChangeAccess(c) ==
    /\ forbidden' = IF c \in forbidden THEN forbidden \ {c} ELSE forbidden \cup {c}
    /\ UNCHANGED <<budgetVars, rules, grants, steps, story, approved>>

(* A grant expires, or is disabled. *)
Revoke(g) ==
    /\ g \in grants /\ grants' = grants \ {g}
    /\ UNCHANGED <<budgetVars, rules, forbidden, steps, story, approved>>

PeriodEnds ==
    NewPeriod /\ UNCHANGED <<rules, forbidden, grants, steps, story, approved>>

PromptStep(p) ==
    \/ prompt(p) \/ assertWithinBudget(p) \/ chat(p) \/ Fail(p)
    \/ evaluateToolPolicies(p) \/ Gate(p) \/ Authorize(p) \/ audit(p)
    \/ \E c \in Call : Skip(p, c) \/ executeToolCall(p, c)

PromptNext ==
    \/ \E p \in Prompt : PromptStep(p)
    \/ \E c \in Call : ChangeRule(c) \/ ChangeAccess(c)
    \/ \E g \in grants : Revoke(g)
    \/ PeriodEnds

PromptSpec == PromptInit /\ [][PromptNext]_promptVars

-----------------------------------------------------------------------------
PromptTypeOK ==
    /\ BudgetTypeOK
    /\ rules \in [Call -> SUBSET Decision] /\ forbidden \subseteq Call
    /\ grants \subseteq [tool : Tool, scope : Scope] /\ approved \subseteq [tool : Tool, scope : Scope]
    /\ steps \in [Prompt -> [input : Inputs, at : Places, calls : SUBSET Call, asked : SUBSET Tool]]
    /\ story \in [Prompt -> [done : SUBSET Call, excused : SUBSET Call, vetoed : SUBSET Call,
                             law : [Call -> SUBSET Decision]]]

Bound(p, decision) == {c \in story[p].done \ story[p].excused : decision \in story[p].law[c]}

(* "`deny` aborts the call": in auto mode a call that a rule denies, from   *)
(* before the prompt was sent, is run only if the rules could not be read,  *)
(* or a hook put its arguments in place of others.                          *)
DenyHolds == \A p \in Prompt : Is(p, "auto") => Bound(p, "deny") = {}

(* "The orchestrator consults this service for every tool call." *)
DenyAborts == \A p \in Prompt : Bound(p, "deny") = {}

(* "`destructive` tools always require confirmation", and what else asks    *)
(* for one is run by a prompt nobody confirmed only if an earlier one that  *)
(* was confirmed asked to remember it, for this user or tenant.             *)
ConfirmedOnly ==
    \A p \in Prompt : ~ steps[p].input.confirm =>
        \A c \in story[p].done :
            \/ ~ confirmationRequiredFor(ToolOf[c], steps[p].input) /\ (Is(p, "plan") \/ c \notin Bound(p, "ask"))
            \/ /\ ToolOf[c] \notin Destructive /\ Is(p, "auto")
               /\ \E s \in ScopesOf(p) : [tool |-> ToolOf[c], scope |-> s] \in approved

(* "If ANY step is not permitted, nothing executes", whatever happens to    *)
(* the permissions meanwhile.                                               *)
AllOrNothing == \A p \in Prompt : Is(p, "plan") /\ story[p].vetoed # {} => story[p].done = {}

(* What the gates before a tool are for, in either mode: nothing is run     *)
(* that a rule, a missing confirmation or the permissions of any step of a  *)
(* plan stood against.                                                      *)
GatesHold == DenyHolds /\ ConfirmedOnly /\ AllOrNothing
=============================================================================
