------------------------------ MODULE AiBudget ------------------------------
(***************************************************************************)
(* Budgets of tokens and prompts of the AI assistant                       *)
(* (src/core/modules/ai/services/core-ai-budget.service.ts) against        *)
(* prompts that run side by side: a prompt reads the usage of its user and *)
(* of its tenant, talks to the model, and is recorded when it is through.  *)
(*                                                                         *)
(* These are the steps of a prompt as its budget sees them.  AiPrompts     *)
(* says when a prompt takes them, and what it does between them.           *)
(***************************************************************************)
EXTENDS Integers, FiniteSets

CONSTANTS
    Prompt,
    User, Tenant,   \* the tenant all of them work in
    UserOf,
    Override,       \* maxTokens and maxPrompts of the limits in the database, or None
    Default,        \* those of the configuration, for users and for the tenant
    MaxChats        \* ai.maxIterations, and two for a plan

Scope == User \cup {Tenant}
Quantity == {"tokens", "prompts"}
None  == -1

ASSUME BudgetAssumption == /\ UserOf \in [Prompt -> User] /\ Tenant \notin User
                           /\ Override \in [Scope -> [Quantity -> Nat \cup {None}]]
                           /\ Default \in [Scope -> [Quantity -> Nat \cup {None}]]
                           /\ MaxChats \in Nat \ {0} /\ IsFiniteSet(Prompt)

VARIABLES
    usage,   \* the interactions of the period and their tokens, for each scope
    talks,   \* where each prompt is, and the tokens it has used
    crowd    \* history: the most prompts of the period at a time, for each scope

budgetVars == <<usage, talks, crowd>>

Stages == {"idle", "user", "tenant", "talking", "over", "refused"}

ScopesOf(p) == {UserOf[p], Tenant}
InFlight(stages, s) == {p \in Prompt : s \in ScopesOf(p) /\ stages[p].at \in {"user", "tenant", "talking"}}
Crowded(stages) ==
    [s \in Scope |-> LET n == Cardinality(InFlight(stages, s)) IN IF n > crowd[s] THEN n ELSE crowd[s]]

BudgetInit ==
    /\ usage = [s \in Scope |-> [q \in Quantity |-> 0]]
    /\ talks = [p \in Prompt |-> [at |-> "idle", used |-> 0]]
    /\ crowd = [s \in Scope |-> 0]

-----------------------------------------------------------------------------
resolveLimit(s, q) == IF Override[s][q] # None THEN Override[s][q] ELSE Default[s][q]

(* A limit of zero is none. *)
finite(limit) == limit > 0

(* Mutant: a budget that is spent to the last token is not exceeded. *)
Overdrawn(s) == \E q \in Quantity : finite(resolveLimit(s, q)) /\ usage[s][q] > resolveLimit(s, q)

exceeded(s) == \E q \in Quantity : finite(resolveLimit(s, q)) /\ usage[s][q] >= resolveLimit(s, q)

Goes(p, stage, used) ==
    /\ talks' = [talks EXCEPT ![p] = [at |-> stage, used |-> used]]
    /\ crowd' = Crowded(talks')

BeginTalk(p) == talks[p].at = "idle" /\ Goes(p, "user", 0) /\ UNCHANGED usage

(* assertWithinBudget reads the usage of the user, then that of the tenant. *)
assertUser(p) ==
    /\ talks[p].at = "user"
    /\ Goes(p, IF exceeded(UserOf[p]) THEN "refused" ELSE "tenant", 0)
    /\ UNCHANGED usage

assertTenant(p) ==
    /\ talks[p].at = "tenant"
    /\ Goes(p, IF exceeded(Tenant) THEN "refused" ELSE "talking", 0)
    /\ UNCHANGED usage

(* One answer of the model *)
Talk(p) ==
    /\ talks[p].at = "talking"
    /\ Goes(p, "talking", talks[p].used + 1)
    /\ UNCHANGED usage

(* The interaction is written, for the user and the tenant. *)
Uses(p, q) == IF q = "tokens" THEN talks[p].used ELSE 1

RecordTalk(p) ==
    /\ talks[p].at = "talking"
    /\ usage' = [s \in Scope |-> IF s \in ScopesOf(p) THEN [q \in Quantity |-> usage[s][q] + Uses(p, q)]
                                 ELSE usage[s]]
    /\ Goes(p, "over", talks[p].used)

(* The prompt ends with no interaction. *)
DropTalk(p) == talks[p].at = "talking" /\ Goes(p, "over", talks[p].used) /\ UNCHANGED usage

(* The usage is counted from the start of the period. *)
NewPeriod ==
    /\ usage' = [s \in Scope |-> [q \in Quantity |-> 0]]
    /\ crowd' = [s \in Scope |-> Cardinality(InFlight(talks, s))]
    /\ UNCHANGED talks

-----------------------------------------------------------------------------
BudgetTypeOK ==
    /\ usage \in [Scope -> [Quantity -> Nat]]
    /\ talks \in [Prompt -> [at : Stages, used : 0..MaxChats]]
    /\ crowd \in [Scope -> 0..Cardinality(Prompt)]

(* What a prompt uses at most *)
Most(q) == IF q = "tokens" THEN MaxChats ELSE 1

(* "Block the run if the user OR tenant has hit a finite limit", of tokens  *)
(* or of prompts: the usage is read before a prompt and recorded after it,  *)
(* so that a scope may exceed its limit, but by no more than the prompts    *)
(* use that were in flight together.                                        *)
OverspendBounded ==
    \A s \in Scope, q \in Quantity : finite(resolveLimit(s, q)) =>
        usage[s][q] <= resolveLimit(s, q) - 1 + Most(q) * crowd[s]
=============================================================================
