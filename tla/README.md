# A formal model of nest-server

TLA+ modules, TLC configurations and TLAPS proofs for the parts of
lenneTech/nest-server whose correctness depends on the order in which replicas,
requests, timers and crashes act.  Paths are relative to `src/src/core/` unless
they begin with `src/`.

1. [The system](#1-the-system): components, state, operations, interactions, hazards
2. [Modules and code](#2-modules-and-code): which module models what, and how
3. [Runs](#3-runs): what TLC checks, with which bounds
4. [Proofs](#4-proofs): what holds for every value of the constants
5. [Divergences](#5-divergences): where code and documentation disagree
6. [Fairness, abstractions, what is not modelled](#6-fairness-abstractions-what-is-not-modelled)
7. [Plan](#7-plan)

## 1. The system

nest-server is a NestJS framework: modules for authentication, users, tenants,
files, migrations and an AI assistant over one MongoDB, run as any number of
replicas that may share a Redis.  Replicas share nothing else.  There are no
MongoDB transactions in the modelled code: an operation is a chain of requests,
each atomic, between which every other operation of every replica may run.

| component | state | operations | what makes it hard | what makes it correct |
| --- | --- | --- | --- | --- |
| migration lock (`modules/migrate/mongo-state-store.ts`) | one lock document with owner and acquiredAt; a heartbeat timer per holder | acquire, heartbeat, takeover, release | clocks that differ, missed heartbeats, crashes, two waiters at one stale lock | one holder; a live holder keeps the lock; a dead one does not keep it; waiting ends |
| migration runner (`modules/migrate/migration-runner.ts`) | the state document; the migrated data | up (under the lock), down (without it) | a crash between effect and record; whole-document writes; .ts and .js images | applied once, recorded once, nothing pending after up |
| tenant membership (`modules/tenant/core-tenant.service.ts`) | a row per member | addMember, removeMember, updateMemberRole | checks and writes in separate requests | a tenant keeps an owner; a removal lasts |
| tenant guard (`modules/tenant/core-tenant.guard.ts`) | two caches per replica; a Redis channel | lookup, invalidation, eviction, access decision | fills racing invalidations, lost broadcasts, two guards that must agree, long subscriptions | bounded staleness, with a known reason; no foreign tenant's documents |
| initial admin (`modules/system-setup/`) | a claim marker; users, accounts, roles | createInitialAdmin at boot and over HTTP | racing replicas, stale claims, failures half way | one admin, who can sign in; failure can be retried |
| legacy authentication (`modules/auth/services/`) | refreshTokens and tempTokens, maps in the user document | signIn, refresh, logout, validate | lost updates of the whole document | a device has the session it was given, until it logs out |
| Better-Auth integration, user service (`modules/better-auth/`, `modules/user/`) | users, accounts, sessions of two systems | signing in and up on both, migration, password and address changes, deletion | two systems of record, swallowed errors, every call many requests | both ways in accept the same password; a deletion leaves nothing |
| the roles of a session (`modules/better-auth/core-better-auth-user.mapper.ts`) | a cache per replica | map, tell, expire, evict | lookups racing changes, replicas and calls that tell nobody | roles that were taken away are gone after the life of an entry |
| files (`modules/file/`) | bytes in S3, on disk or in GridFS, documents in MongoDB | upload, duplicate, open and delete, by ID and by name | rights and file are looked up separately, store after store; two stores written one after the other | the file that is served is the one that was allowed; no half of a file |
| verification and reset mails (`modules/better-auth/core-better-auth-email-verification.service.ts`) | a cooldown slot in Redis, or a table per replica | acquire, fall back, send, release | outages, late failures, full tables | no two mails within a cooldown |
| crud service (`common/services/crud.service.ts`) | any document | update = find, merge, write all | two updates of one document | nothing older than the call is brought back |
| rate limiting (`common/services/rate-limit-store.ts`) | counters in memory or Redis | hit, evict, reset, fall back | capacity, outages | a limit is never lifted by load |
| cron jobs (`common/services/core-cron-jobs.service.ts`) | leases; running jobs | tick, init tick, manual tick, drain | replicas that fire at once, fail-open leases | a tick runs, and once while the lease works |
| resumable uploads (`modules/tus/`) | staged uploads; a Redis lock each | lock, append, finish, terminate, sweep | lapsed locks, crashes between store and delete | stored once, never lost, one writer |
| channels of Redis (`common/services/core-redis-pubsub.ts`) | a map of handlers per channel | subscribe, leave, dispatch | answers that arrive after others joined or left | who is subscribed hears |
| AI prompts and budgets (`modules/ai/services/core-ai.service.ts`, `core-ai-budget.service.ts`) | usage, policies, grants | prompt, plan, confirm, tool calls | checks against concurrent prompts, hooks that rewrite | nothing runs that a gate refused; a bounded overspend |
| AI connections (`modules/ai/services/core-ai-connection*.ts`) | connections, one of them the default; preferences | create, update, remove, seed, prefer | several requests per call, replicas that seed together | one default; no dangling preference |
| MCP (`modules/ai/core-ai-mcp.controller.ts`, `services/core-ai-mcp-oauth.service.ts`) | transports per replica, a registry in Redis; codes and refresh tokens | initialize, POST, close, evict, shut down; exchange, rotate | long requests, registry writes nobody awaits; one code presented twice | clients are sent where their session is; a consent is used once |
| role guards, request context, tenant plugin (`modules/auth/guards/`, `common/helpers/graphql-ws-context.helper.ts`, `common/plugins/`) | the context of a request | guard, resolve, filter | two transports, two guards, merged roles | as for the tenant guard |
| the rest | configuration, I/O, one request | | | |

Interactions: `MigrationRunner.up` calls `withMigrationLock`;
`CoreTenantService` calls `CoreTenantGuard.invalidateUser` after each write, which
publishes to Redis, to which every guard is subscribed; the guard's decision goes
into the request context, from which the tenant plugin takes its filter;
`CoreAuthService` ends in `CrudService.update`; `createInitialAdmin`, the user
service and the Better-Auth controller write the same users and accounts through
the mapper; `runAuto` and `runPlan` read the budget before they talk to the model.

`PROJECT.json` lists every component with its status and every hazard at its
line, with the properties that cover it.

## 2. Modules and code

| module | extends | models |
| --- | --- | --- |
| `Clock`, `Replicas` | | the time and the replicas that the modules of one deployment share |
| `MigrationLock` | | the lock document, waiters, the holder and its heartbeats |
| `MigrationRunner` | `MigrationLock` | up() and down() on the state document and the data |
| `MigrationLedger` | | the abstract promise of the runner, refined by it |
| `TenantMembership` | | the three calls of the membership service on one tenant |
| `TenantCache` | `TenantMembership`, `Clock` | the guard's caches on every replica and their invalidation |
| `RequestAccess` | `Clock` | the guards' decision on a request or subscription, and what it then reads |
| `SystemSetup` | `Clock` | the creation of the initial admin |
| `LegacySessions` | `Clock` | the sessions of one user, and the update they are written by |
| `UserIdentity` | | one person's user, accounts and sessions in both systems |
| `RoleCache` | `Replicas` | what every replica remembers of a user's roles, against the calls that change them |
| `FileStore` | | files of one name in three stores, and the calls that look them up |
| `AuthMails` | `Replicas` | the cooldown of verification and reset mails |
| `RateLimitStore`, `CronJobs`, `TusUpload` | `Replicas` | counters and their overflow; a job and its lease; an upload and its lock |
| `PubSub` | | the subscriptions of one channel in one process |
| `AiBudget` | | the usage of users and tenant against prompts |
| `AiPrompts` | `AiBudget` | the gates a tool call passes |
| `AiConnections` | | connections, the default, preferences |
| `McpSessions` | `Replicas` | transports, the registry, shutdown |
| `McpOAuth` | | codes and refresh tokens |
| `...Proofs` | their module, `TLAPS` | theorems |
| `MC...` | their modules | values of the constants for TLC |

One action is one request to MongoDB or Redis, or one timer, with everything the
code does until the next `await`.  Definitions named *Mutant* are plausible bugs
of the definition below them; no specification uses one.

**Composition.**  `MigrationRunner` runs inside `MigrationLock`, `TenantCache`
around `TenantMembership`, `AiPrompts` around `AiBudget`: their actions are joined
where the code calls one from the other.  Other components share only the clock,
Redis or MongoDB, on keys of their own.  Their product would be large and say
nothing, so `MCTenants`, `MCDeployment`, `MCAccounts` and `MCAssistant` give each
behaviour one *subject*, whose component moves while the others rest.

**MigrationLock.**  A member of `Run` is one call of `withMigrationLock`; it
stands for the random token of that call and the `_id` of the document it
inserts.  `pc` walks through acquireLock: `try` the upsert (`Acquire`,
`Occupied`), `look` (findOne), `judge` staleness by the waiter's own clock,
`stamp` a document without acquiredAt, `break` (deleteOne with the acquiredAt
that was judged), `wait` (the deadline).  A write carries the clock reading made
up to `Latency` before it is applied, so a slow heartbeat may undo a later one.
`Heartbeat` and `MissedBeat` are the interval timer.  A request that fails
(`DbError`, `AcquireUnanswered`) and a process that dies (`Crash`) may occur in
any place; a replica that restarts is another member of `Run`.

**MigrationRunner** adds the state document (`recorded`), the data (`applied`
counts effects per migration) and the program counter `at` of runUp and down.
`up` runs only while its run holds the lock and is interrupted wherever the lock
module lets it crash; `down` needs no lock, as in the code.  The file loader
(`loadMigrationFiles`: extension, precedence of .js, files without up) is an
operator on the files of an image.  The refinement maps the state document to
the ledger, and the one run between its effect and its save to `current`.
A request of down that fails (`DownError`) may have been applied with its answer lost:
the effect without a save, or the save itself.
`AloneSpec` is the specification with rollbacks that run alone, which the code does
not enforce.

**TenantMembership.**  A call carries its request; `at` is the request it sends
next: addMember `existing` then `create` or `reactivate`; removeMember `count`,
`confirm`, `write`; updateMemberRole `current`, then the same when an owner would
cease to be one.  `written` is a write whose answer has not arrived.  `alone` is
a history variable: no other call has written since this one began.

**TenantCache** splits a lookup into `Ask` (clock, and the TTL for memberships),
`Evaluate` (the query) and `Fill`.  `Invalidate` is the moment the awaited write
returns: clear here, publish, or fail to.  `Receive` and `Miss` are the
subscribers.  `excused` and `lastTrue` are history: whether the invalidation
that should have removed an answer came too early or never will, and when an
answer was last right.

**RequestAccess.**  `canActivate`, `resolveTenantContext`, `checkRoleAccess` and
the filter of the plugin are operators with the code's names; `HttpRequest` is
the role guard, the tenant guard and the context in one step, since they run on
one request and leave nothing when they refuse.  `Subscribe` and `Opened` are two
steps, with a look-up each: the scope comes first, the access second, and the
scope stays.  A look-up answers from `Recent`, the memberships of the last
`MaxAge`: that is all `BoundedStaleness` of TenantCache promises, and all this
module uses of the caches.  `caller.via` is how the user was authenticated: a
session by the middleware, on every route, or a token by the guard, only where a
role is required.

**SystemSetup.**  A creator is one call of `createInitialAdmin`; `pc` names its
next request: count users, delete a stale claim, insert a claim, user, account,
link, roles, password.  Each may fail with or without its effect and lead to
`release`, which deletes whichever claim there is.

**LegacySessions.**  `document` holds the two maps of the user; `snapshot` is the
user a call was authenticated as, `copy` what its update merged.  `Mint` is
createTokens, `Staged` what updateRefreshToken and logout change, `Merged`
mergePlain on the document read again, `WriteBack` the write of all of it.

**UserIdentity.**  One person with a user document, accounts and sessions of IAM.
A caller runs one of seven operations; `at` is its next request, `seen` the user
it read, `text` and `email` what the client sent.  A text is a password, plain or
hashed; `normalizePasswordForIam`, the bcrypt of the legacy side and both
comparisons are modelled by what they accept.  `apart` is history: the known ways
in which the two systems part (a request that failed, a hash of a hash, two
writers, a migration overtaken).  `Delegated` is
`betterAuth`'s delegation of the legacy sign-in.

**RoleCache.**  An asker is a request with a session: `MapUser` misses the cache of
its replica, `FindUser` reads the user, `Answer` remembers the answer.  A changer is a
call of setRoles or update, which copies the user, writes and, when the user is known
to be linked, tells the cache of its own replica.  `stands` is the document, `stood`
and `excused` are history: when an answer was last right, and that nobody will correct
it.

**FileStore.**  A transfer is a call of CoreFileService; `Method` lists the lookups and
writes of each operation, `next` is the one a call does next.  A lookup by ID is one
step, since a file never changes its store; one by name probes store after store
(`probed`).  Bytes and document are written, and deleted, in two steps.  Each may be the
last, or fail: without an effect, or applied with its answer lost.  The clean-up that
follows a failure is part of the step.  `crossed` and `torn` are history: calls during which another
one wrote, and files of which a failure left one half.

**AuthMails.**  A mailing asks Redis for the slot, falls back to the table of its
replica, sends, and on failure gives the slot back: in Redis only with its own
token, in the table whoever has it.  The table (`SentTo`) keeps the entries in the order
of their insertion (`placed`; one that is written again keeps its place): a new recipient
in a full table takes the place of the first, and the timer of an entry (`SendTimer`)
removes it after the cooldown; whoever writes the entry anew clears the timer.  A *door* is what
let a mail pass; `torn` remembers the doors that lost a slot.

**RateLimitStore.**  A counter has a count and the end of its window; a hit bumps
one, of the client or of the overflow slot it folds into when the store is full.
`cardinality` is the counter the Redis script admits new keys by.  A hit that
gets no answer is counted by the local store too, with or without effect in
Redis.  `passes` is history: the hits of the last window that a store let pass, with
a number each.

**CronJobs.**  `ticks` is what each process does about each fire time: wait for
its lease, run, ended.  The lease is taken or its request fails, before or after
its effect, and then the job runs `openly`.  With `bullMq` the queue hands ticks
out.  `Drain` waits `DrainTime`, and then the process is gone with its leases.

**TusUpload.**  A request is where the tus server and the service have brought it
(`reading`, `writing`, `finishing`, `storing`, `cleaning`, ...).  Heartbeats that
fail let the lock expire under a request (`lapsed`).  `sweep` is between its stat
and its deletion.  On disk the staged file is moved, in S3 it is copied and
deleted.

**PubSub.**  `wire` are the SUBSCRIBE and UNSUBSCRIBE commands not yet answered,
in order.  The first listener makes a map, which is entered when the answer
arrives; whoever leaves last, or fails, drops the map there is by then.

**AiBudget, AiPrompts.**  A prompt reads the usage of the user, then of the
tenant, talks, and is recorded when it is through.  A scope has two limits, of tokens
and of prompts in a period (`Quantity`), each its own or the default; one that is met
refuses the prompt (`exceeded`).  In auto mode every batch of calls passes the policies,
the confirmation and the grants that spare it.  In plan mode all steps are authorised
once, before the first is run, and the whole is confirmed.  In both modes the hooks
stand before each call and may replace its arguments, which no gate sees again.
`rules`, `forbidden` and `grants` are read when a gate needs them and change in
between.  `story` is history: what was run, what was denied when the prompt began,
what hooks have replaced.

**AiConnections.**  create and update write, then unset the other defaults in a
second request; update writes back the document it read; bootstrap counts and
seeds; a deletion cleans up the preferences afterwards.  `spoilt` is history.

**McpSessions.**  A session is in the transports of its replica until it is
closed; `posts` are handlers that go on after their session is gone and put it
back.  Writes to the registry may be lost.  `Registered` enters a session and, at the
caps, begins to close the one that it evicts.  A shutdown has three phases: the replica is
`closing` and takes no session, `CloseNext` closes one after another, and `Cleared`
clears the map and deletes the keys of the sessions it began with.  A close that throws
leaves the session in the map until then (`unclosed`).  `astray` is history: the
sessions whose key and transport came apart, and why.

**McpOAuth.**  A code is looked at, compared and consumed in separate requests; a
refresh token is found and deleted in one.  `issueRefreshToken` is a later
request, and the process may die before it.

## 3. Runs

| run | shows | bounds |
| --- | --- | --- |
| `migration_lock` | mutual exclusion, no takeover from a live holder, scoped removal and refresh, waiting ends, a dead holder is replaced | two runs, one clock ahead by 1; Stale 4, Beat 1, Latency 1, MaxGap 3: exactly on the edge of `Punctual`; time for a takeover and a timeout |
| `migration_runner` | nothing applied twice unless torn, state and data agree, nothing pending after up, refinement of the ledger, which has one record per migration | two up runs with a .ts image and a mixed .js image, one down, three migrations of which one is recorded; every failure; a lock that goes stale after a tick |
| `tenants` | *roster*: the membership invariant, atomicity of a call that is alone, removals last. *caches*: staleness is less than a TTL (a TTL and a query for lists), and each stale answer has a reason. *access*: no foreign documents (`ScopeBacked`); a higher level or one more role never costs access | roster: two users in every initial state (of the rows that are no member, one invited and one suspended), three calls, two at a time, of which the third is a removal (`TwoRunning`). caches: two replicas, a removal and another call, one lookup at a time, memberships on one replica and lists on the other (`Apart`), TTL 2, query 1, time 2. access: one request at a time, two tenants, seven callers, 27 routes; the membership of one tenant begins or ends once, one tick, MaxAge 1 (`AccessBound`) |
| `deployment` | *setup*: one admin, only a fresh claim refuses. *sessions*: lost updates lose only what happened meanwhile, devices stay apart, answers are valid. *rates*: no window lets more than twice the limit pass, however full the stores. *cron*: a lease is won once, and no tick is lost without a reason. *tus*: one writer unless a lock lapsed, nothing lost, twice only if cut off. *pubsub*: who hears nothing was overtaken. *files*: nobody is given or deletes a file that is not theirs, a call that nobody crosses comes to the right file, half a file has a reason | setup: two booting replicas, one clock ahead, one HTTP caller, one that dies or fails (`OneFails`), time 4. sessions: two devices, three calls, the third by itself, two at a time if one of them deals in tokens (`TwoCalls`), four token IDs, time 2. rates: three clients, one replica beside the shared store, capacity 1, limit 1, window 2, time 2. cron: two replicas, one fire time, one incident (`Incidents`), time 2. tus: three requests, the third after the first, of which one fails or is overtaken (`OneLapse`), one chunk, disk and S3, time 2. pubsub: four listeners. files: two files of two owners in every combination of stores and a third ID, two calls of which the first creates or deletes (`OneWrites`), the preset `owner`. Callers that are alike begin in turn (`InTurn`) |
| `accounts` | *identity*: both ways in accept the same password once all is quiet, and nothing is left of a deleted user, unless a named reason occurred. *mails*: no two mails within a cooldown through one door unless it lost the slot. *roles*: an answer was right no longer ago than an entry lives, and a wrong one has a reason | identity: two callers, one of whom may update, and either the address or the password; two addresses, two passwords, two users after one another, of whom the first is changed or deleted; only a reset sends a hash, sign-ins use what the person knows (`OneByOne`); behaviours end with the first reason. mails: three, begun in turn and two at a time, two recipients, two replicas, one lost slot (`TwoMails`), cooldown 1, tables of one entry, time 1. roles: one member with two roles, one asker, one change, on one of two replicas, TTL 1, a cache of one entry, time 2 |
| `assistant` | *prompts*: denials hold in auto mode, nothing is run unconfirmed, a plan is run as a whole or not at all, a bounded overspend of tokens and of prompts. *connections*: one default, no dangling preference, unless a named reason occurred. *sessions*: clients are sent to the holder. *oauth*: a consent is held once | prompts: two of one user, who has two tokens, in a tenant that has one prompt; two calls to be run at a time; of two prompts side by side one is confirmed, and one is excused from a rule (`TwoCalls`); one setting that changes while a prompt is still to come (`OneSetting`, `SettingsKept`). connections: three calls on three connections, two at a time (`TwoJobs`). sessions: four IDs, taken in order, on one of two replicas, two POSTs, caps of two, one session that goes astray or cannot be closed (`Sessions`, `InTurn`). oauth: two grants of two clients, three exchanges, three tokens |
| `migration_down_race`, `tenant_denial`, `system_setup_retry`, `legacy_logout`, `identity_address`, `ai_plan_policy` | the divergences of section 5 | smallest that show them |

Why the bounds are enough.  The lock's races need a holder, a waiter that judged
an old document and a change between; two runs with three roles each produce all
of them, and the theorems of section 4 remove the bound.  Last-owner races need
two owners and two calls; the third call is the one that makes a check stale.
A cache entry can be wrong only about one user, so one user is enough; two
replicas distinguish the local clear from the broadcast.  Requests do not write
what others read, so one at a time is enough for `ScopeBacked`, which is proved
for all.  A claim is taken over by one creator while another still believes in
it; the third, with another address, is the one `OneAdmin` is about.  A lost
update needs two calls, and the third makes the lost one itself a consequence of
another.  A store with one place has every state a full one has: full, full of
expired keys, overflowing; a window closes within the time and the next one opens.  A tick is decided among the replicas that see it, so
one fire time and the startup run are enough.  An upload needs a writer whose
lock lapsed, the one that took over, and one that deletes or retries.  Identity
races are between two calls; a third would only add writers, which is a reason
the properties except.  A role is wrong by one change under one lookup, and by one
replica that is not told.  A file is crossed by one other call; two owners and three
stores are what a lookup by name can confuse.  A budget is
overspent by two prompts that have both read it.  A default is taken away by a second call while a third
writes it back.  A code is presented by two requests, and by the one of the other
client.

The properties that begin "unless" name their exceptions in a history variable
(`excused`, `apart`, `torn`, `spoilt`, `astray`, `overtaken`, `openly`, `lost`, `cut`,
`lapsed`, `unheard`).  Each exception is a failure or an interleaving at a line of
the code; the property says there is no other.

Every property of a passing run has a mutant in `PROJECT.json`: a plausible bug
in one definition, under which the same run finds the property violated.
`MigrationRunner.cfg` restricts rollbacks to moments when nothing else runs
(`AloneSpec`), because the code does not protect them; `migration_down_race`
drops the restriction.  Deadlock is not checked where finitely many calls end.

## 4. Proofs

All theorems are about the modules themselves, not their `MC` instances: for any
replicas, users, calls, images, limits and times.  An assumption beside those the
modules state of their constants is named with the theorem.  Where a property
excepts something ("unless"), the history variable it names is part of what is
proved: there is no other exception.

`MigrationProofs`:

- `TypeCorrect`: the type invariant.
- `SafetyCorrect`: `SafetyInv`, under `Punctual`: the latency is within `MaxGap`
  and `MaxGap` plus the largest difference of two clocks within `Stale`.
  The inductive invariant has two halves.  `BreaksStale`: a run about to delete
  found the document stale, and still would, since clocks only move forward; it
  needs no assumption.  `HolderOwns`: a working run owns the document and
  refreshed it at most `MaxGap` ago; a deletion by another run would need an age
  above `Stale`, which `Punctual` excludes.  Neither half alone is inductive
  enough: exclusion says nothing about the age of the document.
- `ExclusionCorrect`, `NeverTakenCorrect`: mutual exclusion and no takeover from
  a live holder follow, under the same assumption.
- `RemovalCorrect`: a document is removed only by its releasing owner or when it
  is stale at that very moment, with *no* assumption on heartbeats or clocks.
- `TwiceCorrect`, `RunnerCorrect`, `ReturnCorrect`, `LedgerCorrect`: nothing is
  applied twice unless torn, state and data agree, nothing is pending after `up`,
  and the runner implements `MigrationLedger`, under `Punctual` and for
  `AloneSpec`.  `MigrationInv` says that one run at a time is between an effect and
  its record (`Alone`, from exclusion), that its copy of the state document is the
  document, and what is in effect in the data then (`StateInv`, `DataInv`).  The
  refinement is a simulation: the initial state, and a lemma for every step.

`Punctual` is the assumption the code makes with its constants (a heartbeat every
15 s, stale after 60 s).  `MaxGap` enters through the guards of `MissedBeat` and
`Tick`; without it a live holder loses its lock (section 5).

`TenantProofs`, for every role hierarchy:

- `MembersCorrect`: `MembersInv`: types; a call only reaches requests of its own
  operation with a role that may be given; and what a call has checked still
  holds when it writes, provided nobody else wrote since it began.  It is
  inductive because every write takes `alone` from all other running calls.
- `AloneCorrect`, `OwnerCorrect`, `RestoreCorrect`: the atomicity of a call that
  is alone, the last owner, and removals that last, from that invariant.
- `StalenessCorrect`: `BoundedStaleness`.  `AgeInv` follows an answer from the
  moment it was asked for: it was last right no earlier (`LookupInv`), so an entry
  expires a TTL after it was last right, for lists a query later (`EntryInv`).
- `StaleCorrect`: `StaleOnlyIfRaced`.  `RaceInv`: a wrong answer, in a lookup or in
  an entry, either has an invalidation on its way to it or is excused; a write
  makes answers wrong and is the moment its own invalidation is owed.

`RequestAccessProofs`, for any tenants, roles, levels, routes, callers and
settings:

- `ScopeBackedCorrect`: `ScopeBacked`.  The inductive invariant `DecisionsKept`
  says that the context of a request *is* the decision of the guard, or of the
  subscription's resolver, on the memberships that were found, and that these
  were among the recent ones of the time it asked.  A membership may change under
  a running request, so nothing can be said of the present; it is inductive
  because `held`, the past, only grows (`RecentKept`).  What the decision is
  worth is a lemma per branch of `canActivate` (`HeaderBacked`, `ListBacked`,
  `SystemRoleBacked`), joined in `DecisionBacked`.

`SystemSetupProofs`, for clocks that differ:

- `OneAdminCorrect`, `RefusedCorrect`: under `SlowEnough` (two creations and the
  difference of two clocks fit in the life of a claim; the code has ten minutes).
  Whoever gives up deletes whichever claim there is, so who is alone follows from
  time.  `ClaimInv`: one creator holds the claim (`OneHolder`); the claim is too
  young for every clock while its holder lives (`FreshClaim`); there is one admin
  that nobody was told to be missing (`OneSound`); and once there is one, nobody
  who counted no users may still find the claim stale (`Settled`).
- `SetupTypeCorrect`: the types.

`DeploymentProofs`:

- `OneWriterCorrect`, `UploadKeptCorrect`: `UploadInv`: a request that is served
  has the lock or let it lapse (`HasLock`); what a request cleans up is stored; an
  upload is stored twice only if cut off or lapsed, and lost never.
- `DeafCorrect`: `PubSubInv` relates the commands Redis has not answered, the map
  of handlers and the subscription: whoever waits has a SUBSCRIBE on the wire that
  no UNSUBSCRIBE follows, or was overtaken.
- `SessionsTypeCorrect`, `LostCorrect`, `AnswersCorrect`: `OwnInv`: a token belongs
  to one device in every copy of the maps there is.  `SeenInv`: what a call has
  copied for another device that device had while the call ran.  `AnswerInv`, with
  `Renewal`: a token is answered with after it was stored.
- `NoTickLostCorrect`, `WonOnceCorrect`: `CronInv`: a tick that is over, or whose
  lease is taken, was run or died with its lease (`Accounted`); a lease outlasts
  all who ask for it (`Outlasts`); a tick that runs is leased, and by one replica,
  unless a request for the lease failed (`Entitled`).
- `NeverNoLimitCorrect`: `RateInv`, with `Limited` for each counter: the passes of
  the window that is open are counted, and before them there were no more than
  `Limit`.  It is about the cardinality of `passes`, which is why they are numbered.

`FileStoreProofs`, for any files and calls, and every access rule:

- `BytesCorrect`: `FilesInv`.  A file that has a document is not about to be
  described by anybody (`DescribedSettled`); who is about to describe one has
  written all of it, and nobody else is (`Writing`); who is about to erase the
  second half has found the file in its store, and the first half is gone
  (`Found`).  What the rows of `Method` have in common is one lemma, `MethodOrder`,
  from which a step knows what is behind it.
- `AccessCorrect`, `AloneCorrect`: `AccessInv` adds, for every call, that it was
  allowed the file it checked by ID (`Entitled`; the key of a file never changes)
  and, while nobody has crossed it, all that it has seen (`Alone`, `Sees`): which
  stores have nothing of that name, that the file is the first by that name, and
  that it was allowed.  A write takes this from every call that is at work.
- `FilesTypeCorrect`: the types.

`AccountsProofs`:

- `RolesInEffectCorrect`, `RolesTypeCorrect`: `RoleInv`: an answer was right when it
  was asked for, and an entry expires a life after that (`AgesInv`); a wrong answer
  is about to be dropped, or excused (`RightInv`).
- `MailsApartCorrect`: `MailsInv`: at every door that lost no slot, the sends are a
  cooldown apart and the slot is held for a cooldown after the last of them.
- `EitherDoorCorrect` (without `Delegated`), `OrphansCorrect`, `IdentityTypeCorrect`: for
  any number of callers, none of whom is restricted as in the run.  `IdentityInv` says
  of every place of a call what it has in hand there (`IsCall`) and, while the two ways
  have no reason to part: a user has one account (`OneAccount`), which opens with the
  password of the user unless a call is on its way to write just that password to it
  (`Writing`) or is about to give a user made by IAM the text of its account (`Signing`,
  `SignedUp`); and what belongs to nobody is about to be cleaned up by a call that
  deleted its user (`Gone`, `Cleaned`).  It is inductive because whoever writes the
  password takes over from those who were on their way, and because a new user gets an ID
  that no call has seen (`NewUserIs`).

`AssistantProofs`:

- `SentToHolderCorrect`: `McpInv`: an open session is at home on the replica it
  began on, and an entry of the registry points to a session that is open there,
  unless it is astray for a reason.
- `GatesHoldCorrect`: `PromptInv` follows every call of a prompt from gate to gate:
  which of them it has passed, on what arguments, and what was denied when the
  prompt began.
- `OverspendCorrect`: `BudgetInv`, for finitely many prompts and either quantity
  (tokens or prompts): the usage is within the limit plus what the prompts past their
  check may still spend, by induction on their number.
- `ConnectionsKeptCorrect`: `OneDefault` and `NoneDangling`, each with the calls
  that still owe a request.
- `OneHeirCorrect`: `OneHeir`.  `HeldOnce` lists the ways
  a grant might be held twice (two tokens, two requests, a code beside either).
  It is inductive because each step that gives a grant to a new holder takes it
  from the old one in the same request to MongoDB, and a new code is of a grant
  that was given never before.

Only model-checked: the liveness of the lock (`AskingEnds`, `DeadLockRemoved`:
temporal proofs under fairness are out of the prover's reach here), and the
invariants that only collect the types of the components of a run
(`TenantsInv`, `DeploymentTypeOK`, `AccountsTypeOK`, `AssistantTypeOK`), of which most
conjuncts are proved for their component.

## 5. Divergences

Each of these is a run that TLC must find violated, and a finding in
`PROJECT.json`.

- `migration_down_race`: `down()` takes no lock, although the README promises that
  migrations run on one machine at a time whatever the entry point.
- `tenant_denial`: a lookup in flight stores the removed membership after the
  invalidation; the denial is not immediate but takes up to a TTL, on one replica
  and without any failure.
- `system_setup_retry`: a creation that fails after the user was inserted leaves a
  user and no admin; the user count refuses every later boot.
- `legacy_logout`: `update` merges the token map, so an entry removed from the
  input is kept: a logout ends no session.
- `identity_address`: an update of address and password looks the user up by the
  old address when it synchronises the password, and IAM keeps the old one.
- `ai_plan_policy`: plan mode evaluates no policy, although "every tool call" is
  promised.

The models also show these, which have no run of their own:

- A live holder whose heartbeats fail for 60 s loses the migration lock while its
  migration runs on (`mongo-state-store.ts:309`; the comment at 276 excludes it).
- Without `jwt.refresh.renewal` a refresh answers with a token ID that is not
  stored (`core-auth.service.ts:380`; `server-options.interface.ts:2264`).
- A manual trigger on BullMQ, or before the first timer, takes the lease of the
  startup run; `runParallel` is a limit per process
  (`core-cron-jobs.service.ts`).
- An upload that was completed may be swept before it is stored
  (`core-tus.service.ts:219-222`; the comment at 641-645 excludes it).
- With the legacy sign-in delegated to IAM (`Delegated`) the legacy password is
  neither compared nor kept in step (`core-auth.service.ts:445-468`, `514-575`).
- A subscription may be told to be subscribed and hear nothing
  (`core-redis-pubsub.ts:79-112`; the comment at 19-20).
- The local cooldown of a mail is released without comparing who holds it
  (`core-better-auth-email-verification.service.ts:444-446`, against `521-528`).
- Changed roles take effect on other replicas only when their user cache expires
  (`core-user.service.ts:283`, "immediately").
- A POST that ends after its MCP session was closed re-adds and re-registers a
  closed transport (`core-ai-mcp.controller.ts:153-160`; the comment at 80-81).
- Replicas that seed together leave two default connections, a stale write-back
  brings one back, and two overlapping calls may leave none
  (`core-ai-connection.service.ts:124-136`; README of the module, line 174).
- "OR semantics" of roles (`core-tenant.guard.ts:71-73`, `337-339`): an unverified
  owner is refused by `@Roles(S_VERIFIED, 'owner')`; a class with S_EVERYONE keeps
  RolesGuard from authenticating a token, so that a method with S_USER answers 401
  to a valid one; adding a role that has a level to `@Roles('editor')` hides
  tenants from the list.
- RolesGuard refuses S_VERIFIED routes to a verified user with a token, whose
  `hasRole` is a plain intersection; BetterAuthRolesGuard does not.
- A subscription keeps its tenant scope after the membership ended, and the scope
  is not filtered by level; the comment at `core-tenant.guard.ts:177-179` says of
  the latter that it is meant.

## 6. Fairness, abstractions, what is not modelled

Fairness is assumed in `migration_lock` alone: time passes, a process that started
asking goes on (the loop of acquireLock has no other exit), the interval timer
fires, and the finally clause releases.  All are weak: each action stays enabled
until it is taken.  Nothing makes a migration end or a call happen, and a crash
disables all of a run's actions.  Liveness formulas count only what the bound on
time leaves room for (`GivesUp`, and the conjunct on `Stale` in
`DeadLockRemoved`).  Elsewhere, what must happen in the end is stated of the
states in which nothing is left to do (`NoTickLost`, `UploadKept`, `EitherDoor`,
`NoOrphans`, `DeafOnlyIfOvertaken`, `ConnectionsKept`), which needs no fairness.

Abstractions, by module:

- MigrationLock: the creation of the index, and the retry of an upsert that hits
  a duplicate key, are one step with the upsert; clocks differ by a constant; a
  heartbeat still in flight when the holder stops is not modelled (its owner
  scope makes it void once the document is gone).
- MigrationRunner: a migration has one atomic effect, and may throw before or
  after it; stores that opt out of the lock are left out.
- TenantMembership, TenantCache: one tenant (no operation relates two); the
  unique index on tenant and user is assumed built; eviction of the oldest tenth
  is eviction of any live entry; `invalidateAll` and the flush on a changed
  configuration are left out.
- RequestAccess: several tenants are active; one caller, whose roles and
  verification do not change while requests run; S_SELF and S_CREATOR, which are
  decided on an object, and schemas that are excluded from the filter are left
  out; levels are positive.
- SystemSetup: ordinary sign-ups during the setup are left out; `Span` bounds how
  long a live creation takes, and `SlowEnough` names the relation to the life of
  a claim under which a slow creation is never taken over.
- LegacySessions: one user; signatures and expiry of the JWT and passwords are
  left out, so a client may present any token it ever got (an expired one is
  refused earlier); other fields of the document are the operation `update`.
- UserIdentity: Better-Auth's own sign-in, sign-up and session requests are
  external, modelled from how the controller calls them; tokens of a reset are a
  flag; the order of the GraphQL resolver is taken from the service.
- AuthMails, RateLimitStore, CronJobs, TusUpload: one clock, with the delays each
  module names; an answer that is late is one that failed.
- RoleCache: a process does not restart (its cache would be empty); `verified` in the
  session, which can only add to what the document says, is left out; update's read of
  the user for its iamId and CrudService's are two steps.
- FileStore: all three stores are configured and reachable; the files share one name;
  streaming a file is one step; roles of the routes are decided before.
- PubSub: one connection, on which Redis answers in order; ioredis' resubscription
  after a reconnect is left out.
- AiPrompts: a token per answer of the model; a hook keeps the arguments or
  replaces them; what a tool does is outside.
- McpSessions: authentication and the rate of a POST are decided before it; the
  registry is one key per session.

Bounds: `LastStart`, `MaxTime` (clocks), `QueryTime` (a lookup), `Span`
(a creation), `MaxTokens` (token IDs), `MaxGap`, `Latency` and `Lateness`
(heartbeats), `Lag` (a timer), `MaxCount` (counters), `MaxUser` (users after one
another), `MaxChats` (answers of a model), `MaxAge` of RequestAccess (the age of an
answer from the caches).  The composite runs name theirs
where they restrict what the modules allow; the rows of section 3 say what each means:
`TwoRunning`, `Apart`, `AccessBound`; `OneFails`, `TwoCalls`, `Incidents`, `OneLapse`,
`OneWrites`; `OneByOne` (with `OneUpdate`, `Begins`), `TwoMails`, `FewStandings`,
`OnlyCallsReturn`, `EarlyChange`; `OneSetting`, `SettingsKept`, `TwoJobs`, `Sessions`
(with `OneAmiss`), and `Until`, the time of each subject.  `InTurn`, `InOrder` and
`FirstFree` only choose among callers, IDs and accounts that are alike.  The theorems of
section 4 know none of them.

Not modelled:

- Field-level access: `checkRestricted` and `check` on input and output, and the
  interceptors that call them, decide on one object; the writes and aggregations
  of the tenant plugin and the role, audit and password plugins change one query
  or document.
- Functions of the mapper nobody in core
  calls; Better-Auth's own reset of a password; passkeys and second factors.
- The layers by which a prompt selects a connection, slots, conversations, prompt
  building, the re-planning of a confirmed plan (`core-ai.service.ts:592`).
- The consent page and the MCP server; single documents that MongoDB expires
  (challenges).
- I/O, wiring, tables, static analysis and administration pages: command line and
  file helpers of migrations, email and templates, configuration,
  permissions report, hub, error codes, health check.

## 7. Plan

Done: the migration lock and runner (one writer to the whole database), tenant
membership, its caches and the access decision (who may do what), the initial
admin, the sessions, both systems of users, the roles of a session, files, the
services that share Redis and the disk, and the assistant.  What remains to model:

1. `FieldAccess`: `checkRestricted` against a reference decision over bounded
   inputs, with S_SELF and S_CREATOR; and what `processDepth` skips.
2. Writes of the tenant plugin, as an extension of `RequestAccess`.

Theorems: the types of the components that have no theorem yet (AuthMails, AiBudget),
and of the composed runs; `EitherDoor` for a legacy sign-in that is delegated, with the
exceptions it needs there.
