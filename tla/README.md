# Litegen in TLA+

Litegen is a gateway in front of image and video generation providers
(`litegen-core`, Rust, axum + tokio + sqlx). A generation request passes
authentication, validation and budget enforcement, is dispatched to one of several
providers with retries and a circuit breaker, is billed, and, for videos, is followed
to its end by a background poller that announces it by webhook. This directory holds
the TLA+ model of that core, the TLC runs that check it, and TLAPS proofs about it.

## 1. The system and its components

| Component | Source (under `litegen-core/src`) | State | Operations | Talks to |
|---|---|---|---|---|
| Limit enforcement | `management/enforce.rs`, `budget.rs`, `sql.rs` | table `entity_limits`; process-wide map `IN_FLIGHT`; the handler's `LimitGuard` | `begin`, `load_current`, `settle`, soft-budget alert, slot drop | handlers, rate limiter, database |
| Limits management API, default budgets | `api/handlers/management/limits.rs`, `management/runtime.rs` | the same table | GET, PUT, DELETE, reset; `ensure_default_end_user_limits` | the table requests are billed to |
| Generation lifecycle | `api/handlers/mod.rs`, `proxy/poller.rs`, `proxy/webhook.rs`, `db/sqlite.rs` | table `generations`, `webhook_deliveries`; `router.video_jobs`; spawned tasks; the poller's batch | submit, persist, look up, cancel, poll, reap, announce | providers, receivers |
| Provider dispatch | `proxy/router.rs`, `proxy/circuit_breaker.rs` | breaker state per provider | direct loop, fallback loop, `is_open`, `record_success`, `record_failure` | providers |
| API key quota | `api/handlers/mod.rs` (`reserve_quota`, `settle_quota`), `db/` | `api_keys.tokens_used` | reserve, settle | the same handlers |
| Rate limiter, backpressure | `api/middleware/{rate_limit,backpressure}.rs` | token buckets, semaphore | `try_take`, acquire | handlers |
| Response cache | `proxy/cache.rs` | cached responses per tenant | get, put, expiry | router |
| Authentication | `api/handlers/{auth_password,oauth}.rs`, `auth/` | sessions, lockout counters, single-use tokens | login, reset, OAuth callback | users |
| Organizations and users | `api/handlers/{orgs,users,account}.rs` | members, owners, invitations, apps | invite, accept, remove, transfer | keys, limits |
| Key lifecycle | `api/handlers/mod.rs` | `api_keys` | create, patch, rotate, revoke | webhooks (signing secret) |
| Runtime configuration | `api/handlers/management/admin.rs`, `management/runtime.rs`, `proxy/registry.rs`, `capabilities/registry.rs` | tables `gateway_settings`, `runtime_models`, `model_states`, `provider_configs`; the maps requests read | PUT and DELETE of settings, routes, models, provider keys; `apply_at_boot` | router, registries, database |
| Access control | `auth/permissions.rs`, `api/middleware/mod.rs`, the gates in `api/handlers` | the request's `KeyContext`; `organization_members` | authenticate, gate, look, statements, audit entry | every management handler |
| Databases | `db/{sqlite,postgres}.rs`, `management/sql.rs` | the tables, foreign keys, tenant columns | inserts, updates, cascades, tenant listings | every handler |
| Adapters | `providers/{image,video}` | none; the providers' jobs | `generate`, `poll_status` of 14 video and 16 image adapters | router, poller, providers |
| Materializer, storage | `proxy/{materializer,storage}.rs` | none | fetch references, store images | handlers |
| Price API | `apps/price-api` (TypeScript, TypeORM) | tables `providers`, `model_prices`, `price_history` | scrape, manual price, provider mode, seed | providers' price pages |
| Dashboard, landing page, SDKs, catalogue, deployment | outside `litegen-core` | own | clients | the HTTP API |

What is hard about it:

* **Concurrency.** Handlers interleave at every `await`: between two SQL statements,
  two locks, or a lock and a provider call. `begin` alone is a chain of conditional
  updates on up to five rows.
* **Cancellation.** A client that leaves makes axum drop the handler's future at
  whatever `await` it is in. `Drop` of the guard frees its slots; nothing settles its
  reservations. The persist task of a video is spawned for that reason.
* **Crashes.** `IN_FLIGHT`, `video_jobs`, the breaker and webhook tasks live in memory,
  the tables do not.
* **Stale reads.** `settle` decides about the alert on the row `begin` read; the poller
  works through a batch it read once and writes without a condition; PUT and reset
  write back a whole row.
* **Time.** Budget windows, breaker opening times, the poller's maximum age, retries of
  calls that may have succeeded.

What makes each component correct: slots are exact and within caps; a budget is an
exact ledger and a cap is passed only by what actual costs exceed estimates; a window
is restarted once, after it is over; every reservation is settled; a generation ends,
with one truthful announcement; the breaker follows the failure streak and lets trials
through; a dispatch uses up what it was given and buys one generation; a row ends as its
job did and what is delivered is what the provider made; a tenant's rows are touched with a
right to them and are gone with it. `PROJECT.json`
lists the hazards line by line with the properties that cover them.

## 2. Modules

```
Limits <-- LimitsAdmin     Generations     Dispatch     Accounts <-- Tenants --> OneTimeToken
RuntimeConfig              Prices          Gateway                  (implements)
Adapters --> Replies, ImageAdapters --> VideoAdapters          Access --> Endpoints, Tables

MC<module>: the instance TLC checks, for each of these but Accounts, OneTimeToken and the
            modules Adapters and Access extend
<module>_proofs: the proofs (section 5); those of RuntimeConfig and Adapters are in
            Providers_proofs
```

`PROJECT.json` maps every definition to its lines.

**Limits** models one generation request from `begin` to the drop of its guard. `pc`
says where the handler is; each SQL statement is one action (`LoadOpen`, `LoadLapsed`,
`RollWins`, `RollLoses`, `Reload`, `Reserve`, `SettleRow`, `Mark`), each critical
section of `IN_FLIGHT` is one (`Admit`, `SlotRefused`, `RateRefused`, `Free`), and the
call into the router is one (`Deliver`, `DispatchFails`). `snap` is the vector of rows
as `begin` read them, stale from then on; `top` is how many of them are in
`guard.charged`. Refusals return early as the code does: before a reservation they drop
the guard, after one they settle to zero. Failures of a statement (`LoadFails`,
`ReserveFails`, `SettleFails`, `MarkFails`), `Disconnect` and `Crash` are actions too.
Abstractions: money is in whole units, time in ticks, the rate limiter may refuse
whenever a row has `rpm_limit`, the alert timestamp is a Boolean, windows have a fixed
length. `taken`, `paid`, `stranded` and `raised` are history the properties speak of.

**LimitsAdmin** extends `Limits` with the other writers of the same table. PUT and reset
are two statements (`PutRead` or `ResetRead`, then `Write`), GET rolls a lapsed window
(`GetLapsed`, `GetRoll`), DELETE is one statement, and a first-seen end user gets the
gateway's default in two (`Sight`, `Seed`). All of them interleave with requests.

**Generations** models a video from submission to webhook. `Submit` is the accepted
provider job and its handle in `video_jobs`; `Respond` spawns the persist task, and
`Persist` is that task's insert; `Look` is GET /v1/videos, `Cancel` the PATCH. The
poller is `List` (a batch of the oldest active rows), then per row `Pick` (its age), the
outcome of asking (`Unreachable`, `Dead`, `Ended`, `Running`) and `Write` (the
unconditional update, with the webhook task it spawns) or `WriteFails`. A task is
`Lookup`, then `Post` and `Record` up to `MaxAttempts` times.

**Dispatch** models the direct loop (one deployment, no breaker) and the fallback loop.
`Skip` and `Missing` pass over a deployment, `Pass` enters its retry loop, `Succeed`,
`Fail` and `Doubt` are the three ways a call ends, `Report` tells the breaker in a
critical section of its own, `Drop` is the client leaving. A call in doubt, one that timed
out or ended with an error late in it, may have bought a generation. A breaker's clock
counts ticks since `opened_at` up to `OpenFor`.

**Gateway** is the path of a request through the middleware and the handler: the key is
authenticated and its pre-flight quota checked (`Authenticate`), a token is taken from
its bucket (`TakeToken`, whose clock was read before the lock: the slot keeps the reading
as `clock`), a permit from the in-flight limit (`AcquireSlot`), the body is validated,
the quota reserved (`Reserve`), limits enforced, the cache looked up or a provider called,
and the quota settled (`Settle`). `Dropped` ends it at any await, `Restart` empties
buckets, permits and cache. Administrators create, patch and revoke the key meanwhile.
`spent`, `lost` and `ceiling` account for what the counter should be; `window` measures
any window of time in which requests were let in.

**Accounts** holds users, sessions, failed attempts and password resets: the handlers of
`auth_password.rs`, `account.rs` and `users.rs`, each statement an action; `task[s]` is
the handler that works in slot `s`, with what it has read. **Tenants** extends it with
organizations, members, applications, invitations, both ways to accept one, signup,
and OAuth login with its account linking. A callback of an OAuth provider brings an identity
and the address the provider verifies today, which need not be that of the account that has the
identity; an account has one identity of each provider (`ProviderOf`). `vouched` remembers by
whom an invitation was brought. **OneTimeToken** is what a password reset and
an invitation promise, as far as the code keeps it: only an open token lets a request in, and
that request gets what the token is for at most once. An *eager* request takes it before it uses the token up
(a reset writes the password, an invitation accepted with a password adds the member), so
several that were let in together may all get it; a *patient* one (OAuth) has to *claim* the
token first, and only one can. `Tenants` implements it (property `RedeemedOnce`) with resets
and invitations as tokens; `redeemed` counts passwords written and members added for a
token, not tokens marked used.

**RuntimeConfig** is what an administrator changes while the gateway runs. A call has an
item (a setting, a runtime model, a model's mark, the provider), stores it in its table
(`StoreSetting`, `StoreSchema`, `StoreMark`, `StoreConfig`, `DeleteConfig`) and puts it
into the maps requests read (`CopyOverrides` and `SetOverrides`, `ApplySchema`,
`ApplyMark`, `ReadBack` and three times `Register`, one lock each). PUT of a provider
first reads the row whose secrets it keeps (`ReadConfig`). `Abandon` is a failed
statement or a client that left, `Restart` a boot, perhaps with another secrets key, that
loads a prefix of the tables. `torn` names the items where table and maps may disagree.

**Prices** is the price API: `Load`, `Fetch` or `FetchFails`, then per model `Find`,
`Save`, `Record`, then `Missing` and per row `MarkStale`, then `Close` are a scrape;
`FindPrice`, `SavePrice`, `RecordPrice` a manual price; `FindProvider`, `SaveProvider` a
patch of the mode. Every repository call is a step and saves a whole row from the copy
that was loaded. The seed at boot is a job beside them (`boot`): for each model without a price `SeedFind`,
`SeedSave`, `SeedRecord`, then `SeedEnds`, after which the process listens and edits may begin;
cron scrapes do not wait for it. A duplicate insert violates the unique index (`SaveClashes`,
`SavePriceClashes`; of the seed, `SeedClashes`, which ends the process). `met` names the
models whose copies crossed, `curated` the amounts an administrator may rely on.

**Adapters** is one generation through one adapter, from the router's call to the image or
to the end of the video's row. `Init` picks the adapter; `Begin`, `Upload`, `Post`,
`PollImage`, `FetchImage` are the HTTP requests of `generate`, `GiveUp` the router's
timeout, `Again` its retry; `Ask` is a poll of the row, `Then` the second request that some
polls make (fal's result, MiniMax' file, OpenAI's content), `Age` the row passing the
maximum age. `Work` is the provider: a job finishes, fails, or is purged. **VideoAdapters**
and **ImageAdapters** say of each adapter how it submits, which words of the provider it
takes for the end of a job, and what it does with a finished job that has no address.
**Replies** has the dozen ways the adapters read an answer, body first or status first,
with the errors each holds retryable. An answer is a status class, a word and whether the
asset goes with it: bodies are abstracted to what these readings tell apart. `job` is the
job the adapter works with, `bought` counts those begun, `told` remembers that the provider
said how one ended. Where one adapter deviates from the rest, the property names it
(`Touchy`, `Deaf`, `Trusting`).

**Access** is one request of one caller to any of some ninety handlers, on the rows of one
tenant, `Home`. **Endpoints** says of each handler who is let in (`gate`, the scope the
router asks, the permissions `any` and `own`), through what the tenant is found (`on`: the
path, a row, the caller's own organization, a query), which rows it reads before it writes
(`looks`), its statements in order (`does`), and whose audit log is told. **Tables** says of
each table in each database which rows an insert needs, which tenant columns it fills, which
statements report a missing row, what the cascades of an organization and an application
delete and what tenant listings filter on. `AuthMiddleware`, `Find` (the row that tells the
tenant), `Gate`, `Look`, then `Do`, `DoMissing` or `DoFails` per statement, `Answer` and the
spawned `InsertAudit` are the awaits of the handler; `Abandon` is a client that left. The
lookups of authentication may fail too: `LookupFails` ends the request, but `ListingFails`, the
listing of a session's organizations, is taken for an empty one. The
check of a model (`tenant_allows_model`, `tenant_model_filter`) is three reads, `ScanPool`,
`ScanMode`, `ScanIds`. Between any two of them `ChangeRole`, `OtherWrite`, `OtherDelete`,
`SetPool` and `SetAccess` are what others do. `rows` has for each kind of row whether it is
absent, as it was, written by this request or by another; permissions of the session are
those of authentication (`CtxHas`) where the handler uses the context, and those of the
membership at the gate where it reads that (`RequireMemberPerm`, `RequireOrg`). `history`
keeps the roles the caller held, rows that were written late or undone, and the states the
model lists passed through.

Every module keeps, beside some actions, a faulty variant of it ("A faulty ...", "A
mutation: ..."): the bug a property is meant to catch. They are not part of any
specification; substituting one for its original must make the property named in
`PROJECT.json` fail.

## 3. Runs

| Run | Shows | Bounds |
|---|---|---|
| `limits` | the ledger exact; caps passed by overruns only; one alert per window; every request ends | 2 requests, 3 principals: a key with a lifetime budget (cap 3, soft 2, 1 slot), an organization with a windowed one (cap 1, soft 1, 2 slots, rpm), a member without a row; 2 models, one not allowed; costs 1 or 2 for an estimate of 1; clock to 2 |
| `limits_admin` | windows stay consistent, slots exact, rolls timely and to the first end to come, while rows are replaced, deleted, created | 2 requests, 1 management call, 1 row, 4 bodies, clock to 2 |
| `generations` | no row starves; announcements are true, at most once and end; results are real | 2 generations, batch of 1, 2 webhook attempts, 1 crash |
| `dispatch` | breaker follows the streak and recovers; nothing left untried; only calls in doubt cost a second generation; dispatches end | 2 requests, 2 providers, threshold 2, open for 2 ticks, 1 retry |
| `tenants` | guesses bounded; old passwords' sessions end; owners are lost to named races only; a token lets nobody in once it lapsed or was used, and gives what it is for once to each it let in, through OAuth once in all; identities are linked to verified accounts only | 2 accounts, 2 passwords, 3 identities, two of them of one provider, each with any address, 2 sessions, 1 reset, 1 invitation, 2 organizations, 2 handlers at a time, 3 requests, lockout after 1 failure |
| `gateway` | the key's quota is an exact account and overrun by markups only; the rate is bounded | 1 key, 3 requests in 3 slots, 2 permits, price 2, charge 3, quotas 2 and 6, 1 token a minute of 2 ticks, 2 ticks, 1 restart |
| `config` | what is served is what is stored; secrets are merged | 3 calls, 2 models, one of them in the catalog, 2 values, 2 secret fields, 2 bodies, 2 keys to seal with, 1 call cut short, 1 restart |
| `prices` | manual prices stay; failed scrapes keep prices; the history explains what is served | the seed from empty tables, 2 scrapes, 2 edits, 2 models, one not seeded, 2 amounts, 2 pages, failed after 2, 1 exception or restart |
| `adapters` | a row follows its job; what is delivered is a result; nothing is bought after the provider told the end, but for the adapters the properties name | all 34 ways to generate (models of one adapter that differ count twice), 2 retries, 2 polls of an image's job in an attempt |
| `access` | callers act with a right to what they act on; deleted tenants leave no rows; models are admitted as the lists said; audit entries tell what was done, under the right tenant; success means done, and nothing is undone | all handlers; the master key, a member of each role, an owner of another organization, users of none, a viewer whose own rank is owner, keys of three kinds; hosted on both databases, single-tenant on SQLite; 2 changes by others, 1 failed statement |
| `limits_put` | *violated:* spend survives an edit | lifetime budget, requests and PUT only |
| `dispatch_reopen` | *violated:* the threshold-th failure opens the breaker | as `dispatch` |

Why the bounds are enough to be interesting: two requests are what every race in the
code needs (loser and winner of a roll, the last slot, the last unit under a cap, two
crossings of one threshold, a stale success against a fresh failure); two rows in one
request are what a partial reservation and its refund need; a clock of two ticks lets a
window end twice under one request; a batch of one forces the starvation the reaper is
for; one retry, two deployments and
threshold two let one request's failures add to another's streak. Two handlers at a time
and three requests put every pair of account operations against each other after one
that prepared them. Three slots for two permits make the limit bite and leave a request
that is refused; three requests of one key are two that interleave and one that follows
what they left. Three administrator calls are two that meet and one that mends what they
tore. Two scrapes and two edits put a scrape against a scrape, an edit against an edit,
and both against each other, after the mode was changed. Two retries and two polls let every
answer of a provider come first, in between and last. Two changes by others
(`MaxOthers`) are what a torn check of a model needs (the pool, then the access), and a role
given and taken back during a request; a third would repeat one of them. The window of the poller (100 in
the code), `MAX_ATTEMPTS` (3), the threshold (5) and the retries (2) are constants of the
modules. What the small instances cannot say for larger ones, the theorems of section 5
do, for the properties they cover.

What the properties of `access` allow is as much their point as what they forbid.
`ActedWithRights`: a role that was held at some moment of the request is enough, since
the permissions of a session are read once; a key keeps its scopes; and in a single-tenant
deployment a user who is in no organization, or whose organizations could not be listed, acts
with its own rank. `NoStrays` names the
tables that no cascade reaches (`entity_limits`, `webhook_deliveries`) and the rows that
requests in flight insert afterwards, which SQLite accepts where the tenant columns were
added to a table later and have no foreign key; Postgres refuses them. `VerdictTimely` names
the interleavings (`torn`) in which a verdict mixes two versions of the lists. `AuditTold`
allows entries to be lost, which the code accepts. `OkMeansDone` allows a success whose row
was removed by another request meanwhile.

Type invariants that are theorems (section 5) are not checked again by the runs, nor are
`SlotCap`, `ReservationsSettled`, `ForgottenOver`, `MembersInvited` and
`ConsumedBeforeJoin`, which are proved for every instance.
Symmetry of interchangeable identifiers is used in the runs that check safety only
(`gateway`, `tenants`, `config`, `prices`), and in none that checks liveness.

Deadlock is not checked: the systems stop when every request has been served and the
clock is at its bound, and `access` when its one request is over.

The expected violations are disagreements between the code and what its documentation
says of it; `PROJECT.json` ("findings") quotes both.

* `limits_put`: PUT writes back the spend it read.
* `dispatch_reopen`: `opened_at` is kept after the breaker half-opens, so a failed trial
  does not open it again.

Other disagreements met while modelling, for which there is no run of their own; the
models contain the behaviour, and where a property would be violated by it the property
names it as an exception:

* Requests that cross the soft budget together, each costing what was estimated, alert
  nobody: `settle` compares with the spend `begin` read (`management/types.rs:68`).
* A window that rolls while a request is in flight loses the reservation; the settlement then
  takes the unused part off the new window, whose spend may become negative
  (`management/types.rs:73` says "including in-flight reservations").
* Cancel and the reaper send no webhook (`README.md:29`).
* "Iteration stops after the first terminal status", "which is the final value yielded"
  (`sdks/typescript/src/polling.ts:29`), but the poller's update has no condition: a row that
  was cancelled after its batch was listed goes back to processing (`Generations!Write`).
* `delete_org` tells the audit log after the organization is gone (`orgs.rs:446`): on Postgres
  the entry violates the foreign key and is only logged, on SQLite it stays under an id that
  no listing asks for.
* Deliveries of webhooks never get a tenant (`insert_webhook_delivery`), so the cascades, which
  name their table, leave them.
* A client that leaves during a generation leaves its key's reservation for good.
* PATCH of a key with `token_quota: null` leaves the quota as it is (`RUNBOOK.md:38`), and
  PATCH can reactivate a revoked key.
* A cache hit is charged in full and repeats the response's id.
* `try_take` reads the clock before it waits for the lock.
* "The CAS is the single-use guarantee" of a password reset (`auth_password.rs:632`), but it comes
  after the update: of two confirmations let in together the loser has changed the password too
  before it is refused, and it revokes no sessions.
* Permissions are "evaluated against the membership role"
  (`docs/superpowers/specs/2026-06-03-multi-tenant-hosted-platform-design.md:165`), but a listing of
  organizations that fails is taken for an empty one (`middleware/mod.rs:342`), and a single tenant's
  user then acts with its own rank (`Access!ListingFails`).
* Two first signups of a single-tenant deployment both become owners.
* "In-flight jobs keep the instance they started with" (`docs/management-api.md:81`,
  `runtime.rs:9`, `registry.rs:147`), but `get_video_status` (`router.rs:585`) and the
  poller look the provider up by name each time.
* Of concurrent changes to settings and routes one is undone in memory until the next
  boot. DELETE of a model answers 404, and leaves it served, when its row is gone already.
* A boot that cannot read a table serves with the tables it had read.
* A provider row sealed with another key is ignored at boot, the disabled flag included,
  and PUT answers 500 until the row is deleted.
* A scrape under way overwrites prices of a provider that became manual meanwhile and
  puts the old mode back (`enums.ts:17`, `scrape.service.ts:22`); `markModelsStale` may
  put back an amount that was saved meanwhile; `scrapeRunId` of a history entry is always
  null, because the run has no id before `finish` saves it.
* Not "every provider's poll_status" (`video/mod.rs:19`) reads its answer with
  `read_poll_json`: the polls of bedrock, kling, leonardo and runway take a refusal in JSON
  for a job still at work, until the maximum age.
* Bytedance and recraft store whatever the image's address answers, an error page included,
  which the other adapters check for.
* The bytes of a finished OpenAI video are downloaded at each poll that finds it done "and
  surfaced as `video_data`" (`video/openai.rs:316`), which nothing reads; the row keeps the
  address that only the deployment's key can open. A rate limit of that download, and every
  error of Tencent's RPC, ends the row of a job that is paid for.
* An answer of BFL without an id is polled with an empty one.
* MiniMax V1 completes a row without an address if the file cannot be looked up.
* Image adapters ignore the status of a poll; a job that is gone is polled until the loop ends,
  and that error is retryable, so a new one is bought. Where their loops (180 or 240 s) are
  longer than the direct timeout (120 s), one slow image may be bought up to three times.

## 4. Fairness

`Limits!FairSpec`: weak fairness of every handler that has started. The runtime keeps
polling the futures of live connections, every statement returns, and the router bounds
each call by a timeout. A request need not start, and no fault is ever forced.

`Generations!FairSpec`: weak fairness of the poller (its interval ticks and its awaits
end), of time passing, and of webhook tasks as a whole (spawned tasks are polled; their
requests end). Strong fairness of writing a row: a failing statement may fail any number
of times but not for ever. Nothing is assumed of providers: `Settles` holds even if a
job never ends, because the maximum age does. Nothing is assumed of clients.

`Dispatch!FairSpec`: weak fairness of every dispatch that has started (calls are bounded
by timeouts) and of time.

`Gateway`, `Tenants`, `RuntimeConfig`, `Prices`, `Adapters` and `Access` state safety and assume no fairness.
Safety runs with expected violations use the specifications without fairness; they
refute invariants and action properties by finite behaviours.

## 5. Proofs

Checked by TLAPS for every value of the constants that satisfies the named assumptions
(`LimitsAssumption`, `RoutesAssumption`, `DispatchAssumption`, `GenerationsAssumption`,
`GatewayAssumption`, `AccountsAssumption`, `TenantsAssumption`, `ConfigAssumption`,
`PricesAssumption`, `AdaptersAssumption`, `AccessAssumption`, and that `None` is no record: `NoneIsNoRecord`, `NoneIsNoRow`,
`NoneIsNoInvite`). TLC evaluates them on the instances. Each module proves an inductive
invariant step by step, one lemma per action or group of actions that change the same
state, and draws the properties from it.

**Limits_proofs** has six parts.

*Types.* `TypeCorrect` is `Spec => [](TypeOK /\ Control)`. `TypeOK` alone is not
inductive: that `snap[r][at[r]]` is a loaded row needs to know that positions are inside
the loop the step is in. `Control` says so per step (`Framed`): in the load loop `at` is
within the route, from admission on it is within `snap`, in the settle loop it is within
`top`, and `top` never exceeds `Len(snap)`.

*Slots and windows.* `SlotsAreExact`, `SlotsAreCapped` and `RollsAreTimely` follow from
`SInv`, a conjunction of

* `Table`: a statement of `enforce.rs` never changes the cap on slots or the window
  length of a row, so a stale copy still agrees with the table on them;
* `Sound`: the rows a handler loaded belong to distinct principals of its route, and the
  row it is about to roll had lapsed when it was read (clocks only advance, and the
  conditional update proves the row still has that window end);
* `Grip`: in the admission loop a handler holds slots only of rows it has passed, and
  after it ended none: so a slot taken is never one already held;
* `Counted`: the map counts the holders, which with `Grip` is `SlotsExact`;
* `SlotCap` itself.

`RoutesAssumption` (one principal per entity type) is needed: a principal billed twice
in one request would be counted twice and held once.

*Alerts.* `AlertOnce` is inductive beside the types: only `Mark` raises, its `WHERE`
clause needs a cleared alert, and only a roll clears one.

*Reservations.* `EveryReservationSettled` needs `Book`, which says per step what is
reserved (the principals of the first `top` rows) and what the settle loop has dealt
with (those of the rows before `at`, the row itself included while it is marked).

*The management API.* `AdminTypeCorrect`, `WindowsStayConsistent`, `SlotsSurviveEdits` and
`RollsAreTimelyUnderEdits` follow from `LInv`. Rows are replaced here, so `Table` is gone
and caps change under requests; what is left of the invariant of slots and windows
(`HInv`) is enough with `Below` (no more slots than any cap allows), and with `Drafts` and
`Sights`: every row that a management call or a default is about to write has a window
end exactly if it has a window length, and what GET is about to roll had lapsed. That what
`next_after` computes is the first end to come needs `NextResetIsFirst`, which bounds a quotient.

*The ledger.* `SpendIsExact` and `CapIsKept` follow from `EInv`, which adds to the slots and
to `Book` the two halves of the ledger of each row (`RowLedger`): without a window the spend is what
it was at first and what requests owe, and it passes the cap by no more than what settled
requests cost beyond their estimates. Both halves speak of sums over all requests. The library's facts about
`MapThenSumSet` take operators as parameters, which no prover here instantiates, so the few that are
needed (a sum of naturals is a natural, changing one summand changes the sum by as much)
are proved for functions: a set of requests for which one failed would contain a smallest,
and for that one it holds.

**Dispatch_proofs** proves `DispatchTypeCorrect`, `BreakerFollowsStreak`,
`EverythingTried` and `OneGenerationPerRequest` from `DInv`: in the fallback loop
(`Walk`) every deployment behind the position is used up, every one ahead was not
called, and the one it is at was called as often as the attempt says; `Accounted` counts
a success that is not reported yet. `AfterStep` is the one lemma about what follows a
call, used by the direct loop in the step of the call and by the fallback loop in the
step of the report.

**Generations_proofs** proves the types and four safety properties from `GInv`. A row
is announced from the poller's copy, so the copy has to be tied to the world: the poller
works through its batch once (`Walk`), what it is about to write is what the job came to
unless it reaps (`Truthful`), and a row that was announced is terminal and not ahead of
the poller any more (`Closed`, which is why it is announced once). A webhook task is
the only one of its generation and agrees with the row, and nothing it sent was accepted
(`Single`). A row is inserted by the one persist task of its handler (`Persisted`), and
until a crash the process has the handle of every running job (`Handles`), so that an active
row it has forgotten is one whose job is over (`ForgottenIsOver`).

**Gateway_proofs** proves first that permits and requests with one add up to the capacity
(`Accounted`) and that a request past authentication goes with a key that has a row
(`Keyed`). `QuotaExact` is inductive beside these: each step moves one request in or out of
`Held`. `QuotaOverrun` is not: `Ceiled` leaves room for the markup of every reservation
that is held, and there are at most as many as permits. `RateBound` needs `Metered`, the
potential argument for a bucket whose clock can be put back: what was taken and what the
bucket could hold now never exceed the tokens due to the window; a request that read
the clock before it waited for the lock adds its wait to what is due (`Clocked`, `late`).

**Tenants_proofs** has the types and `LinksVerified`. `TInv` adds to the types that
rows belong to accounts that exist, an identity to an account that an OAuth login made
(`Rows`), and that what a handler has read is still there: accounts, invitations and
resets are never deleted (`Working`).

The same module goes on with tokens, invitations, logins and owners, from the same
invariant.

* `TokensRedeemedOnce` is the refinement `Spec => RedeemedOnce`, `Tenants` implementing
  `OneTimeToken!Spec`: an initial state maps to an initial state, and every step issues
  a token, lets a request in, lapses, claims or uses up a token, redeems one, leaves, or
  stutters. What each handler stands for follows from its step (`Standing`), and a redemption
  is counted where the password is written or the member added.
* `JoinsConsume` needs `JoinedOnce`: of all handlers that joined by an invitation through
  OAuth there is one, and it consumed it. `MembersAreInvited` follows the invitation from
  its row to the member; where the account of an OAuth identity has another address than the
  invitation, it follows `vouched` to the provider's word.
* `GuessesBounded` needs `GuessesCounted`, which counts the logins that have passed the
  lockout and not failed yet with those that failed.
* `OldSessionsEnd` looks at each session (`Sound`); `DeploymentOwned` and
  `OrganizationsOwned` are action properties from `TInv`: they show that only the named
  handlers can take the last owner's role.
* `OneOwner` needs to know who may still add an owner: `Founded` (a handler founds an
  organization nobody else founds, or the shared one), `Peopled` and `InvitesNamed`
  (nobody is member of or invited to an organization that was not founded), `OneEach`, and
  `Seats`, which bounds the owners of the shared organization by the signups that saw no
  account.

**Providers_proofs** has two components. Of `RuntimeConfig` it proves `ConfigServed` and
`ConfigMerged` from `CInv`. A call that is alone has its item to itself, and between copying and writing back the overrides
those too, and one that is not has torn its item (`Apart`); the copy of the overrides has
the other setting as it is (`Kept`); a call that is alone has put its value where its
step says (`Progressed`: for a provider, map after map); and an item that no call has
begun to change is consistent (`Served`).

Of `Adapters` it proves `VideoRowsFollowJobs`, `DeliveriesAreResults` and `GenerationsPaidOnce`,
for each of the 34 adapters and any number of retries and polls. The tables come first
(`VideosFit`, `ImagesFit`): what the proofs rely on is shown of every adapter, such as that the
words for done and failed differ, and that only the adapters which the properties name read
answers the way they do. Then what can be heard of a job (`JobReplyIs`) and what each way of reading
makes of it (`SubmittedIs`, `PolledIs`, `FetchedIs`, `JudgedIs`). The invariant (`AInv`) adds to
the properties where a call of each kind can be (`Placed`) and that a call that can still buy was
told no end (`Unspent`), which holds because a reading that asks again never read an end.

**Prices_proofs** proves `CuratedPricesServed`, `HistoryExplains` and
`DegradationKeepsPrice` from `PInv`: every scrape in flight sees a curated model as manual
(`Curated`), and of a model no operations met on, the copies in flight are the row and the
amount about to be recorded is the row's (`Explained`). The seed is one of the jobs, so the same
two parts say of it what they say of scrapes and edits.

**Access_proofs** is about all 92 handlers at once. Each is a record of the route table; `Sane`
collects what the steps rely on (which gates go with which scopes, statements and audit
entries, and what may be looked at and written), and `RoutesAreSane` shows it route by route. One lemma
per action says what the action does to each part of the state
(`<Action>Moves`); each part of the invariant then is one lemma over the actions.

* `RightsHold`: an action on a tenant needs a right to it that the caller had while the request ran.
  `Ranked` says that a session works with a role it held then, `Admitted` what a passed
  gate says for good, a session without an organization included (`ListingFails`), and `Righted`
  that whoever sees or changes rows is `EntitledTo` them,
  with one lemma per group of gates. The caller is any combination of session, key and
  master key with any scopes and roles: more than the code can produce.
* `DeletionLeavesNoStrays`: inductive beside the types, with two lemmas about the tables: what each
  refers to (`TablesRefer`) and which ones no cascade reaches (`CascadesReach`).
* `SuccessMeansDone` needs `Watched`, which ties what the looks saw to the rows as they are, and
  `Dealt`: a statement behind the handler was done, or another request removed its row.
* `AuditIsTold` needs `Entered` and `Recorded`: who has changed something tells so, or
  answers an error, or was abandoned.
* `VerdictIsTimely` needs `Scanned`: the pool that was read stood together with the access as it is
  now, unless one was replaced late.

Every safety property that a run checks is a theorem, but for the two whose runs
expect a violation. Only model-checked are the liveness properties: liveness under fairness and
`ENABLED` are outside what the prover does, as is what a recursive definition computes for
every input. No module declares a `RECURSIVE` operator; what is recursive is a fold or a recursive
function.

## 6. Not modelled

Left out of components that are modelled in part:

* *Limits*: windows of calendar months, which step from the end before, clipped to the last day of a
  shorter month (`budget.rs:67`: one set on the 31st ends on a 28th from February on); the pass-through without a management store,
  where nothing is limited; zero prices, master keys and browser sessions (no key quota).
* *Generations*: several gateway processes on one database, listing and replay of
  deliveries, contents and signatures of webhooks, and with them key rotation, which
  changes only the secret a receiver verifies with.
* *Dispatch*: how a strategy orders deployments (weight, cost, latency): a plan is given.
* *Gateway*: scopes, the fingerprint a response is cached under, callers without an
  application, the snapshot of the rate limiter that fills response headers.
* *Accounts and Tenants*: CSRF tokens, the state cookie and the exchange with the OAuth
  provider, sliding session expiry, slugs and names; which role may call what, audit entries,
  credentials, storage and models of an application are in Access. On postgres, two transfers can interleave
  under READ COMMITTED; the model has sqlite's single writer.
* *Adapters*: the bodies of requests, signatures and credentials, the choice of a provider's
  model and parameters, several images of one request, the mock adapters, which call nobody,
  cost estimates and health checks.
* *RuntimeConfig*: validation of bodies; a provider's settings but enabled and secrets; a
  catalog or an environment that changes between boots.
* *Access*: a handler looks at all its rows before its first statement. That is the order of the
  code but for PUT of an end user's limits, which touches the end user first
  (`end_users.rs:337`) and then reads the limits (`limits.rs:126`): the model gives others
  more time in between. Left out are handlers that generate, sign up, accept invitations or manage sessions, which are in
  other modules; PUT and DELETE of providers, PATCH of models and users (RuntimeConfig, Accounts);
  CSRF tokens, the application in the context (an application is looked for where its
  organization is), rows of another tenant (a request that turns to one leaves the model as
  `elsewhere`), keys of before tenants existed, the scopes a caller may grant and the screening
  of the webhook URL of a new key, paging and CSV, validation of bodies, a row that is read
  again for the answer, the foreign key of a generation on its key, and the contents of rows
  but for who wrote them last.
* *Prices*: several price components of one model, scrapers that are stubs, the
  `scrape_runs` table, the read API. A TypeORM save is one whole-row write. The seed's
  rows of providers and models are there before its prices.

Left out as a whole: materializer and storage are HTTP and file I/O of one request, before
and after what is modelled; request validation is a pure check of one request
against a schema; secrets, passwords and URL screening are cryptography and parsing;
configuration is read once; migrations, statistics and row decoding are I/O; the dashboard, the
landing page and the SDKs are clients; the catalogue, scripts and deployment are data.
By lines of source, most of the repository is of these kinds.

## 7. Plan

What could still be added, most useful first:

1. An abstract ledger (reserve, settle, lose) that `Limits` and `Gateway` implement.
2. Windows of calendar months, against a reference definition over bounded dates.
3. `Generations` with several pollers on one table.
4. The scopes of the cache, and its capacity across applications.
5. The price components of a model, saved one by one.
