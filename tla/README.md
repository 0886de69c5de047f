# PartKit in TLA+

PartKit is a registry of vendored "parts" (billing, auth, webhooks, ...), each a
small TypeScript library with its own tables, and a CLI that copies parts into an
application's repository, guards the copies against edits, upgrades and ejects
them and migrates their tables. This directory models the parts of it whose
correctness depends on the order of steps: processes that overlap, crashes between
two statements, events that come twice or out of order, and state that is read at
one moment and used at another.

Paths below are relative to the repository; `dispatch` stands for
`registry/parts/webhooks.dispatch/1.0.0/part`, `tenancy` for
`registry/parts/auth.tenancy/1.1.0/part`, and so on for the other parts, `ops` for
`packages/core/src/ops`.

## Inventory

### The system and how its components interact

    CLI (packages/cli) ---> core ops ---> registry (files or HTTP)
                              |  resolve, download, vendor, hash, lockfile, package.json, AGENTS.md
                              v
        repository: parts/<name>, parts.lock  <--- guard, verify, audit (read-only)
                              |
         partkit migrate -----+---> Postgres: _part_migrations, the parts' tables
                                        ^
        application ---> parts at run time (one SqlExecutor seam each)
              ^               |
              |               +---> vendors, billers and endpoints over HTTP
        requests: ratelimit.api, then webhooks.ingest or billing.subscription

Commands share files and take no lock, except `migrate`, which takes a Postgres
advisory lock. Parts do not call each other; each talks to its own tables through
an executor the application hands it, statement by statement and without
transactions unless the application opens one. Serverless deployments and crons
mean that any two operations may run at once and any of them may stop between two
statements. Vendors deliver at least once and in any order.

| component | state | operations | hard behaviour | what makes it correct | status |
|---|---|---|---|---|---|
| webhooks.dispatch | endpoints, outbox, attempt log | registerEndpoint, dispatch, deliverDue | overlapping drains on stale pages, crash between request, log and mark, racing idempotent calls | settled once and truthfully, never dropped, one message per key, a bounded number of attempts | `WebhookDispatch` |
| partkit migrate | advisory lock, `_part_migrations`, the schema | planMigrations, runMigrations | concurrent deploys of different checkouts, sessions lost anywhere, no-transaction migrations | plans never stale, ledger contiguous and true, exactly once, the lock always released | `PartMigrate` |
| auth.tenancy | organizations, memberships | createOrganization, deleteOrganization, addMember, setRole, removeMember | statements whose reads are older than their writes | no orphan, one role, the last owner protected, removed stays removed | `Tenancy` |
| add, upgrade, eject | parts.lock, parts/, ejected/, package.json, AGENTS.md | addParts/addPart, upgradePart, ejectPart | a kill or failed file operation anywhere, two commands at once | damage stays local and is repaired by a re-run, nothing unattested is pinned, one provider per capability | `PartRepo`, `AddParts` |
| guard, verify | none (read parts.lock and disk) | guardRepo, verifyRepo | - | report exactly the parts out of step | operators of `PartRepo` |
| resolver | none | resolvePlan | closure over requires, cycles, multi-capability parts, majors | requires before requirers, nothing installed twice | `ResolvePlan` in `AddParts` |
| registry client | promise cache, temporary directory | index, contract, manifest, fetchContent | six workers, a failure flag, cleanup | all files or none, no write after cleanup | `FetchContent` in `AddParts` |
| billing.subscription | subscription mirror, event ledger, in-memory handlers | ingestWebhook, cancel, reactivate, changePlan, createCheckout | duplicated and reordered events, crash between upsert, ledger and handlers | mirror at the newest event, no lost update, handlers at most once per event | `BillingMirror` |
| billing.usage | usage ledger | record, reportDue, total, summary | crash between report and mark, overlapping passes, rows refused for good | nothing dropped, nothing billed twice, nothing starved | `UsageMeter` |
| jobs.queue | graphile-worker's job table, installed by the part | enqueue (add_job), listFailed, the operator's SQL functions, runWorker, drainOnce | an enqueue that meets a running job, workers that die with a lock, retries | no request forgotten, all attempts made, every job ends | `JobsQueue` |
| auth.apikey | keys | issue, verify, rotate, revoke | rotate is three statements with an early check | one successor per rotation, a refusal is final, the successor before the grace period | `ApiKeys` |
| webhooks.ingest | in-memory replay cache, handlers | verifyWebhook, webhookHandler | cache at its limit, time, a handler that fails | no signature accepted twice inside the window, nothing acknowledged unhandled | `WebhookIngest` in `IngestRoute` |
| ratelimit.api | in-memory counters or a store | rateLimit, the middleware | store at its limit, windows | never more than the limit in a window | `RateLimitApi` in `IngestRoute` |
| init | writes parts.lock once | init | - | - | not modelled |
| audit, MCP server, schemas, templates, CLI | none of their own beyond files | - | - | - | not modelled |
| auth.session | held by better-auth | - | in code outside the repository | - | not modelled |
| audit.log, flags.feature, search.fulltext, admin.crud | a table each | one statement per operation | none between two statements | - | not modelled |
| email, sms, storage | none | one vendor call | bounded retry inside a call | - | not modelled |
| website, benchmark, scripts, registry data | - | - | - | - | not modelled but for what publishing does to the index |

PROJECT.json lists every component with its sources and, under `hazards`, the
places where the order of steps matters, with the properties that cover them.

## Modules

| module | what it is |
|---|---|
| `OutboxPromise` | abstract: what an application is promised when it hands an event to an outbox |
| `WebhookDispatch`, `WebhookDispatchProofs` | the outbox, statement by statement, which implements `OutboxPromise`; its theorems |
| `PartMigrate`, `PartMigrateProofs` | `partkit migrate` and its theorems |
| `Tenancy`, `ApiKeys`, `AuthProofs` | auth.tenancy, auth.apikey, and the theorems about each |
| `PartRepo`, `PartRepoProofs` | the commands that change a repository, file operation by file operation; their theorems |
| `BillingMirror`, `UsageMeter`, `BillingProofs` | billing.subscription with the vendor, billing.usage with the biller, and the theorems about each |
| `JobsQueue`, `JobsQueueProofs` | jobs.queue with its workers and its operator; its theorems |
| `RateLimitApi`, `WebhookIngest`, `IngestRoute`, `IngestRouteProofs` | the limiter, the replay cache, and the process that composes the two in front of handlers; the theorems about the three |
| `ResolvePlan`, `FetchContent`, `AddParts`, `AddPartsProofs` | the resolver, the download, and `partkit add`, which composes the two; the theorems about the three |
| `MC...` | instances for TLC; `BillingMirror`, `IngestRoute` and `JobsQueue` need none |

In every module a step is what the program awaits: one SQL statement, one HTTP
request, one file operation. Operators marked `mutant` are plausible mistakes in
the definition that follows them; no specification uses them. They are there to
show that the properties can fail. Modules whose theorems share a module have prefixed
names where they would clash: ApiKeys' specification is `KeysSpec`, UsageMeter's
`MeterSpec`. No module is recursive: what the program computes by a loop is a set, a
function or a least closed set here, so that all of it can be proved about.

### WebhookDispatch

Tables are `endpoints`, `outbox` (a row per message id) and `log`. A caller of
`dispatch` inserts (`DispatchInsert`, ON CONFLICT DO NOTHING) and, on a conflict,
looks the winner up (`DispatchLookup`). A drain selects a page (`SelectDue`) and
for each row of it makes the request (`Send`), logs the attempt (`LogAttempt`) and
writes the row (`MarkRow`, with the status guard of the three MARK statements in
`Marked`). The page is a copy: the attempt is numbered from it, as in
`dispatch/src/internal/store.ts:130`. `MarkRow` may end the pass early (the 30 s
budget). `DrainCrash` is a statement that throws or a process that dies. The
endpoint is external: it may take an event and still answer 5xx or time out.
`taken`, `refused` and `sends` are the endpoint's side of the story. What `deliver`
(ssrf.ts) makes of a request are the four `Replies`; signing, the SSRF check and
validation are functions of one request and only enter through them.

### PartMigrate

`Start`, `AcquireLock`, `MakePlan`, then for each migration `BeginTx` and
`CommitTx` (or `RollbackTx`), or `RunNoTx` and `RecordNoTx` (or `RecordFails`),
then `Succeed` and `ReleaseLock`. A deploy chooses its checkout when it plans: an
older one, a longer one, one with an edited file. `Verified` and `Pending` are
planMigrations. `ran` records what was executed, which no table does. `LoseSession`
ends a session anywhere: Postgres rolls its transaction back and frees the lock.

### Tenancy

Every operation is one statement, but under READ COMMITTED its CTEs read a snapshot
and its write sees the present, so setRole, removeMember and addMember are a Begin
and an End with anything in between. `Losing` is what Postgres does to a statement
whose row is deleted under it: there is nothing to write, even if an equal row has
been inserted since. `overlaps` remembers the organizations where two statements
about to take different members off the owners were under way together, which is
the residual that `tenancy/SPEC.md:126-134` documents for two demotions.

### ApiKeys

`keys` is the table, a row reduced to its lifecycle columns. issueKey and revokeKey
are a statement each. verifyKey reads (`VerifyLoad`) and judges what it read by the
clock of a later moment (`VerifyAnswer`); rotateKey reads and tests (`RotateLoad`),
inserts the successor (`RotateInsert`) and retires the old key (`RotateRetire`,
which updates by prefix and nothing else). `Break` is a statement that throws or a
process that dies. `parent`, `refused`, `relapsed`, `raced` and `halved` are history:
who was rotated from whom, what verifyKey refused and later granted, which keys had
two rotations under way together, which had one cut after its insert. Callers are
assumed to hold the secret (without it verifyKey answers `invalid` whatever the row
says), so secrets, owners and scopes do not appear.

### PartRepo

A command reads the lockfile and decides (`Resolve`, `Pick`, `Open`, `PlanDeps`),
vendors (`Clear`, `Copy` file by file, `Hash`, `Attest`), for upgrade swaps
(`RemoveOld`, `Rename`, `Sweep`), for eject moves (`Move`, `Void`), and concludes
(`TruncateLock`, `WriteLock`, `ApplyDeps`, `SyncAgents`). `Copy` may bring in bytes
that are not the attested ones. `Kill` ends a command anywhere, with a recursive
removal left half done; `Fault` makes the awaited operation throw and the command's
own error handling run (`Thrown`: upgrade has a finally; eject reads every
exception as "not on disk"; an AGENTS.md that cannot be read is a warning), and
`Refuse` is everything that is thrown before a file is touched, inside upgrade's try
too, where the staging directory is swept. Two commands may overlap: each writes back the
lockfile and package.json it had read, and `Disturbed` is what happens to one whose
directory another removed. `hurt` remembers the parts a cut or overlapped command
was about, until a command runs alone to its end on them. `GuardClean` and
`VerifyClean` are what guard and verify check of a part and a pin, and `Fits` adds what
package.json and AGENTS.md should have: the vocabulary of the invariants. A file's content is the
release it came from. The parts of a plan are added in any order, which includes
the resolver's. Left out: .env.example, the adapter pre-flight (its failures are
`Refuse`), warnings, and package.json or AGENTS.md torn by a kill, which are
written whole here; parts.lock is not (`Torn`).

### BillingMirror

The vendor is part of the module: it changes a subscription and emits an event
(`CreateCheckout`, `ChangeSubscription`, `FailPayment`, `Unrelated`), delivers it in
any order until it is answered 200 and sometimes once more. Events are timed in
seconds, as `event.created` is, so two may bear the same time. A request is served
in the statements of ingestWebhook: `LookUp` for an event without metadata, the
upsert in two halves (`BeginUpsert`, `EndUpsert`), `Record` in the event ledger,
`Fire` for the handlers, `Answer`. The halves matter because the conflict clause
decides by the row as it is when it is written and the SELECT beside it reads the
snapshot: a stale event whose snapshot had no row yet returns none, which is a
storage error. An event whose metadata names an empty owner (`Blank`) is one too,
every time (`RefuseBlank`). A signature or time that is refused with 400, which asks the
vendor not to come back, is not modelled: every delivery is signed anew and in time.
A row is the event it came from (`ev`), whose it is, and whether it
has a plan. cancelAtPeriodEnd, reactivate and changePlan write nothing here: what
they do at the vendor comes back as an event.

### UsageMeter

record is an insert and, on a conflict, a lookup (`RecordUsage`). `reportDue` selects a page and,
row by row, reports (`Report`, `Reject`, `ReportFails`), marks (`Mark`, `MarkFails`)
or bumps (`Bump`). The biller remembers ids for a while (`known`), counts what it
does not remember (`Take`), may take an event and fail to answer, and forgets
(`Forget`), never under a pass that holds the row, because its window is a day and a
pass is half a minute. Attempts are counted up to one more than the faults (`cuts`), which
only rows refused for good pass.

### RateLimitApi, WebhookIngest, IngestRoute

One process of an application that mounts the webhook route behind the middleware,
as the examples of the two parts do. `RateLimitApi` is the fixed window over the
Map of counters, with the eviction at its cap; `WebhookIngest` the tolerance window
and the replay cache, with its shedding. Both keep time relatively, as what is left
of an entry's life, so that the clock needs no bound. `IngestRoute` composes them:
a request arrives and is limited (`Arrive`), verified (`Verify`), handed to one
handler after another (`Handle`, `HandlerFails`) with an await in between, and
answered. The vendor signs each attempt afresh (`Attempt`), the network repeats one
byte by byte (`Repeat`), other clients call (`Visit`), and the process is replaced
(`Restart`), whose memory is lost.

### ResolvePlan, FetchContent, AddParts

`ResolvePlan` is resolvePlan as an operator from a registry, its index, the pins and
what is wanted to a sequence of parts or a refusal: closure, majors, installed
capabilities, rounds of parts that are ready, alphabetical within a round. The two
loops of the program are stated by what they compute: the parts that `require` reaches are
the least set closed under it (`Candidates`), and a part is placed in the first round
before which all it requires is (`Rounds`); no round, no plan: a cycle.
`FetchContent` is the pool of workers over one queue with its failure flag, a step
per await (the request, the mkdir, the writeFile); the directory a worker writes to is
made again if it is gone before the mkdir, and the write fails if it goes after it.
That a capability has one provider in the index (`OneOffer`) is assumed: resolve.ts:90
says so, but neither resolvePlan, in which the last entry would win, nor
publish-part.mjs (283-291) sees to it. `AddParts`
is the command: resolve once, then part by part look for overlaps, download, vendor
and pin, while `Publish` moves the index. What vendoring does to files is PartRepo's
subject and one step here. `older` and `adrift` are history: which providers were
there before, and which parts came from a command that installed a release it had
not planned.

### JobsQueue

The job table and the SQL functions are in the repository, in the migration the part
installs; the workers are graphile-worker's, external, and modelled by what the part
relies on: take an available job, count the attempt, delete the row on success,
write the error on failure, unlock what was locked four hours ago. `add_jobs` is two
steps where its first statement writes nothing (`Enqueue`, `Insert`) and one where
it writes (`EnqueueAnew`), because the row it has written keeps others of the key
out until its transaction ends. `EnqueueDeduped` is the mode unsafe_dedupe. The
operator's functions are an action each, `remove_job` two (`RemoveJob`,
`RemoveLocked`). `attempts` stands for what is left of a job's attempts, so
reschedule_jobs with a new max_attempts is `RescheduleJob` as long as it leaves the job
no more than MaxAttempts; force_unlock_workers, which does not look whether the workers
are dead, is called for dead ones. A row carries the requests its payload speaks for; a worker holds
the payload it was given. `tries` counts the attempts since the row's last renewal,
which no column does. Queue names, priorities and due times only delay and are left
out; so are cron schedules, whose jobs graphile-worker inserts itself, and
transactions of the application around an enqueue.

## Runs

| run | instance | shows |
|---|---|---|
| `dispatch_overlap` | 2 callers, 2 drains, 2 messages, 2 attempts | one message per key, settlement final, truthful and logged, the outbox promise kept |
| `dispatch_single` | 1 drain, 2 messages, 3 instants, 1 crash, fair | the attempt budget up to crashes, nothing dropped |
| `migrate` | 2 deploys, 5 checkouts of 2 parts, 2 faults, fair | plans fresh, exactly once, truthful success, divergence stops, every run ends |
| `tenancy` | 3 statements, 1 organization, 3 users | no orphans, the last owner lost only to overlapping drops, the removed stay removed and are not rewritten when added again |
| `keys` | 2 operations, 3 keys, 2 instants | the successor before the grace period, one successor and final refusals but for overlapping rotations |
| `repo` | 3 command lines of which 2 overlap, 2 parts, 2 files, 2 cuts | damage is local and repaired, no stage left behind, add brings in no second provider |
| `billing` | 1 subscription, 2 users, 2 requests, 2 events, 2 faults, 1 repeat, fair | no lost update, the newest change wins, handlers at most once, no rewind, every event recorded that the table can take |
| `usage` | 2 callers, 2 passes of 2 rows, 3 events of which one is refused, 2 faults, 1 lapse, fair | one event per key, reported is billed, billed once, nothing starves |
| `ingest` | 1 event, 2 clients, 2 requests, 2 handlers, limit 2, windows of 2 s, 2 counters, 2 entries, 1 repeat, 1 fault, fair | the limit holds, bytes taken once, acknowledged is handled, events get through |
| `plan` | 4 registries of 3 parts in 2 releases, 2 commands, 1 release asked for, 2 workers, 2 files | requirements met, re-runs resume, no temporary directory left |
| `jobs` | 3 requests, 1 key or none, 2 workers, 2 attempts, 1 crash, 1 intervention, fair | no request forgotten, dead letters had their attempts, every job ends |
| `jobs_null` | 2 requests, 1 worker | finding: enqueue answers with a row of nulls and records nothing |

Most finish in seconds; `billing` takes half a minute, and `ingest`, `plan`, `repo`,
`usage` and `jobs` between one and a half and three minutes with two TLC workers.

### Bounds, and why they are enough

- Two drains: they meet only at a row, and what one can do to the other it does
  with one stale page; the theorems hold for any number. Two attempts let a drain
  hold attempt 1 while the other makes the last one. One endpoint: rows of
  different endpoints meet only in a page, and the theorem on keys covers any
  number. Time matters only relative to the backoff: `dispatch_overlap` has a
  single instant, at which every pending row is due, and `dispatch_single` a horizon
  of two backoffs, which gives every order of "due" and "not yet".
  Crashes with overlapping drains are left to the proofs; with one drain
  `dispatch_single` has them.
- Two deploys: the lock serializes them, so a third adds only another waiter. The
  five checkouts are an older, a current, a longer, an edited and a foreign state of
  the same repository. Two faults let recovery itself fail.
- Three statements over three users is the least in which two drops overlap while a
  third statement (an add, a promotion) comes between them. Statements about
  different organizations share no row.
- Two operations on three keys let a rotation meet another rotation, a revocation
  (one step) or a verification, and leave a key for the second successor; any number
  of them is proved. Two instants give every order of "running" and "over" for two
  grace periods and an expiry; `Never` is later than both.
- Repository: any of the parts may be installed to begin with. Two parts and two
  releases make a capability change hands; two files make a part half copied and
  half removed; two overlapping commands with two cuts let one be cut while the other
  goes on and the repair be cut too; the third command is the one that repairs.
- Billing: two events are enough for every order, for one second or two, and for a
  stale one; two requests let an upsert overtake another and two deliveries of one
  event be served at once; two faults cut a delivery and its redelivery. Subscriptions
  share no row, and any number of everything is proved.
- Usage: three events and pages of two leave one row out of the page; the refused one
  is the first recorded, so that it is in front. One lapse is what BilledOnce excepts.
- Ingest: a limit of two tells a count from its absence; two counters and two entries make
  every store overflow and every limit bite. One fault fails a handler or replaces the
  process between two; any number of them is proved, but for the liveness. Two seconds of window and of tolerance tell "the last second"
  from "over". One event: the replay cache tells deliveries apart by their age, so
  several signatures of one event fill it.
- Plan: the registries are a chain of requirements, one in which a major rises, a
  cycle, and one in which a capability moves to another part; in the others each part
  has its own capability, and both releases require other things.
  Three parts are the least with a part in the middle. Two commands let the second
  build on, or resume, what the first left. One part with a release asked for (`MaxAsked`)
  is enough to go astray; the theorems hold for any number of them. Two workers and two files let one fail
  while the other writes.
- Jobs: three requests under one key let an enqueue meet a job that is running, one
  that waits and one that is spent, two at once. Two workers let one run an old payload
  while the other runs the new one. Two attempts tell the last one from others. A
  second crash or intervention only repeats the first; any number is proved.
- `Horizon`, `MaxCrashes`, `MaxFaults`, `MaxAsked`, `MaxCuts`, `MaxRuns`, `MaxRows`, `MaxLapses`,
  `MaxEvents`, `MaxRepeats` and `MaxHands` only bound the instance. Where a bound stops the
  model (every message settled, every command run, every event delivered) the
  configuration says `CHECK_DEADLOCK FALSE`; `migrate`, `tenancy` and `keys` check deadlock.
- Symmetry is used for callers, drains and messages, for the elements of Tenancy, for
  keys, for command lines and for download workers, in runs without liveness only.

### Fairness

- `WebhookDispatch!FairSpec`: weak fairness of each drain's steps and of time. The
  seams of the part ask for a cron that calls deliverDue; a pass that has started
  runs unless it crashes, and crashes are bounded.
- `PartMigrate!FairSpec`: weak fairness of a run's own steps, which the process
  takes one after another, and strong fairness of AcquireLock, because Postgres
  queues the waiters of an advisory lock. Starting a deploy and losing a session are
  not fair.
- `BillingMirror!FairSpec`: weak fairness of each request's steps, and strong fairness of
  the vendor's redelivery of each event it was not answered 200 for: vendors retry every
  event on a schedule of its own, so one that is refused for ever holds up no other.
- `UsageMeter!FairSpec`: weak fairness of starting a pass and of its steps, from the
  cron the seams ask for.
- `IngestRoute!FairSpec`: weak fairness of the clock and of each request's steps, and
  strong fairness of the vendor's attempt of each event: it tries again for days, and a
  free request slot comes and goes.
- `JobsQueue!FairSpec`: weak fairness of each running handler (it ends, one way or the
  other) and of finding stale locks, which graphile-worker's runner does every few
  minutes as long as it runs (a deployment that only calls drainOnce may lack it, and
  then a job whose worker died stays locked), and strong fairness of taking each job, because
  workers take jobs in the order of run_at and id and so none is passed over for ever.
- Tenancy, ApiKeys, PartRepo and AddParts state no liveness: nothing in them is retried
  by the program.

## What is proved

All theorems hold for every value of the constants under the assumptions the
modules name: `DispatchAssumption`, `MigrateAssumption`, `KeysAssumption`,
`BillingAssumption`, `UsageAssumption`, `JobsAssumption`, `LimiterAssumption`,
`IngestAssumption`, `RouteAssumption`, `RepoAssumption`, `RegistryAssumption`,
`FetchAssumption` and `AddAssumption`; Tenancy needs none. They say that bounds are numbers,
that sentinels are no ordinary values, that limits are positive, that a registry has
finitely many parts and releases, and what shape its contracts have; TLC evaluates them
in the runs. Every invariant and every action property that a run expects to hold is a
theorem.

- **WebhookDispatchProofs.** `DispatchInv` is inductive. The properties alone are
  not: that a settled row is logged and truthful depends on what a drain between
  `Send` and `MarkRow` knows, so the invariant adds `DrainInv` (the attempt in
  flight was really made, its outcome is what the endpoint said, and before the mark
  it is in the log), `RowInv` (a row never counts more than was sent) and
  `KeysUnique`. From it follow type correctness, one message per key, logged before
  settled, truthful settlement, final settlement and, step by step, that the sender
  implements `OutboxPromise` under the mapping "state is the row's status, tries are
  the requests made". The attempt budget holds with one drain only, the deployment
  that `dispatch/seams.md:103` asks for: under `OneDrain` the invariant `BudgetInv` adds
  that a page is still as it was selected and that every request is counted in its row,
  is the one in hand, or was cut short by a crash.
- **PartMigrateProofs.** `MigrateInv` is inductive. Its heart is `PlanFresh`: while a
  run applies its plan, planning again would give the same plan. It needs `LockInv`
  (one run between plan and unlock), `RanAfterLedger` and `RecordsWhatRan`. From it
  follow freshness, exactly-once for transactional migrations, a truthful ledger, a
  truthful success and that divergence stops a run.
- **AuthProofs**, tenancy. `TenancyInv` is inductive. `OwnerlessNeedsOverlap` is not
  inductive by itself: that a drop leaves an owner was checked when it began, so the
  invariant keeps for every drop under way that another owner remains (`OwnerRemains`)
  and that all drops under way in an organization are about one member (`OneVictim`),
  unless an overlap was recorded; `LiveRows` ties what was read to what is there. The
  lemma `OwnersKept` is the step that needs all of them. From it follow the
  last-owner guard, no orphans, one role and that the removed stay removed.
- **AuthProofs**, API keys. `KeysInv` is inductive. That a refusal is final needs what a
  verification under way knows: the row it read is no more alive than the row is now
  (`Older`), and a refused key is dead now (`RefusedAreDead`). Both are broken by a
  rotation that retires a key already retired, so the invariant also says that a
  rotation under way holds an unrotated key (`CallInv`) and that two which hold the
  same key are on record (`Loners`). `Lineage` ties successors to rotations, for
  `OneSuccessor` and `NoOutage`.
- **BillingProofs**, the mirror. `BillingInv` is inductive. That a recorded event is
  reflected depends on what the request that records it has done before, perhaps long
  before: `RouteInv` says that a request past its upsert has its event reflected, which
  holds because no upsert takes a row back in time. `OneRunsHandlers` says that of all
  requests with one event only the one that recorded it runs handlers. From them follow
  no lost update, the newest change, handlers at most once, and the action property
  that the mirror never rewinds.
- **BillingProofs**, usage. `UsageInv` is inductive. `BilledOnce` needs `UsageRowInv`: as long
  as a row may still be reported, by being unmarked or by being on a page, what was
  billed for it is remembered by the biller or lapsed before the mark. `DrainInv` says
  that a row about to be marked was billed and is remembered. From them follow one
  event per key, that what is marked was billed, and no double billing.
- **JobsQueueProofs.** `JobsInv` is inductive. That no request is forgotten needs that
  a worker's end deletes only what the worker was given: `WorkerInv` (a running job is
  there, locked, and carries the payload its worker holds) and `OneRunner`. That
  stopped jobs had their attempts needs `JobInv`: attempts exceed tries only for a
  `Covered` job, whose requests are carried, done or ended elsewhere. Every step keeps
  covers by one lemma (`CoverKept`), because a payload leaves a job only when it is done
  or ended by hand (`Kept`).

- **PartRepoProofs.** `RepoInv` is inductive. `DamageIsLocal` says of each moment what is
  on disk; a command, though, writes back whole files it read long before. So the
  invariant says of every part that is not given up as hurt that what a command holds of
  it is still true (`Preserves`), and of the part a command is about, as long as it has
  the repository to itself, what it has achieved so far (`Achieved`: at each step which
  of parts.lock, the directories and package.json are already right) and what it has yet
  to touch (`Spared`). `Company` is why that is enough: a command that meets another gives
  all its parts up. `StageInv` (a staged tree has an upgrade under way that sweeps it) is
  the same for the staging directory, and `NoOverlap` (what add checked when it read the
  lockfile is true of the lockfile it writes, which is the one it read) for one provider
  per capability.
- **IngestRouteProofs.** The invariant has a part for each module. `LimiterInv`: a counter is
  unique in its window, outlives it, and has counted what was let through, unless it was
  evicted. `IngestInv`: what was accepted and can still be verified has an entry that lives
  until the tolerance of the acceptance is over. `RouteInv`: a request is at handler n
  only when its event ran through those before. Eviction and shedding keep some places of
  a sequence; the lemmas on ranks (`RankType`, `RankOnto`, `LeastPosition`, `OnlyKeeps`)
  say that this keeps order and entries, whatever is evicted. Besides the properties of the
  run, both stores are proved to stay within their caps.
- **AddPartsProofs.** `AddInv` is inductive. `RequirementsMet` needs of the plan under way
  that each part still to add finds what it requires: installed before, installed by this
  command in the planned release, or earlier in the rest of the plan (`PlanHolds`), and that the
  part being added is new (`TargetIsNew`). That a plan begins so is a property of the
  resolver (`PlanFacts`). `ResumeInv` says that resolving again gives the rest of the
  plan; its step is `PlanGoesOn`: once a part is installed whose requirements are, the
  candidates are the others, and they still have rounds and an order. That rounds exist
  is shown without induction: of all ways to rank the parts the lowest rank of each
  is a ranking (`LowestRank`), leaves out no number (`RanksAreDense`), and is the round of
  the part (`RoundsExist`); an order exists because counting the parts before each is a
  bijection (`OrdersExist`). `TempInv` says that workers run only while the command waits
  for them. The first attempt at `ResumeInv` was false, and so was the property as it was
  first stated: see the observation on parts that gain a capability.

Only model-checked: liveness (`NothingDropped`, `RunsEnd`, `EveryEventRecorded`,
`NothingStarves`, `EventsGetThrough`, `EveryJobEnds`), which is out of the proof system's reach.
The finding below is a counterexample of TLC's.

## Finding

`jobs_null`, the property `EnqueueRecords`. An enqueue with a job key first looks for a
job of the key that is running, finds none, and then inserts ON CONFLICT DO UPDATE
WHERE locked_at IS NULL. If a worker has locked the job in between, nothing is inserted
and nothing updated, the SQL function returns null, and the client sees one row of nulls
where it expects a row or none: enqueue answers with the id "null" and an invalid date,
and the request is lost. PROJECT.json quotes the lines and the documents.

## Observations

Differences between the code and its documents, or limits of what it promises, that the
models have and their properties except. They are no runs of their own.

- Overlapping drains of webhooks.dispatch rewind the attempt counter, because the
  attempt number comes from the page (`dispatch/src/internal/store.ts:130`); the
  attempts of a message are then bounded by no constant, where SPEC.md:80-82 says up to 6.
  One drain at a time keeps the budget, up to crashes (`BudgetUpToCrashes`).
- Two overlapping rotations of an API key both pass the test at
  `apikey/src/internal/store.ts:148`, and ROTATE_OLD_SQL (sql.ts:33-36) has no condition,
  so the later one resets the grace period forward, which SPEC.md:80-83 says cannot
  happen. Each mints a successor. `RefusalIsFinal` and `OneSuccessor` except it (`raced`).
- A billing event delivered again writes its state again (billing.ts:169 is before the
  ledger, sql.ts:36 is >=). If a later event fell into the same second its state is
  overwritten until the vendor's next event, where contract.json:82 promises no second
  state change. `NewestWins` speaks of changes alone in their second.
- The comment at billing sql.ts:12-15 says the upsert always returns a row. Under READ
  COMMITTED a stale event may find none: a storage error, which the redelivery repairs.
- A billing event whose metadata names an empty owner is a storage error each time it is
  delivered, because the adapters hand the empty string on (stripe/adapter.ts:73,
  paddle/adapter.ts:108) and the table refuses it (001-create-billing-tables.sql:16). The
  vendor redelivers it until it gives up, which lines 23-26 of the migration set out to avoid
  for statuses ("a poison event"). `EveryEventRecorded` is about the other events.
- A billing event without metadata that comes before the event that creates the row is
  recorded and changes nothing; changePlan does not update the plan in the metadata that
  later events carry.
- setRole and removeMember may answer `last_owner` about a member who was removed in
  the meantime (tenancy index.ts:159, 179).
- add writes the pin (add.ts:135) before package.json; a re-run takes the part for
  installed, so npm dependencies lost to a cut in between stay lost although the CLI says
  "re-run to resume" (cli.ts:165).
- eject reads any exception as "was not on disk" (eject.ts:58) and drops the pin of a
  directory that may still be there. The guard reports it as untracked.
- An installed provider satisfies a requirement of any major (resolve.ts:113-119),
  where docs/03-architecture.md:47 wants conflicts of majors to fail loudly. addParts
  resolves with the latest releases, but addPart installs the one asked for or the
  latest of an index read again; its requirements were not resolved.
- resolvePlan knows what is installed by capability only, so a plan may hold a part that is
  installed in a release which did not provide the capability yet (resolve.ts:99-121).
  addPart refuses it (add.ts:53-54) and the parts after it are not attempted, each time the
  command is run, where add-parts.ts:11 says that what the lockfile has is dropped. No
  harm is done; `RerunResumes` counts such a part among those still to add.
- The replay cache keeps an entry as long as the tolerance, but a timestamp ahead of
  the server's clock stays acceptable for longer: after the entry has expired the same
  bytes may be accepted again (replay.ts:5-8 says the two together cover the whole
  timeline). `TakenOnce` speaks of the tolerance after the first time.
- Fresh usage of at least a batch per pass, for ever, starves an event whose report
  failed once, since fewest failures go first (usage sql.ts:55). `NothingStarves` is about a
  ledger that is bounded.
- listFailed also lists a job that is running its last attempt after an earlier error,
  and does not list a job whose attempts all ended with their worker
  (jobs.queue sql.ts:30), where contract.json:46 says "exactly the jobs that exhausted
  their attempts". remove_job that meets an enqueue may leave a row that is neither
  tried nor listed.

## Not modelled

- init writes parts.lock where there is none, and hook, workflow and ignore files that
  no command reads back: one step, after which nothing depends on it.
- audit, the MCP server, printing and templates are read-only: they report on files or
  on the registry, and no state outlives the call.
- Schemas, signature schemes, the SSRF check, URL and path checks, key derivation and
  the validation of inputs are pure functions of one value. Their verdict enters the
  models as a choice (a delivery is authentic or is not considered, a send succeeds or
  does not).
- auth.session wraps better-auth, which holds its state and is not in the repository.
- audit.log, search.fulltext, flags.feature and admin.crud issue one SQL statement per
  operation; email, sms and storage.upload make one vendor call.
- Older releases of a part under `registry/parts` repeat the code of the release that is
  modelled; website, benchmark and most scripts are not part of the running product.
  These, with schemas and text, are the larger share of the implementation's lines,
  which is why the models map onto a small share of them.

## Plan

Done, in the order of how much depends on them and how hard they are to test: the
outbox, migrations, tenancy, API keys, repository commands; then billing, usage, the
webhook route, add over resolver and downloads, and the job queue. Next:

1. .env.example and the adapter pre-flight in PartRepo, init as an action of it, and
   guard's and verify's verdicts as operators composed with it.
2. An abstract specification of a repository of parts (each part absent, pinned and
   intact, or hurt) that PartRepo implements, with the step-by-step refinement proved, as
   it is for the outbox.
3. The branches of billing.subscription and of its adapters that only choose values
   (checkout, change of plan), and the trust policy and platform constraints of the
   resolver, as refusals with their own reasons.
