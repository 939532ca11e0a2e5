# Verification of the AIOps Platform API

TLA+ modules, TLC configurations and TLAPS proofs for the platform in
`services/platform-api`: a FastAPI service, a Celery worker, a PostgreSQL
database and adapters to Git, Argo CD, Kubernetes, Vault and webhooks.  Paths
below are relative to `services/platform-api/src/` unless they start elsewhere.

Run a model with `tlc -config TenantLifecycle.cfg MCTenantLifecycle`, check a proof
with `tlapm TenantLifecycleProofs.tla`.  `PROJECT.json` lists the runs, the lines
each definition models, the hazards and the theorems.

## 1. The system

Any number of API processes answer requests; each request has one database
session, and most commit once, at their end.  Celery beat and the API put tasks
in a queue; worker processes take them, one at a time each.  The database
is the only state that processes share (READ COMMITTED, no explicit locks, no version
columns), so what makes the system hard is what happens between a SELECT
and the COMMIT that depends on it, and what is done outside the database before
that commit: a task sent, a webhook posted, a pull request opened.

| Component | State | Operations | Talks to | What makes it correct |
|---|---|---|---|---|
| Tenant onboarding: `api/routes.py`, `worker.py`, `onboarding/pipeline.py`, `db/services.py` | tenants, tenant_status_history, audit_events, the queue | create, delete, re-onboard; the onboard_tenant task with retries | queue, adapters, module engine, policy | status agrees with its history; READY is earned; a task retries or reports, once |
| Event outbox: `db/services.py`, `integrations/event_dispatcher.py` | events, subscriptions | append, subscribe, dispatch run every 30 s | webhooks, secrets | no uncommitted event is sent; DISPATCHED is delivered; every event settles |
| Incidents: `api/routes.py`, `aiops/` | incidents, incident_transitions, remediation_prs, Git | ingest, evidence, investigate, create-pr, transition | investigator, Git provider, policy | status follows the timeline and the table; approved pull requests, one for a branch; every record is backed by one |
| Idempotency: `api/middleware.py` | idempotency_keys | lookup, claim, complete | wraps protected POSTs | one effect per key; replay of what ran |
| Policy: `governance/` | rules, policy_decisions | evaluate, obligations, record | called by most handlers | nothing happens against the first rule that applies; decisions match effects |
| Access requests: `api/routes.py` | access_requests | create, approve, deny | policy, audit | decided by who the row says |
| Rate limiter: `api/middleware.py` | admission stamps per process and tenant | admit or 429 | wraps all requests | never more of a tenant than the limit in a window, and no refusal without cause |
| Authentication and RBAC: `auth/`, `plugins/keycloak.py` | signing keys cached per process | verify a token, check a permission, scope a listing | identity provider | keys are seen as they recently were; rows stay in their tenant |
| Metadata and products: `api/routes.py`, `worker.py` | tenants.metadata, Argo CD applications | enable, disable, integrations of a run | GitOps | what is enabled was installed; no change is lost unless writers overlap |
| Listings and search: `api/routes.py`, `db/repositories.py` | none of their own | read a page | every table | a client that reads on misses no row |
| Exports: `api/routes.py`, `worker.py`, `exports/` | exports, artifact_refs, files | create, task, download | queue, artifact store | a bundle holds together; a QUEUED export is under way or met with a mishap |
| Services and promotion: `scaffolding/`, `promotions/` | promotions, Git | scaffold, promote | Git provider, policy | what is on record has a pull request of its own, and a scaffolding its repository |
| Module engine: `modules/engine.py`, `config/merge.py` | none | plan | called by onboarding | READY has every module, under the name its template gives and with the values its chart gets |
| Provisioning: `provisioning/` | provisioning_runs, artifacts, work directory, Terraform state, vault | provision, plan, apply, destroy | Terraform, Vault | onboarding goes on with the cluster that was asked for |
| Drift: `drift/` | drift_runs, artifacts | scheduled and manual run | Terraform, GitOps, cluster | the summary is of one run, whole, errors included |
| Metering: `metering/` | samples, rollups | scheduled and manual collection, FinOps summary | cluster, registry | a recent sample is in the summary |
| Evidence, redaction, investigators: `aiops/` | none | collect, redact, propose | adapters | stateless |
| Registry, plugins, config loader, UI, CLI, SDKs, charts | none of their own | | | not modelled, see section 7 |

The behaviours a test hardly reaches are listed in `PROJECT.json` under `hazards`,
each at its line with the properties that cover it.

## 2. The modules

| Module | Models | Run by |
|---|---|---|
| `StatusTimeline` | a status column beside the log of its changes, as the mapper writes both | (used by four modules) |
| `JobDelivery` | abstract: what the queue and the task's except clauses promise about one job | refinement of `TenantLifecycle` |
| `TenantLifecycle` | requests, queue, worker processes and onboarding runs | `MCTenantLifecycle` |
| `EventOutbox` | events, subscriptions and overlapping dispatch runs | `MCEventOutbox` |
| `IncidentLifecycle` | one incident, its timeline and its pull requests | `MCIncidentLifecycle` |
| `IdempotencyGate` | one Idempotency-Key | `MCIdempotencyGate` |
| `PolicyEngine` | rule evaluation and obligations, as operators | through `AccessApproval` |
| `AccessApproval` | one access request behind the policy gate | `MCApiRequests` |
| `ModulePlanner` | which modules a tenant gets and how, as operators | through `TenantModules` |
| `TenantModules` | the metadata column and the applications, by product requests and onboarding runs | `MCApiRequests` |
| `GitChanges` | promotions and scaffolding against Git and its users | `MCApiRequests` |
| `RequestGate` | the rate limiter and the token check of each process, with a clock | `MCApiRequests` |
| `Rbac` | permissions and tenant scope, as operators | through `Listing` |
| `Listing` | paged listings while rows are written | `MCApiRequests` |
| `Exports` | an export from its request to its download | `MCWorkerTasks` |
| `DriftRuns` | overlapping runs of the detectors | `MCWorkerTasks` |
| `Metering` | overlapping collections and the FinOps summary, with a clock | `MCWorkerTasks` |
| `Provisioning` | calls of Terraform for one tenant | `MCWorkerTasks` |
| `TenantLifecycleProofs` | theorems about `TenantLifecycle`, and that it implements `JobDelivery` | TLAPS |
| `EventOutboxProofs`, `IncidentLifecycleProofs`, `IdempotencyGateProofs`, `AccessApprovalProofs` | theorems about the module each is named for | TLAPS |
| `StatusTimelineProofs` | lemmas about the timeline, used by two of these | TLAPS |
| `ApiRequestsProofs` | theorems about `GitChanges`, `RequestGate`, `TenantModules` and `Listing`, and about these and `AccessApproval` together | TLAPS |
| `WorkerTasksProofs` | theorems about `Provisioning`, `Exports`, `DriftRuns` and `Metering`, and about all four together | TLAPS |

How state and steps correspond to the code:

- **Transactions.**  A handler that reads, works and writes is two or more
  actions: the SELECT, each call that other parties can see, and the COMMIT.
  The flush before a commit takes the row lock, so UPDATE and COMMIT are one
  action, except in a dispatch run, where flushes and the commit are far apart
  and `flushed` is the set of rows locked.
- **Columns.**  SQLAlchemy writes only the columns that changed since they
  were read.  `ColumnAfter` is that rule.  It matters: a task that read X and
  sets X leaves what another task wrote in between and still logs a history row.
- **Failures.**  A process may die in any state (`Crash`, `Die`, `AbortRun`,
  `Abort`, `EndRequest`): memory and uncommitted changes are lost, what
  was sent, posted or opened stays.  Exceptions nothing catches end a task the same way.
- **Adapters** are external.  A plugin's answer is a choice: success, a refusal, an
  AdapterError that is retryable or not.  No plugin in the tree raises
  AdapterError itself; the task handles it for those a deployment adds.
- **Ghosts.**  `settled`, `bootstrapped`, `accepted`, `refused`, `owed`, `ran`,
  `expired`, `clean`, `raced`, `began`, the branch number in `pulls`, and
  in the later modules `wanted`, `overlap`, `restarted`, `mishap`, `since`, `before`,
  `changed`, `alone`, `shrunk` and `first` record what has happened for a property to talk
  about; no guard reads them.
- **Time.**  A column filled by `now()` of PostgreSQL holds the start of the
  transaction, not of the statement: `occurred_at` of a tenant's history, `created_at`
  of an incident's timeline and of a listed row, and `started_at` of a drift run are in
  the order in which transactions began.  `Listing` and `DriftRuns` keep their rows in
  it.  The two logs of `TenantLifecycle` and `IncidentLifecycle` are sequences in the
  order of commits, and every row has in `began` how many rows were committed when its
  transaction began, which is all that the dates are sure to tell.  A reader finds row k
  above row i if i was committed when k's transaction began (`IsLater`); rows of
  overlapping transactions may come in either order.  "Explained by the log" (`Explains`)
  therefore means: the status is that of a change that no other change is later than.
  It is not said, and does not hold, that the row read first is the last committed.

`TenantLifecycle`: `InsertTenant`, `EnqueueOnboarding` and `CommitTenant` are
`create_tenant` up to its flush, its `send_task` and its commit; `TakeMessage`
is Celery's early acknowledgement; `StartJob` to `EndJob` walk through
`onboard_tenant` and `OnboardingPipeline.run`, every status change going through
`ReadStatus` and `WriteStatus`; `RetryJob`, `GiveUp`, `AdapterRefuses` and
`RejectPlan` are its except clauses.

`EventOutbox`: `StartRun` is `list_pending`,
`ResolveSubscriptions`, `SendAccepted`, `SendRefused` and `FlushStatus` are the
loop of `dispatch_pending`, `CommitRun` the one commit of the task.
`IncidentLifecycle`: `ReadIncident` starts every handler, `CreateBranch` and `OpenPull` are
the plugin's calls, `CommitTransition` is `_record_incident_transition` and the commit.
External: `SettlePull` and `DeleteBranch`, by users of the Git provider, at any time, also
between the two calls of a request.  Once the branch is deleted create-pr makes it again,
from PR_CREATED too, where an equal status passes the table: an incident may have several
pull requests, so the properties speak of branches and of records.

`IdempotencyGate`: the actions follow `dispatch` from top to bottom; `Expire` is the
clock.  `AccessApproval`: `Begin` reads, `PassGate` and `FailGate` are
`evaluate_and_record_policy`, `Commit` is the rest.

`TenantModules`: `BeginToggle`, `FlushToggle`, `InstallTemplate` and `CommitToggle` are
`enable_product` and `disable_product` up to their read, their flush (which takes the row
lock), their calls of Argo CD and their commit; `StartInstall` is the plan of a run that
got past its probe, `InstallItem` the loop over its items, `ReadMetadata` and
`StoreIntegrations` are `_update_metadata` of the worker.  The onboarding run stands
beside `TenantLifecycle`, which has the task's queue, retries and status; one run at a time
is enough here, since two of them write the same integrations.  `ModulePlanner` tells
apart templates with a name that has the tenant's id in it, with a fixed one, which all
tenants share, and with none (`Named`), and those with and without a helm source,
without which no values are written (`Values`).

`GitChanges`: `CreateRepo`, `PushBranch`, `OpenPull` and `ReadChecks` are the plugin's
calls, `CommitChange` the row; a branch is named by what is changed, which is what the
calls meet each other at.  A scaffolding names its repository apart from its service: one
service may be scaffolded in several repositories, and several services may ask for one.
External: users settle pull requests and delete branches, though not in the moment
between a call's push and its pull request; that they delete or rename a repository is
left out.

`RequestGate`: `Arrive` is `RateLimitMiddleware.dispatch`, which is outside
`AuthMiddleware` (`main.py:93-96`) and keeps one window for all callers of a tenant;
`VerifyCached`, `FetchKeys` and
`StoreKeys` are `verify_token` with its blocking fetch, during which the process does
nothing else.  `Listing`: `ReadPage` is one list endpoint in its
five kinds; the client that adds up offsets until `X-Total-Count` is external.
`Exports`: `SendExport` and `CommitExport` are the handler, `TakeExport` to `CommitBundle`
the task, table by table, the tenant's own row before the audit trail.  `DriftRuns`: the loop of `DriftManager.run`, with its
`except Exception` and the update after it.  `Metering`: `CollectSample`, `RollUpHour`,
`RollUpDay` and the commit of `collect`; of a period without samples no rollup is made.
`Provisioning`: `InitDir`, `MakePlan`, `ApplyPlan`, `ReadOutputs`, `WriteSecret` and
`SkipSecret` (no reference in the vault is configured) are the commands of the runner and
the service; Terraform is external, and its own lock makes plan, apply and destroy one
step each, an apply or destroy stopping half way included.

Definitions marked "Mutant" are wrong variants of the definition below them, each a bug that
code could have; `PROJECT.json` pairs every property with one that breaks it.

## 3. The runs

| Run | Instance | Shows |
|---|---|---|
| `tenant_lifecycle` | 1 tenant, 2 jobs, 2 workers, 1 retry | safety of onboarding; the task implements `JobDelivery` |
| `tenant_jobs` | 2 tenants (provisioned, unsupported mode), 2 jobs, 1 worker, 1 retry | every job ends |
| `tenant_best_day` | 1 of each, no faults | violation: a created tenant need not become READY |
| `event_outbox` | 2 events, 2 subscriptions, 2 runs of up to 2 events; or 3 events, none rolled back, and 1 subscription | delivery, blame, no phantom, no lock cycle; every event settles, the one behind a full batch too; only overlapping runs change a settled status |
| `event_retry` | 2 events, 2 subscriptions, 1 run of 1 event | violation: FAILED_RETRYABLE is never retried |
| `incident_lifecycle` | 2 concurrent requests, timeline and making of the branch bounded | status, timeline, approved pull requests, one for a branch, records backed by them |
| `incident_closed` | the same | violation: CLOSED is reopened |
| `idempotency_gate` | 3 alike requests and a different one | one effect, earned replays |
| `idempotency_replay` | a few requests | violation: a replay is not the stored answer |
| `api_requests` | modules: 2 product requests and 1 run over 5 modules (three kinds of name, with and without helm), 2 specs, 2 providers, 3 probe reports. git: 2 calls, 1 route and 1 service, 3 repositories, 2 tags, 1 check. gate: 3 requests, 1 process, 2 keys, 3 ticks. listing: 4 rows of 2 tenants, 1 client, pages of at most 2. approvals: 3 calls, 2 principals, all lists of at most 2 of 4 rules | installed before enabled; no lost change; READY is complete; changes own their pulls; honest window; recent keys; complete pages in the reader's tenants; nothing against the policy; records agree with effects |
| `rate_limit_callers` | gate: 3 requests of 2 callers of one tenant | violation: the limit is not one of each caller |
| `worker_tasks` | exports: 2 exports, 2 facts (one a change of the tenant's row) in 7 tables. drift: 2 runs of 3 detectors. metering: 3 collections, a summary of 2 rows, 3 ticks, 1 retry. provisioning: 3 calls, 2 versions, one with a vault reference | bundles hold together and are under way; summary of one run; samples billed; provisioned as asked |

Why these bounds are enough to be interesting: every race in the code is between
two parties over one row (two tasks, two dispatch runs, two requests), so two of
each, with one object, reach all of them; a second object is there where order between
objects matters (lock order, batches) or where one must not affect the other
(blame).  One retry separates "first", "last" and "not last".  Three alike
requests allow a claim, a repeat and a takeover of an expired claim at the same
time.  Two rules show order; a third would repeat it.  `MaxTimeline` bounds the log,
`MaxBranches` how often a branch is made, `Jobs` the tasks sent, `Limit` the batch.  The
third event is made only while the platform's subscription is the one there is
(`Bounded` of `MCEventOutbox`), which leaves the requests and not the runs less to do,
so the fairness of the runs means the same.  Each run that stops at a bound says
`CHECK_DEADLOCK FALSE`.

`api_requests` and `worker_tasks` each join components that share no state any of them
decides on.  A behaviour picks one of them at its start and the others stand
still, so the states add up instead of multiplying; a property of a component is
checked over all behaviours of that component.  By part: modules 247,320 states, git
32,495, gate 1,295,504, listing 822,069, approvals 270,093; exports 52,500, drift 17,861, metering 1,169,452,
provisioning 824,818.  Two requests racing over one column, branch or name need two
calls; a third Terraform call is one that comes between the two that share a file.  Of
three collections and a summary of two rows one may overlap a sample's own and must leave
it billed, while two may push it out.  `Window`, `CacheSeconds` and `Latency` of one tick with `MaxTime` of three
let a window slide, a cache run out and a fetch be overtaken by a
withdrawal.  `PageCap` of two under limits up to three tells the three cases of a
limit apart.  `MaxCalls`, `Senders`, `MaxRows`, `MaxCollections`, `LastTick`
and `MaxTime` are bounds of the model and of nothing in the code.

Symmetry is used over identities that no definition distinguishes (jobs, workers,
runs, requests of the same payload), and only in runs without liveness.

## 4. Fairness

- `TenantLifecycle`: weak fairness of each worker process, over the steps that end in a
  success or a handled failure together.  A Celery worker keeps taking and
  running tasks; nothing says that adapters succeed, requests arrive or crashes stop.
- `EventOutbox`: weak fairness of each run, because beat starts one every 30 seconds
  and a run goes on while its calls return.  `EveryEventSettles` excepts
  behaviours in which runs are aborted for ever: a webhook that always
  raises does hold back the whole batch.
- `BestDaySpec` adds that the one request goes on to its commit, and takes away
  faults.  With that much granted the tenant may still stay PROVISIONING.

## 5. Where the code and its documents disagree

Each is a run that TLC refutes, described under `findings`: the onboarding task
overtakes the row it needs (`api/routes.py:280`); FAILED_RETRYABLE events are not retried
(`db/repositories.py:471`); a closed incident is reopened by a request that read it
earlier (`api/routes.py:168`); replays do not return the stored response
(`api/middleware.py:177`); and `rate_limit`, said to be "per-tenant/principal"
(`services/platform-api/README.md:99`), is one limit for all callers of a tenant
(`api/middleware.py:65`).

## 6. What is proved

Every safety property that a passing run checks, the action property `SettledOnce` and the
refinement `ImplementsDelivery` included, is a theorem for all values
of the constants.  The specifications that `api_requests` and `worker_tasks` run imply those of
each of their components (`EachPart`, `EachTask`), so the theorems about a component hold of
the joint run too, and their `TypeOK` follows from the components' (no run
evaluates that of `api_requests`).  None of these properties is
inductive alone.  Each proof has an inductive invariant, the lemma that Init implies it,
one lemma per action (or a shared one where several do the same to it), and the theorem
`... => []Inv` from which the properties follow.  TLC checked each inductive
invariant on the run's instance before it was proved.

| Proofs of | Invariant | What it adds to the properties, and why |
|---|---|---|
| `TenantLifecycle` | `IInv` | which stages a worker can be in with a live, a settled or an unsent job: that a job is in one place needs that an unsent one is nowhere; that READY was earned needs that a worker about to write it has bootstrapped |
| | `HInv` | the last change to commit gave the row its status (`RowGiven`), and every row's transaction began when less was committed (`BeganShape`), so no change is later than that one.  What a request not yet committed leaves to see (`RequestShape`), and that a sole job writes from the status it read (`SoleJobShape`) |
| `EventOutbox` | `IInv` | a run goes through its batch from old to new (`RunOrder`); what it flushed or is about to agrees with the answers there were (`RunHonest`); who is owed an event has it or can still get it (`OwedOrDone`) |
| `IncidentLifecycle` | `IInv` | a request that saw the whole timeline has read the present status (`ReadIsCurrent`), and the last change to commit gave it (`StatusGiven`).  A branch that was made belongs to one request, whose proposal is approved, or to one pull request (`BranchIsOwned`), and a pull request to one request or one record (`PullIsOwned`), whatever users do to both in between |
| `IdempotencyGate` | `IInv` | rows are never deleted under a request (`RowStays`); before the first expiry who inserted the row is the only one passed on (`OneHolder`): the primary key is the lock |
| | `EInv` | while no claim outlived its TTL the row is the claim of the one request in hand, and COMPLETED is said of one that finished (`ClaimsHold`) |
| `AccessApproval` | `IInv` | a call past the gate was permitted by the rules it met (`GateHeld`); audit events are those of commits |
| `GitChanges` | `VInv` | a call holds its branch until its pull request is open; no two calls share a branch, a pull request or a repository (`Apart`); an open pull request has its branch |
| `RequestGate` | `GInv` | a bucket holds only what was let through and all of it that the window still covers, so the window that ends with any request is not over full; every window is one of these, seen from its last request.  A key set, fetched or cached, is what the provider had at most `Latency` before its stamp |
| `TenantModules` | `TInv` | what a request or a run has dealt with so far is installed, and the plan of a run that goes on has no errors |
| `Listing` | `LInv` | a row not got yet has at least as many visible rows above it as the client has already skipped (`StillToCome`): rows come in above and, unless one is disabled, none goes, so offsets never pass it by |
| `Exports` | `XInv` | the tables read so far hold all that was there before the request, and nothing but committed facts; these are never deleted, so what an earlier table told of is there for a later one |
| `DriftRuns` | `DInv` | a run has one row per detector it came to, in order; what is committed is all rows of runs that are done |
| `Metering` | `MInv` | of two collections in the order of their daily rollups, the later counts the earlier, or overlapped it, or its sample is older than the day (`CountsEarlier`).  That the summary holds one that counts then follows by counting |
| `Provisioning` | `PInv` | what a call that was not disturbed finds at each stage: its version in the plan file, then built, then read |

`Delivers` proves the refinement: the initial states are initial states of `JobDelivery`, and
each action of `TenantLifecycle` is, for every job, the delivery step of that job or a
stutter, under `IInv`.  `NoLockCycle` follows because a run waits only for an event later than
all it holds, for a circle of any length (`WaitsAreOrdered`).  That the last change to
commit gives the status, and explains it as the table is read, is `LastGaveAppend` and
`LastGaveExplains`, which both logs use.  Two lemmas do
the counting where sets of rows meet numbers: `PlaceOf` (the place of a row in a sorted listing is
the number of rows above it) and `NextPage` (a page leaves out only what is further down).

Assumptions, all evaluated by TLC in the runs: the bounds are naturals; detectors are
distinct and none answers RUNNING (`DetectorsAssumption`); the tables of a bundle are
distinct, with the audit trail and the facts' tables among them (`TablesAssumption`; no
order is assumed); the events are numbered in their order of creation (`OutboxAssumption`); a tenant's name is
neither the unfilled template nor one that tenants share, and a module is in the
catalogue once (`ModulesAssumption`); rule books are finite lists
(`RuleBooksAssumption`); a page has at least one row (`ListAssumption`); and that the
tokens for "none" are not values.

What the proofs found out about the models: arms of a CASE overlapped in the action of a planned
module, in the layers of its values and in a write to the vault, where the code's
`if` chain has an order (they are IFs now); what a listing shows where the permission is not configured
was left unsaid in `PagesKeepToTenants`.  To be reasoned about, some definitions were
given other forms of the same content: the bucket of the rate limiter is a set of requests, a plan a
function on places of the catalogue, the rows of the FinOps summary those with few newer ones,
the results of a query a set described by its order.

Only model-checked, because the prover cannot reason about fairness: `EveryJobEnds` and
`EveryEventSettles`, and the five refuted properties, which need a behaviour
and not a proof.  What recursive definitions compute is not proved, for induction over
data is out of reach; the modules avoid them.

## 7. What is not modelled

- Adapter registry and plugins: HTTP calls whose answers are choices in the models.
  The OPA engine is one of them.
- Evidence, redaction and investigators: data of one request.  `last_fallback` of the
  shared investigator is listed as a hazard without a property, for it only decides
  on one more audit event.
- Deployments (sync, rollback), notifications and tickets, platform upgrades and DR:
  one call or one row per request, which no other code reads again.
- `config/merge.py` (a pure merge no modelled component calls), the configuration
  loader (its result is the constants), CLI, SDKs, UI, charts.
- Within modelled components: `decommission_tenant`, which no code sends; the
  workspaces of Terraform; the filters of an export, which the bundler
  ignores; the header that replaces a token in development; metrics, correlation ids
  and all text; database errors, except as a death of the process or, in a
  drift run, a broken session.

`GitChanges` takes the required checks from an explicit obligation of type
`required_checks`, the form in which the shipped policy writes it for
`remediation.create_pr`.  For `service.promote` that policy writes
`required_checks` among the *conditions*, which the payload of a promotion never meets:
with it every promotion is refused and nothing is left to model.

## 8. Plan

All components that keep state are modelled, and every safety property a run checks is
proved.  What is left:

1. `Ready` refined: that a run of `TenantModules` implements the bootstrapped step of
   `TenantLifecycle`, which today are two models of one task joined by their statuses;
2. lemmas for the operators that take part in several models (`TenantScope`, `EnabledModules`,
   `Evaluate`) stated on their own.
