---------------------------- MODULE TenantLifecycle ----------------------------
(***************************************************************************)
(* The life of a tenant: the tenants row and its status history            *)
(* (db/models.py), the API requests that create, delete and re-onboard it  *)
(* (api/routes.py), the Celery queue, and the workers that run the         *)
(* onboard_tenant task (worker.py) over the pipeline                       *)
(* (onboarding/pipeline.py).                                               *)
(*                                                                         *)
(* A status change is one database transaction in two steps: the SELECT    *)
(* that gives from_status, then the UPDATE, INSERT and COMMIT, which the   *)
(* row lock of the UPDATE makes one step for every other transaction.      *)
(* Between the two, any other request or task may commit.  The BEGIN that  *)
(* dates the history row (occurred_at is now()) is taken with the SELECT,  *)
(* its latest moment: the earlier it is, the fewer rows come before it.    *)
(***************************************************************************)
EXTENDS Naturals, Sequences, StatusTimeline

CONSTANTS
  Tenants,     \* tenant ids
  Workers,     \* worker processes, each runs one task at a time
  Jobs,        \* identities of onboard_tenant tasks: bounds how many are sent
  MaxRetries,  \* max_retries of the task (5 in worker.py)
  Mode,        \* the mode of each tenant's TenantSpec
  NoTenant,    \* a job that was not sent
  NoJob        \* an idle worker's job, and the writer of a request's history row

ASSUME ConstantsAssumption ==
  /\ MaxRetries \in Nat
  /\ Mode \in [Tenants -> {"PROVISIONED", "BYOC", "OTHER"}]
  /\ NoTenant \notin Tenants
  /\ NoJob \notin Jobs

VARIABLES
  row,           \* tenants.status, Absent when there is no row
  history,       \* tenant_status_history, in commit order
  request,       \* the POST /tenants request in flight for each tenant id
  target,        \* the tenant each job is about
  broker,        \* messages in the queue
  worker,        \* what each worker process is doing
  began,         \* history rows committed when its status transaction began (ghost)
  bootstrapped,  \* tenants whose cluster some run bootstrapped to the end
  settled,       \* each job's final status once it is committed (ghost)
  audit          \* audit_events about jobs: <<job, action>>

vars == <<row, history, began, request, target, broker, worker, bootstrapped,
          settled, audit>>

Absent == "ABSENT"
DefaultStatus == "PROVISIONING"
Final == {"READY", "ERROR", "FAILED_RETRYABLE"}
Statuses == {"PROVISIONING", "BOOTSTRAPPING"} \union Final
Running == "RUNNING"  \* no final status yet

Entry == [from : Statuses, to : Statuses, by : Jobs \union {NoJob}, began : Nat]
Message == [job : Jobs, retries : 0 .. MaxRetries]

\* A status transaction runs at "read" and "write" and continues at `then`.
Stages == {"start", "provision", "bootstrap", "completed", "failed", "done"}
Task == [pc : {"idle", "read", "write"} \union Stages, job : Jobs \union {NoJob},
         retries : 0 .. MaxRetries, goal : Statuses,
         from : Statuses \union {Absent}, then : Stages]
Idle == [pc |-> "idle", job |-> NoJob, retries |-> 0,
         goal |-> DefaultStatus, from |-> Absent, then |-> "done"]

TypeOK ==
  /\ row \in [Tenants -> Statuses \union {Absent}]
  /\ history \in [Tenants -> Seq(Entry)]
  /\ request \in [Tenants -> {"none", "inserted", "enqueued"}]
  /\ target \in [Jobs -> Tenants \union {NoTenant}]
  /\ broker \in SUBSET Message
  /\ worker \in [Workers -> Task]
  /\ began \in [Workers -> Nat]
  /\ bootstrapped \in SUBSET Tenants
  /\ settled \in [Jobs -> Final \union {Running}]
  /\ audit \in SUBSET (Jobs \X {"started", "completed", "failed"})

Init ==
  /\ row = [t \in Tenants |-> Absent]
  /\ history = [t \in Tenants |-> <<>>]
  /\ request = [t \in Tenants |-> "none"]
  /\ target = [j \in Jobs |-> NoTenant]
  /\ broker = {}
  /\ worker = [w \in Workers |-> Idle]
  /\ began = [w \in Workers |-> 0]
  /\ bootstrapped = {}
  /\ settled = [j \in Jobs |-> Running]
  /\ audit = {}

\* The tenant a worker's job is about.
Subject(w) == target[worker[w].job]

dbVars == <<row, history, began>>
tasksVars == <<bootstrapped, settled, audit>>

--------------------------------------------------------------------------------
(* API requests *)

SendTask(t) ==
  \E j \in Jobs :
    /\ target[j] = NoTenant
    /\ target' = [target EXCEPT ![j] = t]
    /\ broker' = broker \union {[job |-> j, retries |-> 0]}

\* POST /tenants up to the flush of the INSERT: invisible to others until the
\* commit.  A second request for the same id waits there on the unique index
\* and fails if the first commits, so one request at a time is past this point.
InsertTenant(t) ==
  /\ row[t] = Absent
  /\ request[t] = "none"
  /\ request' = [request EXCEPT ![t] = "inserted"]
  /\ UNCHANGED <<dbVars, target, broker, worker, tasksVars>>

\* The task is sent while the row is still uncommitted.
EnqueueOnboarding(t) ==
  /\ request[t] = "inserted"
  /\ SendTask(t)
  /\ request' = [request EXCEPT ![t] = "enqueued"]
  /\ UNCHANGED <<dbVars, worker, tasksVars>>

CommitTenant(t) ==
  /\ request[t] = "enqueued"
  /\ request' = [request EXCEPT ![t] = "none"]
  /\ row' = [row EXCEPT ![t] = DefaultStatus]
  /\ history' = [history EXCEPT ![t] =
       <<[from |-> DefaultStatus, to |-> DefaultStatus, by |-> NoJob, began |-> 0]>>]
  /\ UNCHANGED <<began, target, broker, worker, tasksVars>>

\* The request fails or its process dies before the commit.  A task it has
\* sent stays in the queue.
AbandonRequest(t) ==
  /\ request[t] # "none"
  /\ request' = [request EXCEPT ![t] = "none"]
  /\ UNCHANGED <<dbVars, target, broker, worker, tasksVars>>

\* DELETE /tenants/{tenant_id}: the history rows cascade, tasks run on.  Their
\* transactions began before all of a history that starts anew.
DeleteTenant(t) ==
  /\ row[t] # Absent
  /\ row' = [row EXCEPT ![t] = Absent]
  /\ history' = [history EXCEPT ![t] = <<>>]
  /\ began' = [w \in Workers |->
       IF worker[w].pc = "write" /\ Subject(w) = t THEN 0 ELSE began[w]]
  /\ UNCHANGED <<request, target, broker, worker, tasksVars>>

\* POST /tenants/{tenant_id}/onboard, whatever the status is.
RequestOnboarding(t) ==
  /\ row[t] # Absent
  /\ SendTask(t)
  /\ UNCHANGED <<dbVars, request, worker, tasksVars>>

--------------------------------------------------------------------------------
(* Worker processes *)

GoTo(w, stage) == worker' = [worker EXCEPT ![w].pc = stage]

SetStatus(w, status, next) ==
  worker' = [worker EXCEPT ![w].pc = "read", ![w].goal = status, ![w].then = next]

Release(w) == worker' = [worker EXCEPT ![w] = Idle]

\* A message is acknowledged when a worker takes it: from here a crash loses it.
TakeMessage(w) ==
  /\ worker[w].pc = "idle"
  /\ \E m \in broker :
       /\ broker' = broker \ {m}
       /\ worker' = [worker EXCEPT ![w] =
            [Idle EXCEPT !.pc = "start", !.job = m.job, !.retries = m.retries]]
  /\ UNCHANGED <<dbVars, request, target, tasksVars>>

\* The started audit event, then the pipeline up to its first status callback.
StartJob(w) ==
  /\ worker[w].pc = "start"
  /\ audit' = audit \union {<<worker[w].job, "started">>}
  /\ CASE Mode[Subject(w)] = "PROVISIONED" -> SetStatus(w, "PROVISIONING", "provision")
       [] Mode[Subject(w)] = "BYOC" -> SetStatus(w, "BOOTSTRAPPING", "bootstrap")
       [] OTHER -> SetStatus(w, "ERROR", "failed")
  /\ UNCHANGED <<dbVars, request, target, broker, bootstrapped, settled>>

\* Mutant: a failure sets the status without a history row.
WriteStatusUnrecorded(w) ==
  LET me == worker[w]
      t == Subject(w)
  IN  /\ me.pc = "write"
      /\ row[t] # Absent
      /\ row' = [row EXCEPT ![t] = ColumnAfter(@, me.from, me.goal)]
      /\ history' = [history EXCEPT ![t] = IF me.goal = "ERROR" THEN @ ELSE
           Append(@, [from |-> me.from, to |-> me.goal, by |-> me.job,
                      began |-> began[w]])]
      /\ settled' = [settled EXCEPT ![me.job] = IF me.goal \in Final THEN me.goal ELSE @]
      /\ GoTo(w, me.then)
      /\ UNCHANGED <<began, request, target, broker, bootstrapped, audit>>

\* Mutant: the tenant is never read, from_status is assumed.
ReadStatusAssumed(w) ==
  /\ worker[w].pc = "read"
  /\ row[Subject(w)] # Absent
  /\ worker' = [worker EXCEPT ![w].pc = "write", ![w].from = DefaultStatus]
  /\ began' = [began EXCEPT ![w] = Len(history[Subject(w)])]
  /\ UNCHANGED <<row, history, request, target, broker, tasksVars>>

\* TenantStatusService.transition: the tenant is read, its status is from_status.
\* The transaction has begun at this point of the history or before.
ReadStatus(w) ==
  /\ worker[w].pc = "read"
  /\ row[Subject(w)] # Absent
  /\ worker' = [worker EXCEPT ![w].pc = "write", ![w].from = row[Subject(w)]]
  /\ began' = [began EXCEPT ![w] = Len(history[Subject(w)])]
  /\ UNCHANGED <<row, history, request, target, broker, tasksVars>>

\* The flush and the commit: the UPDATE if the column changes, and the history row.
WriteStatus(w) ==
  LET me == worker[w]
      t == Subject(w)
  IN  /\ me.pc = "write"
      /\ row[t] # Absent
      /\ row' = [row EXCEPT ![t] = ColumnAfter(@, me.from, me.goal)]
      /\ history' = [history EXCEPT ![t] =
           Append(@, [from |-> me.from, to |-> me.goal, by |-> me.job,
                      began |-> began[w]])]
      /\ settled' = [settled EXCEPT ![me.job] = IF me.goal \in Final THEN me.goal ELSE @]
      /\ GoTo(w, me.then)
      /\ UNCHANGED <<began, request, target, broker, bootstrapped, audit>>

\* Mutant: the task waits for the row by sending itself again.
TenantMissingResent(w) ==
  /\ worker[w].pc \in {"read", "write"}
  /\ row[Subject(w)] = Absent
  /\ broker' = broker \union {[job |-> worker[w].job, retries |-> worker[w].retries]}
  /\ Release(w)
  /\ UNCHANGED <<dbVars, request, target, tasksVars>>

\* The row is gone: transition raises ValueError, or the flush fails.  Neither
\* is an AdapterError or an OnboardingError, so the task ends there.
TenantMissing(w) ==
  /\ worker[w].pc \in {"read", "write"}
  /\ row[Subject(w)] = Absent
  /\ Release(w)
  /\ UNCHANGED <<dbVars, request, target, broker, tasksVars>>

\* The provisioner returns the cluster's credentials.
Provision(w) ==
  /\ worker[w].pc = "provision"
  /\ SetStatus(w, "BOOTSTRAPPING", "bootstrap")
  /\ UNCHANGED <<dbVars, request, target, broker, tasksVars>>

\* Mutant: the audit event comes before the status it reports.
BootstrapAuditsFirst(w) ==
  /\ worker[w].pc = "bootstrap"
  /\ bootstrapped' = bootstrapped \union {Subject(w)}
  /\ audit' = audit \union {<<worker[w].job, "completed">>}
  /\ SetStatus(w, "READY", "done")
  /\ UNCHANGED <<dbVars, request, target, broker, settled>>

\* Probe, plan, registrar, GitOps and every module of the plan succeed.
Bootstrap(w) ==
  /\ worker[w].pc = "bootstrap"
  /\ bootstrapped' = bootstrapped \union {Subject(w)}
  /\ SetStatus(w, "READY", "completed")
  /\ UNCHANGED <<dbVars, request, target, broker, settled, audit>>

\* OnboardingError: the plan has errors, or policy denies a module.
RejectPlan(w) ==
  /\ worker[w].pc = "bootstrap"
  /\ SetStatus(w, "ERROR", "failed")
  /\ UNCHANGED <<dbVars, request, target, broker, tasksVars>>

\* Mutants of the retry: the count is not compared, or the handler goes on to
\* report an error after sending the task again.
RetryJobForever(w) ==
  /\ worker[w].pc \in {"provision", "bootstrap"}
  /\ broker' = broker \union {[job |-> worker[w].job, retries |-> worker[w].retries + 1]}
  /\ Release(w)
  /\ UNCHANGED <<dbVars, request, target, tasksVars>>

RetryJobAndReport(w) ==
  /\ worker[w].pc \in {"provision", "bootstrap"}
  /\ worker[w].retries < MaxRetries
  /\ broker' = broker \union {[job |-> worker[w].job, retries |-> worker[w].retries + 1]}
  /\ SetStatus(w, "ERROR", "done")
  /\ UNCHANGED <<dbVars, request, target, tasksVars>>

\* A retryable AdapterError while retries are left: the task is sent again with
\* its count raised and this run of it ends.
RetryJob(w) ==
  /\ worker[w].pc \in {"provision", "bootstrap"}
  /\ worker[w].retries < MaxRetries
  /\ broker' = broker \union {[job |-> worker[w].job, retries |-> worker[w].retries + 1]}
  /\ Release(w)
  /\ UNCHANGED <<dbVars, request, target, tasksVars>>

\* Mutants of the last try: reported while retries are left, or sent again too.
GiveUpEarly(w) ==
  /\ worker[w].pc \in {"provision", "bootstrap"}
  /\ SetStatus(w, "FAILED_RETRYABLE", "done")
  /\ UNCHANGED <<dbVars, request, target, broker, tasksVars>>

GiveUpAndRetry(w) ==
  /\ worker[w].pc \in {"provision", "bootstrap"}
  /\ worker[w].retries = MaxRetries
  /\ broker' = broker \union {[job |-> worker[w].job, retries |-> worker[w].retries]}
  /\ SetStatus(w, "FAILED_RETRYABLE", "done")
  /\ UNCHANGED <<dbVars, request, target, tasksVars>>

\* A retryable AdapterError on the last try.
GiveUp(w) ==
  /\ worker[w].pc \in {"provision", "bootstrap"}
  /\ worker[w].retries = MaxRetries
  /\ SetStatus(w, "FAILED_RETRYABLE", "done")
  /\ UNCHANGED <<dbVars, request, target, broker, tasksVars>>

\* Mutant: the error is swallowed and the run counts as complete.
AdapterRefusalIgnored(w) ==
  /\ worker[w].pc \in {"provision", "bootstrap"}
  /\ SetStatus(w, "READY", "completed")
  /\ UNCHANGED <<dbVars, request, target, broker, tasksVars>>

\* An AdapterError that is not retryable.
AdapterRefuses(w) ==
  /\ worker[w].pc \in {"provision", "bootstrap"}
  /\ SetStatus(w, "ERROR", "done")
  /\ UNCHANGED <<dbVars, request, target, broker, tasksVars>>

\* The closing audit event, in a transaction of its own after the status.
WriteAudit(w) ==
  /\ worker[w].pc \in {"completed", "failed"}
  /\ audit' = audit \union {<<worker[w].job, worker[w].pc>>}
  /\ GoTo(w, "done")
  /\ UNCHANGED <<dbVars, request, target, broker, bootstrapped, settled>>

EndJob(w) ==
  /\ worker[w].pc = "done"
  /\ Release(w)
  /\ UNCHANGED <<dbVars, request, target, broker, tasksVars>>

\* The process dies, or an exception nothing catches (ConfigError, RuntimeError
\* of a plugin, a database error) ends the task.
Crash(w) ==
  /\ worker[w].pc # "idle"
  /\ Release(w)
  /\ UNCHANGED <<dbVars, request, target, broker, tasksVars>>

--------------------------------------------------------------------------------

RequestStep(t) ==
  \/ InsertTenant(t)
  \/ EnqueueOnboarding(t)
  \/ CommitTenant(t)
  \/ RequestOnboarding(t)

RequestFault(t) == AbandonRequest(t) \/ DeleteTenant(t)

\* What a worker does when every adapter answers.
Progress(w) ==
  \/ TakeMessage(w)
  \/ StartJob(w)
  \/ ReadStatus(w)
  \/ WriteStatus(w)
  \/ TenantMissing(w)
  \/ Provision(w)
  \/ Bootstrap(w)
  \/ WriteAudit(w)
  \/ EndJob(w)

AdapterFault(w) ==
  \/ RejectPlan(w)
  \/ RetryJob(w)
  \/ GiveUp(w)
  \/ AdapterRefuses(w)

Next ==
  \/ \E t \in Tenants : RequestStep(t) \/ RequestFault(t)
  \/ \E w \in Workers : Progress(w) \/ AdapterFault(w) \/ Crash(w)

\* A worker process keeps working; requests, faults and crashes need not occur.
Fairness == \A w \in Workers : WF_vars(Progress(w) \/ AdapterFault(w))

Spec == Init /\ [][Next]_vars /\ Fairness

(* Properties *)

Held(j) == {w \in Workers : worker[w].job = j}
Queued(j) == {m \in broker : m.job = j}

\* A job is in one place: one message in the queue or one worker process.  A
\* retry of it never runs beside the run it retries (worker.py's self.retry).
SingleCarrier ==
  /\ \A m1, m2 \in broker : m1.job = m2.job => m1 = m2
  /\ \A w1, w2 \in Workers :
       worker[w1].job = worker[w2].job /\ worker[w1].job # NoJob => w1 = w2
  /\ \A m \in broker, w \in Workers : m.job # worker[w].job

\* Once a job has committed READY, ERROR or FAILED_RETRYABLE it has no retry
\* left in the queue and never touches the tenant again (the except clauses of
\* onboard_tenant either retry or report, never both).
SettledIsOver ==
  \A j \in Jobs : settled[j] # Running =>
    /\ Queued(j) = {}
    /\ \A w \in Held(j) : worker[w].pc \in {"completed", "failed", "done"}

\* A tenant shown READY has a cluster that some run bootstrapped to the end,
\* however many tasks, deletions and re-creations interleaved.
ReadyIsEarned == \A t \in Tenants : row[t] = "READY" => t \in bootstrapped

\* The status of a tenant is the to_status of a recorded change that no other is
\* later than, as the history is read (occurred_at of overlapping transactions
\* says nothing of their commits).  The row on top may disagree: it may be of an
\* overlapping task, or of one that read X and set X again, a history row and
\* no UPDATE, after another task moved on.
RowFollowsHistory ==
  \A t \in Tenants : row[t] # Absent => Explains(history[t], row[t])

\* With one task ever sent for a tenant, the history is an unbroken chain that
\* ends at the row's status: retries of one task run one after the other.
Sole(t) == \A j, k \in Jobs : target[j] = t /\ target[k] = t => j = k

SoleJobKeepsChain ==
  \A t \in Tenants :
    LET h == history[t]
    IN  Sole(t) /\ row[t] # Absent => Unbroken(h) /\ h[Len(h)].to = row[t]

\* The audit trail never claims an outcome the job did not commit:
\* tenant.onboard.completed only after READY, tenant.onboard.failed after ERROR.
AuditAgreesWithOutcome ==
  \A j \in Jobs :
    /\ <<j, "completed">> \in audit => settled[j] = "READY"
    /\ <<j, "failed">> \in audit => settled[j] = "ERROR"

\* Where a job is, as JobDelivery sees it.
Carrier(j) == CHOOSE w \in Workers : worker[w].job = j
JobPhase(j) ==
  CASE target[j] = NoTenant -> "unsent"
    [] Queued(j) # {} -> "queued"
    [] Held(j) # {} /\ worker[Carrier(j)].goal = "FAILED_RETRYABLE" -> "exhausted"
    [] Held(j) # {} /\ worker[Carrier(j)].goal \in {"READY", "ERROR"} -> "settling"
    [] Held(j) # {} /\ worker[Carrier(j)].goal \notin Final -> "running"
    [] OTHER -> "over"
JobTries(j) ==
  CASE Queued(j) # {} -> (CHOOSE m \in Queued(j) : TRUE).retries
    [] Held(j) # {} -> worker[Carrier(j)].retries
    [] OTHER -> 0

Delivery == INSTANCE JobDelivery WITH
  phase <- [j \in Jobs |-> JobPhase(j)], tries <- [j \in Jobs |-> JobTries(j)]

\* The task implements the queue's contract: tries bounded by max_retries, one
\* settlement, FAILED_RETRYABLE reported only when every retry was used.
ImplementsDelivery == Delivery!DeliverySpec

\* Every job that was sent leaves the queue and its worker: no job is retried
\* for ever or parked, however adapters fail.
EveryJobEnds ==
  \A j \in Jobs : target[j] # NoTenant ~> Queued(j) = {} /\ Held(j) = {}

--------------------------------------------------------------------------------
(* The system on its best day: no crash, no deletion, no failing adapter, and  *)
(* one request to create a tenant, which commits.                              *)

BestDayNext ==
  \/ \E t \in Tenants : InsertTenant(t) \/ EnqueueOnboarding(t) \/ CommitTenant(t)
  \/ \E w \in Workers : Progress(w)

BestDaySpec ==
  /\ Init /\ [][BestDayNext]_vars
  /\ \A w \in Workers : WF_vars(Progress(w))
  /\ \A t \in Tenants : WF_vars(EnqueueOnboarding(t) \/ CommitTenant(t))

\* What docs/02-architecture.md, 4.1 and 4.2, says of onboarding: its last step
\* marks the tenant READY.
CreatedBecomesReady == \A t \in Tenants : row[t] = DefaultStatus ~> row[t] = "READY"

================================================================================
