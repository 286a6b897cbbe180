# A verification model of AI YouTube Factory

TLA+ modules for the backend of AI YouTube Factory (`src/apps/backend/app`),
the TLC configurations that check them on small instances, and TLAPS proofs of
the properties that matter most. Paths below are relative to
`src/apps/backend/app` unless they start with `src/`.

## The system and its parts

The backend is a FastAPI application over PostgreSQL and Redis. A request runs
in one database session (`db/session.py`): it reads rows, calls services and
providers, writes, and commits; an exception rolls everything back. Domain rows
(`models/mixins.py`, `EntityMixin`) carry a version, and an update of a row
that changed since it was read raises `StaleDataError`; identity rows
(`AuditMixin`) carry none. Nothing else serialises two requests.

| Component | State | Operations | What is hard |
| --- | --- | --- | --- |
| Payment collection (`services/payment_gateway.py`, `services/billing.py`, `core/payments`) | invoice and payment rows, the provider's charges and refunds, callbacks | charge, refund, record, webhook | read - provider call - write without a lock; repeated and late callbacks; a crash after the provider settled |
| Subscriptions and invoicing (`services/billing.py`) | subscription, usage and invoice rows | subscribe, cancel, record usage, close a period | two requests subscribing or closing at once; uniqueness constraints that stand in for locks |
| Video pipeline (`services/pipeline.py`) | pipeline run, stage history, video, publication | start, eight stages, fail, resume, publish | failing and resuming, one run in flight, retries of a stage |
| Job queue (`services/job.py`) | queue job and render job rows | enqueue, mark running/succeeded/failed, cancel, retry | late reports from a worker after a cancel or a retry |
| Workflow engine (`core/workflow`, `services/workflow.py`) | node outcomes, execution rows | level-by-level execution, conditions, retries | partial failure of a level |
| Workflow triggers (`services/workflow_triggers.py`, `agents/scheduler/scheduler.py`) | trigger rows with the time they fired | poll, fire, stamp, events | overlapping pollers, runs that cross the minute, rollbacks |
| Sessions and tokens (`services/auth.py`, `token_service.py`, `session_service.py`) | session, refresh token and one-time token rows | register, login, rotate, logout, terminate, reset | rotation and login race revocation, rows without versions, writes undone by the raise that follows |
| Counters in Redis (`services/login_guard.py`, `middleware/rate_limit.py`) | counters with a time to live | count, lock out, reset, let pass | increment and expiry are two commands; Redis fails, the process dies between them |
| Agents (`agents/`) | agent state, goals, tasks | run, pause, resume, cancel | pause and cancel while a task is awaited |
| Agent workflows (`agents/workflows/workflow.py`) | step statuses that outlive a run | run, steps of a group gathered, approvals, retries | an approval that is missing leaves its siblings running |
| LLM access (`core/llm`, `services/llm`) | cache, rate window, semaphore, circuit breaker; request, rollup and message rows | chat, structured chat, stream, account, append a turn | answers that come in after the circuit has opened, a slot and a row lock taken in either order, counters without versions |
| Task queue and event bus (`core/tasks`, `core/events`) | task records, subscriptions, dead letters | submit, cancel, retry, publish, deliver | cancel racing completion and retries; handlers that fail independently |
| Plugins (`core/plugins`) | the registry, the payload of a dispatch | register, unregister, dispatch | order, failures, removal during a dispatch |
| Webhooks (`services/notification.py`) | webhook and delivery rows | subscribe, enqueue, report, retry | reports that conflict, dead workers, a schedule with an end |
| Migrations and models (`db/migrations`, `models`) | the catalog of tables and `alembic_version` | upgrade head at every start of a container, downgrade | containers that start together, crashes half way, two hand-written descriptions of one schema |

The components call each other along these lines: routes call services; the
pipeline meters its renders through `UsageService`, whose rows `close_period`
bills; the gateway calls the payment provider and records what it settled
through `PaymentService`; `AgentService` runs agents, agents call the LLM
manager; `WorkflowTriggerService` fires `WorkflowService.execute`; every service
relies on the keys that the migrations have created. They share rows, never
memory, except for the agents, the task queue, the event bus and the
circuit breaker, which live in one process and one event loop.

## How the models are made

* **Sessions.** Where requests overlap, a session is a record with a `pc` that
  names its next `await` and the rows it has read. A read copies the row, with
  its version; a write is guarded by that version (`Fresh`, `InvoiceFresh`,
  `NotStale`) or ends in the conflict; identity rows have no version, and
  `Sessions` writes over whatever has been committed meanwhile. Flush and
  commit are one step: a flushed row stays locked until the commit, so nobody
  comes in between. A crash between them is the same as one before (`Abort`,
  `Lost`).
* **Event loop.** Where everything runs in one process (`WorkflowEngine`,
  `AgentRun`, `AgentWorkflow`, `TaskQueue`, `EventBus`, `Plugins`) an action is
  what runs between two `await`s, and requests come in at the `await`s.
* **External parties** (the payment provider, the publishing platform, the
  language model, the broker, Redis, Alembic and PostgreSQL's locks) do anything
  that the code in `src/` allows for; they are marked external in the map.
* **History variables** (`starts`, `failures`, `requeues`, `uploads`,
  `renders`, `fired`, `entered`, `lost`, and the fields `epoch`, `overlapped`,
  `late`, `raced`) record what happened and decide nothing.
* An operator introduced by "A deviation:" is no part of the model. It is the
  mutated form of the definition that follows it, with which the property named
  in `PROJECT.json` has been seen to fail.

### Modules

| Module | Models | State | Actions |
| --- | --- | --- | --- |
| `Payments` | `PaymentGatewayService`, `PaymentService`, the provider | `invoices`, `payments` are the committed rows; `settled`, `awaiting`, `refundedAt`, `callbacks` the provider's; `req` the sessions | `charge_invoice` is `ChargeRead`/`ChargeRefused`, `ChargeSettles`/`ChargeNeedsAction`/`ChargeDeclined`, then `record_payment` as `Lookup` and `Record`/`RecordConflict`; `refund_payment` is `RefundRead`, `ProviderRefunds`, `RefundLoadsInvoice`, `RefundRecord`; `handle_webhook` is `Deliver` |
| `Invoicing` | `SubscriptionService`, `UsageService`, `InvoiceService` | `today`, tables as sequences in order of creation, `req` | `SubscribeRead`/`SubscribeInsert`, `CancelRead`/`CancelWrite`, `RecordUsage`, `close_period` as its three awaits, `NextDay` |
| `JobQueue` | `QueueJobService` under redelivery | `jobs` rows, `call` per caller, history | `Start`, `Report`, `Client` read and check; `Commit` writes; `Lost` |
| `VideoPipeline` | `VideoPipelineService` for one video | runs, video, scripts, publication, analytics, usage, sessions, history | one call each: `BeginStart`/`InsertRun`, the stages as begin and commit, publish as `Claim`, `Upload`, `CommitPublish`, `Abort` |
| `WorkflowEngine` | `WorkflowGraph.levels`, `WorkflowEngine._run_levels`, `WorkflowService.execute` | the graph and the truth of its conditions (any), levels, node status and number of calls, outcomes, the row | `Place`/`Placed` build the levels, `Decide` evaluates the conditions into a level and makes its tasks, `Start` or `EndsUncalled` begins one after the other in the order of the keys, `CallAgain` for the further items of a loop, `HandlerEnds` in any order, `CollectResults`/`CollectError`, `Record`, `Lost` |
| `AgentRun` | `BaseAgent.run` with planner, executor, reflector and policy, under `AgentManager` and `AgentService` | agent state, goal, task graph, the round in hand, limits, flags | planning, rounds of tasks with retries, reflection and replanning, closing and persisting; `Pause`, `Resume`, `Cancel` at every await |
| `LlmAccess` | `LLMManager.chat` and `stream`, `CircuitBreaker`, `with_retry`, `AccountingService`, `ConversationService.append` | `cached`, `window`, the breaker's `failures` and `opened`, `req` per call, committed `rollups`, `recorded`, `messages` | `Begin` asks the cache, `CheckRpm`, `Admit` takes a slot and asks the circuit, `Answer`/`TransientFailure`/`OtherFailure`/`Retry`, `Store`; `AccountRead`, `Flush`, `AppendTurn`, `Commit`; `StreamBegins`, `StreamEnds`, `StreamCloses` |
| `Sessions` | `AuthService`, `TokenService`, `SessionService`, `LoginGuard` for one account | the committed rows of account, sessions, tokens and resets; the counter in Redis; `req` | `Register`; `LoginCheck`, `Verify`, `CountFailure`/`SetWindow` or `ClearCounter`, `OpenSession`; `OAuthLogin`; `Rotate`/`RotateCommit`; `RevokeOne`/`RevokeAll`, `RevokeSession` per session, `RevokeCommit`; `ForgotPassword`, `ResetPassword`, `ResetLists`; `RedisFails`, `Abort` |
| `TaskQueue` | `InMemoryTaskQueue` | `record` per task, where its `_run` is, whether a cancellation is on its way | `Submit`, `Start`/`Wake`, the four ways a handler ends, `Cancel` |
| `EventBus` | `EventBus.publish` and `_deliver` | subscriptions, deliveries with their attempt, dead letters | `Subscribe`, `Publish`, `Handles`/`Fails`, `Returns`, `PublisherCancelled` |
| `Plugins` | `PluginRegistry` and the built-in plugins of `publish.before` | the registry with priorities, the payload and the listing as it was dispatched, what is left to run, the outcomes | `RegisterPlugin`, `Unregister`, `Dispatch`, `InvokeBuiltin`; `InvokeCustom`, the handler of another plugin, with any patch of description and tags and edits in place |
| `AgentWorkflow` | `AgentWorkflow.run` and `_run_step` | the layout (any), step statuses, the call, the coroutines that have not ended | `Run`, `Act`/`Succeed`/`Fail`, `Advance`, `Return` |
| `Webhooks` | `WebhookService` | webhook and delivery rows with versions, what each worker has read | `Create`, `EnqueueEvent`, `BecomesDue`, `Send`, `Report`, `Commit`/`RolledBack`, `Dies` |
| `Triggers` | `WorkflowTriggerService`, `cron_matches` | the clock, trigger rows, the transaction of each poller | `Tick`, `FireDue`, `DispatchEvent`, `Fire`, `Stamp`, `Commit`/`RollBack`, `SetActive` |
| `RateLimit` | `RateLimitMiddleware` for one bucket | the counter and its time to live, the cooldown, requests in flight | `Arrive`, `Count`/`CountFails`, `Expire`/`ExpireFails`, `Answer`, `Restart`, `Tick` |
| `Schema` | the seven revisions of `db/migrations/versions` | constants: the tables each creates and drops, in order, with foreign keys, their rules and unique keys | - |
| `Models` | the mapped classes of `models/` | constants: the same of the tables they declare | - |
| `Migrations` | `docker-entrypoint.sh`, `env.py`, Alembic and PostgreSQL as they use them | the committed catalog and version rows, the transaction of each run | `UpgradeHead`, `DowngradeOne`, `EnsureVersionTable`, one `CreateTable`/`DropTable` per table, `WriteVersion`, `Commit`, `StatementFails`, `BreakDeadlock`, `Crash` |
| `Billing` | `Payments` and, as the instance `IV`, `Invoicing` | both; Invoicing's `invoices` and `req` are `issued` and `session` | `InvoicingSpec` moves `IV` only |
| `Executions` | `WorkflowEngine` and, as the instances `AR` and `JQ`, `AgentRun` and `JobQueue` | all three; AgentRun's `pc` and `row` are `agentPc` and `goalRow` | `AgentRunSpec` and `JobSpec` move one part |
| `Revisions` | abstract: what the migrations promise | the revision and its tables | `Upgrade`, `Downgrade` |

`MC…` modules give the constants their values and, where the values are
interchangeable, a symmetry set. `MCBackground` composes the seven parts that
run beside the requests and share no state; a behaviour follows one of them.
`Billing` and `Executions` bring components together that belong together and
share no state either: one by `EXTENDS`, the others as instances whose
assumptions and properties they state. The runs `invoicing` and
`invoicing_cancel` go through `Billing` and the runs `agent_run` and `job_queue`
through `Executions`, with the other parts empty and at rest. (`agent_run` and
`job_queue` begin with an agent with and one without reflection; the latter has
every state twice for that reason.)
`…Proofs` modules hold the theorems, and `Sums` the facts about sums that two of
them need.

### The refinement

`Migrations` implements `Revisions` (`ImplementsRevisions`), under the mapping
that shows what is committed: the revision in `alembic_version` and the tables
in the catalog with their keys. In `Revisions` an upgrade is one step to the
head, whose tables are those the models declare, and a downgrade one step to
the revision before. Seventy-seven `create_table` calls, the locks between two
containers and an operator, crashes and deadlocks all have to map to one of
these steps or to none. The tests that always run compare names of tables and
columns on SQLite. `test_postgres_schema_matches_the_models_exactly`
(`src/apps/backend/tests/integration/test_migrations.py:178`) compares the head
with the models in full on PostgreSQL, but only where
`MIGRATION_TEST_DATABASE_URL` is set. The model compares unique keys, foreign
keys and deletion rules at the head and at every committed state before it.

## Runs

| Run | Question | Bounds |
| --- | --- | --- |
| `payments` | Do balance, status, refunds and rows agree, whichever of the overlapping sessions commits first? | three requests, two deliveries, an invoice of 3 cents and one of 0. Three requests are a charge, a rival payment and a refund; two deliveries can be the same callback twice |
| `payments_live` | Is every settled charge recorded in the end? | one invoice, three requests, one delivery slot; no symmetry |
| `invoicing` | Is usage billed exactly once, and does numbering never block? | four sessions, two usage rows, three days in three months: two closings on either side of a month boundary, and two that take each other's rows |
| `invoicing_cancel` | Violated: a subscription can be cancelled | the same, without usage |
| `job_queue` | Are attempts and retries counted right under redelivery, and who can reopen a finished job? | three callers on one job (calls on different jobs share nothing), two attempts, eight writes: start, fail, retry, start, fail and the late reports of a second worker |
| `pipeline` | Is no artifact, script version or upload lost or mixed up? | two callers, two runs, two scripts, six calls: enough to take a run to its publication, or to let every pair of calls overlap twice |
| `workflow` | Order, pruning, stopping, recording and termination of an execution | every subset of eight pairs over four nodes (a diamond, a cycle and a self-loop among them), every truth of the conditions, every order in which handlers are called and end; two of the nodes, the first and the last by key, are loops over at most two items, so a loop can call its handler again before and after its siblings have started or raised |
| `agent_run` | Is the task graph respected, does a cancellation take effect, do agent, goal and row agree, does a run end? | one or two work tasks and the synthesis, one retry, four iterations, seven steps; with and without reflection |
| `llm_access` | Do late answers, rollups and sequences stay within bounds, and does every call end? | two calls of every kind on one slot, one retry, a threshold of two failures, an organization with and without a row for the day and calls without an organization. Two calls fill the slot, reach the threshold, cross each other's locks and, on the row of an earlier call, overwrite each other's counts |
| `migrations` | Is the committed schema always that of the committed revision, at the head that of the models, and is only an overtaken run refused? | the repository's own seven revisions and models, two containers and an operator, from every revision a database can be at. Two upgrades race, and either meets a downgrade |
| `sessions` | Which tokens and sessions survive a revocation or a reset, and does a lockout end? | two requests in flight on one account, two sessions, three tokens (a rotation of one, or one each), one reset, failures up to one more than lock the account; calls beyond two in flight add no pair that these do not |
| `background` | Do task records, event deliveries, plugin results, agent workflows, webhook deliveries, trigger stamps and rate limits come out right, and end? | see `MCBackground.cfg`: two tasks with two retries; two events, two handlers; one foreign plugin that runs before, between or after the built-in ones, short and long descriptions with and without a blank before the limit, tags up to a limit of three; three steps in every layout of a group and of approval gates, run twice; two events for one webhook, two workers, one death; two triggers, two pollers, two minutes; two requests at a time against a budget of two |

Deadlock checking is off where a bounded number of requests is made and the
system then rests; `migrations` checks it.

What the properties say is in the comment before each. The ones that took
several actors to break: `BalanceIsSumOfPayments` (a write over a stale balance
loses a payment), `RefundsBacked` (the ledger never shows more given back than
the provider gave), `SettledIsRecorded` (the charge settles, the request dies,
the callback must do its work), `UsageBilledOnce` (only the version on the usage
rows keeps two closings apart), `NextNumberIsFree` (the number is computed from
a count), `OneUploadAtATime` (publishing holds its row's lock across the call
of the platform), `RecordIsABeginning` (the recorded outcomes are closed under
predecessors whichever handlers of a level fail), `CancelTakesEffect` (a
cancellation that comes in during the last round is not overtaken by
completion), `SequencesDiffer` (two turns of a conversation get different
numbers only because both have locked the rollup row first), `CallsEnd` (slots
and row locks are waited for in either order), `TokensEndWithTheirSession` (a
rotation that has checked its session races the revocation of it),
`ResetEndsOldSessions` (a login races the reset that lists what to end),
`RecordedOncePerMinute` (a poll during a run, a run that crosses the minute),
`FailedConcludes` (reports are lost to conflicts and worker deaths, and the
schedule must still end), `CompletedRanEachOnce` (a repeated run meets the
steps an earlier one left running), `ImplementsRevisions`.

### Fairness

Five runs assume any. `payments_live`: a request that has begun is served
to its end (the server awaits it), and the provider repeats a callback until it
is answered with a 2xx and not every delivery is cut off, hence strong fairness
on the steps of a delivery; no client has to send anything and no customer has
to confirm. `workflow` and `agent_run`: the event loop goes on with the run
(weak fairness of its steps) because handlers and model calls return, raise or
time out; the process may still die (`Lost`), which the properties allow for.
No pause is ever assumed to be followed by a resume. `llm_access`: a call that
has begun goes on (weak fairness of its steps: the provider answers or times
out, `asyncio.Semaphore` and row locks are granted when they are free); no
cache entry, window or circuit is assumed to expire. `background`: a handler
ends one way or another (the queue gives it a timeout), workers that poll
webhook deliveries go on doing so and a retry's time comes; a request in flight
goes on and Redis drops a key whose time is over. Nothing obliges a worker not
to die, a publisher not to be cancelled or Redis not to fail.

## Proofs

The theorems hold for every value of the constants allowed by the assumptions:
any number of invoices, requests, workers, jobs, nodes, calls, tasks and every
graph. Every safety property that a run checks is proved, invariants and action
properties alike.

The theorems about `Invoicing`, `AgentRun` and `JobQueue` are about the
specifications of the instances `IV`, `AR` and `JQ`, alone or with anything
beside them; `MovesInvoicing` and `MovesOnePart` say that the specifications of
the runs are among these.

* `Sums` is a small library about sums over finite sets as `MapThenSumSet` adds
  them up: a sum exists, its terms may be taken in any order, it moves with one
  of them, and it is bounded by what stands behind its terms (`SumBounded`).
  The library's induction theorems take an operator as a parameter, so these
  facts are proved from the least counterexample (`Least`): of the finite sets
  a fact fails for one has the fewest members.
* `BillingProofs`, payments (assumes that a bound on amounts is positive, totals
  keep to it, that requests and deliveries are different things and that there
  are finitely many requests). `TypeCorrect`, `StatusCorrect`,
  `OnlySettledRecorded`, `RefundsAreBacked`, `AppendOnly`, `BalanceCorrect`.
  `TypeOK` is not inductive: a session between two awaits works on an id and an
  amount chosen earlier, which `WellFormed` ties together. The
  safety invariants need in addition that a row whose version is still the one
  a session has read *is* the row it has read; a commit raises the version, so
  a commit makes every other copy of the row stale instead of wrong. A step
  then either writes a row computed from the current one or is refused.
  `BalanceCorrect` rests on `Sums`. A refund is at most what is left of its
  payment, which is at most the balance, so the clamp at zero never applies.
* `BillingProofs`, invoicing (assumes that a month has a positive number of
  days). `UsageCorrect`, `NumberCorrect`. A closing holds usage rows that exist
  and a number at most the next one (`Pending`); invoices are only added and
  never numbered ahead of their count (`Issued`). The type of an overage, which
  is a sum of quantities, is not part of the proof and nothing depends on it.
* `ExecutionsProofs`, job records (assumes a positive `MaxAttempts` and finitely
  many callers). `JobTypeCorrect`, `AttemptsCorrect`, `RequeuesBounded`,
  `OnlyReportsReopen`. `Snapshots` is the same argument about versions.
  `RequeuesWithinBudget` says nothing of the workers, so it is strengthened to
  `JobBudget`: failures and workers that have started and not reported together
  never exceed the starts, and a job that is failed has failed more often than
  it was requeued. A requeue then has
  `requeues < failures <= starts = attempts < MaxAttempts`.
* `BackgroundProofs`, the parts beside the requests (assumes that retries are
  natural numbers, that a workflow has steps and a minute ticks, that
  descriptions are records as described in `Plugins`, and that other plugins do
  not bear the names of the built-in ones).
  `RecordCorrect`, `DeliveriesConclude`, `TriggersRecordOnce`, `ListingCorrect`,
  `CompletionCorrect`. The parts share no state, so each has its invariant:
  `TaskInv` (a cancellation that is on its way to a run that has not begun has
  marked the record), `BusInv` (attempts and dead letters of each delivery),
  `TriggerInv` (what a poller has stamped nobody else has, and its copy of a
  trigger is not newer than the clock), `PluginInv` (the guard waits
  behind the plugin that reads the tags, and until that has run the listing is
  as it came unless another plugin has touched it), `WorkflowInv` (a
  step that the index jumps over is never run by any call, so its status denies
  completion for ever; without such a step a group is an interval and the steps
  entered are those before the next index).
* `ExecutionsProofs`, workflows (assumes that node keys are integers, for the
  order of collection). `TypeCorrect`, `DependenciesRespected`,
  `RecordCorrect`, `StopsOnFailure`, `ReachedCorrect`. The invariant has three
  parts: edges lead to later levels and all nodes have one when the walk begins
  (`Layered`); the levels before the one in hand are settled and those after it
  untouched, and tasks of nodes are there only while the engine waits for their
  level (`Walked`); outcomes keep up with the walk (`Kept`). A step of a task
  moves its node alone (`TaskMoves`), so a call after a failure is one of the
  level in hand (`StopsOnFailure`).
  `RunsAfterPredecessors` alone is not inductive: nothing in it says that a
  level that has been passed is settled. `ReachedCorrect` compares the walk
  with a closure of the edges that hold, without an induction over chains: the
  nodes that have not been skipped are themselves a set that contains the entry
  points and is closed under those edges, so a node outside of it is not
  reached; and every closed set contains each node whose handler was called,
  since `Followed` has a predecessor for it that ran on an earlier level.
* `VideoPipelineProofs` (assumes that bounds are natural numbers).
  `TypeCorrect`, `CurrentCorrect`, `UploadsSerialised`, `ArtifactsKept`.
  Versions again: `Loaded` says that a run or video that still has the version
  a session loaded is what it loaded, so a commit that passes the comparison
  loses nothing. `Checked` carries what a call has tested at its beginning to
  its commit, and `OneClaim` strengthens `OneUploadAtATime` to everybody who
  has claimed the publication, uploaded or not.
* `SessionsProofs` (assumes that there are ids for a session and a token
  and a positive `MaxAttempts`).
  `TypeCorrect`, `TokensEnd`, `SessionsEnd`, `FailuresEnd`. These rows carry no
  version, so the argument is about what a revocation has done so far:
  a session it has dealt with has no usable token that it has not updated
  (`EndedHit`), and a reset has all live sessions on its list (`ResetCovers`),
  both except for what a rotation or login that overlapped it has added. A
  rotation has seen its session live (`RotationSound`).
* `MigrationsProofs` (assumes a sound history: each revision creates tables of
  its own, at least one, and drops what it created, tables come after those
  they refer to and go before them, and the revisions together create what the
  models declare. This is `SchemaAssumption`; TLC evaluates it on the
  repository's seven revisions and its models, which it holds of).
  `OnlyOvertakenRefused` and `Implementation`, the refinement of `Revisions`,
  for any number of containers and operators. The invariant gives each run in
  progress the revision `f` it began at and what it has made since
  (`Ascending`, `Descending`); the database is at one revision; at most one run
  has written the version row, and what a run has created is in nobody else's
  way. It shows what keeps runs apart: the row of `alembic_version`, and on an
  empty database, which has none, the first table. The locks that foreign keys
  take are not needed.
* `ExecutionsProofs`, runs of agents (assumes that limits and numbers of tasks
  are natural numbers). `LimitsCorrect`, `DependenciesCorrect`,
  `OutcomeCorrect`. The place in the code determines the state of the agent and
  of its goal (`Phase`); the task graph is closed under dependencies, what is
  left of a round is ready, and the task in hand is marked as running
  (`Graph`); the limits hold wherever another step may be taken (`Within`).
  `DependenciesSucceeded` needs `Graph`: replanning appends tasks while others
  wait, and their dependencies, copied from the tasks that failed, must lie in
  the graph that has grown.
* `LlmProofs`, calls of language models (assumes finitely many calls and limits
  that are natural numbers). `TypeCorrect`, `RollupsCorrect`,
  `SequencesCorrect`, `LateCorrect`. `RollupsNeverExceedRecords` is not
  inductive, because what a session adds depends on a count that it has read
  before: `Backed` gives every record one rollup row that it stands behind,
  such that no row and no copy of a row that a session holds counts more than
  the records behind it. A lost update then only makes the row smaller.
  `SequencesDiffer` rests on the lock: of the calls that have flushed the
  rollup row of an account at most one has not ended (`OneLock`), and its
  messages are ahead of all that are committed for that account (`Ahead`). `FewLateAttempts`
  is a count that depends on who held a slot when the circuit opened.
  `Explained` says that there are such calls, at most as many as slots, and
  that each late attempt is a different pair of one of them and a number of its
  retries.

Only model-checked: everything that needs fairness (`SettledIsRecorded`,
`Terminates`, `RunTerminates`, `CancelTakesEffect`, `CallsEnd`, `TasksEnd`,
`FailedConcludes`, `LimitsEnd`), which is out of the prover's reach.

## Where the code and its documentation disagree

Shown by a run: `invoicing_cancel` (the lines are quoted in `PROJECT.json`).
Stated as a property of its module that no run checks, because it does not
hold; put in the place of the properties of the configuration named, TLC shows
how:

* `ChargesOnlyWhatIsDue` (`Payments`, `MCPayments.cfg`).
  `src/docs/Billing.md:91` says that a settled invoice is refused before the
  provider is called at all; a session that has read the balance before another
  one paid charges it again.
* `RendersAreMetered` (`VideoPipeline`, `MCVideoPipeline.cfg`).
  `src/docs/VideoPipeline.md:65` says that rendering records a usage event
  against the plan; `render` passes the project's id as the organization's, so
  the organization is never charged, and with foreign keys enforced no render
  is committed.
* `LegalMoves` (`Executions`, `MCAgentRun.cfg`). The lifecycle's table
  (`agents/base/lifecycle.py:88`) has no move from PAUSED to REFLECTING; a run
  that is paused in its last round makes it and fails.

Seen in the models, without a property of their own:

* Payments. The provider's id is derived from invoice and amount, so a charge
  after a full refund gets the id of the refunded payment: it is answered
  SUCCEEDED, `record_payment` returns the refunded row and the invoice stays
  open. Two overlapping refunds both reach the provider; one is recorded.
  Nor is a refund whose recording fails after the provider has paid it back, and
  nothing reconciles the ledger with the provider (`RefundsBacked` bounds the
  ledger from above only).
* Subscriptions. A trial and a paid subscription that are started at the same
  time are both granted, since the constraint is on (organization, status).
  `api/v1/routes/billing.py:82` says "replacing any active subscription", the
  service raises `ConflictError`. Closing the same period twice grants its
  allowance twice.
* Jobs. `services/job.py:21` calls SUCCEEDED and CANCELLED "Statuses a job
  cannot move out of."; `mark_succeeded` and `mark_failed` check no status, and
  `OnlyLateReportsReopen` is the weaker statement that holds.
* Pipeline. `services/pipeline.py:99` says "Only one may be in flight per
  video."; the search and the insert are two steps with no constraint behind
  them, so two overlapping starts both create a run. A stage of a failed run
  clears its error but not `finished_at`, so a new run can start beside it.
  `publish` writes status FAILED and re-raises;
  `session_scope` rolls the write back (`src/docs/VideoPipeline.md:61`). The
  platform is given `video.title`, `video.description` and the caller's tags,
  not the listing that plugins have shaped. When the commit that follows an
  upload fails, the upload is not recorded, and publishing again uploads again.
* Workflows. `core/workflow/engine.py:217` says "one failure stops the run"; it
  does at the end of the level: siblings that have not started still are, and a
  loop goes on calling its handler for its remaining items
  (`FailureStopsTheRun` is what holds). An execution whose condition raises is recorded without the
  outcomes of the levels that had run (`core/workflow/engine.py:147`;
  `services/workflow.py:236` expects them on the error).
* Triggers. `last_fired_at` is stamped when the execution has ended: a poll that
  overlaps it runs the workflow again, although only one run is recorded, and a
  run that crosses the minute stamps, and so suppresses, the next one. One cron
  expression that cannot be read makes every poll raise (`AllReadable`), and
  `create` does not check it.
* Agents. Dependents of a failed task never run: recoveries are appended round
  after round up to a limit and the goal is still COMPLETED, without its
  synthesis. An agent without reflection that is paused reports its goal
  COMPLETED. A cancellation acknowledged during reflection has no effect. The
  ready tasks of a round run one after the other, not concurrently
  (`src/docs/Planning.md`).
* LLM access. `services/llm/accounting.py:5` says "every LLM call is accounted
  for consistently": the rollup rows have no version, so sessions that overlap
  overwrite each other's counts; two first calls of a day without an
  organization insert two rows (NULLs are not equal to the constraint), after
  which every such call of the day fails with `MultipleResultsFound`; the
  records of a structured call whose last answer does not fit the schema are
  rolled back; agents call the manager and are not accounted at all. A stream
  that waits for a rollup row within its slot and a structured call that waits
  for a slot with the row locked wait for each other until a client goes away
  (`Crossed`; no route uses `chat_structured` yet). `src/docs/Conversation.md`
  calls the sequence of a message a "gap-free ordering index per conversation":
  turns with different models, or without an organization, can get the same
  number. When `EXPIRE` fails in `check_rpm` the window's counter never expires.
  `AnthropicProvider` turns every error into a plain `LLMError`, which
  `with_retry` does not retry. Half-open, the circuit admits every caller and
  not one probe.
* Sessions. When a consumed refresh token comes back, `rotate` revokes its
  session and raises; `session_scope` rolls the revocation back, so reuse is
  refused and the session lives on. An invitation that has expired is marked
  and the mark is rolled back in the same way.
* Migrations. `docker-entrypoint.sh` calls it safe to migrate at every start;
  of two containers that start together on an old database one is refused and
  fails to start (`RefusedOnlyWhenOvertaken` is what holds: nobody is refused
  but by the other's commit).
* Tasks. `cancel` writes CANCELLED over a status that is final already, and a
  task whose handler swallows the cancellation goes on and succeeds. A handler
  that raises CancelledError itself makes its task CANCELLED without a cancel.
* Plugins. `src/docs/Plugins.md:103` says that the guard "Truncates to YouTube's
  5000-character limit on a word boundary"; without a blank among the last 200
  characters it cuts within a word, and the mark behind the cut makes 5001
  (`src/apps/backend/tests/unit/test_plugins.py:381` admits them).
  `src/docs/Plugins.md:87` says "Mutating the payload in place does not
  propagate"; the copy is shallow, and a plugin that appends to the list of
  tags changes it for those after it, even if it then fails.
* Webhooks. A delivery whose first report is lost stays PENDING, and
  `due_retries` lists FAILED ones only.
* Agent workflows. Steps of a group that are not next to each other in the list
  make the index skip steps or run them twice; a missing approval leaves the
  other steps of its group running beside the next run.
* Rate limit and login guard. When the `EXPIRE` that follows the first `INCR`
  is lost, no later request repeats it: the counter never expires, and a client
  over its budget, or an account over its attempts, stays out until the key is
  deleted.

## Not modelled

`PROJECT.json` lists every component with its reason. Pure I/O (storage,
mail, provider SDKs), recording without effect (observability), the user
interfaces and single-row reads and writes (catalog, API keys, feature flags,
notifications and their preferences) have no behaviour that a model would add
to. Render jobs follow the calls of queue jobs, without their guards.
Organizations, teams, roles and invitations are rows whose uniqueness the
database keeps; nothing removes a membership.

Of the modelled components, prices and taxes of an invoice, the wording of
prompts and scripts, the content of metrics and the syntax of conditions are
abstracted to what control flow tells apart; `LlmAccess` has one provider, one
model per organization, and the usage rollup stands for the cost rollup too;
`Sessions` follows one account, since accounts share no rows; `Schema` and
`Models` keep tables, foreign keys with their deletion rules and unique keys,
not columns, their types and defaults (the PostgreSQL test compares these);
`Plugins` has the hook `publish.before` and the two built-in plugins that interact.

## Plan

The safety of the modelled components is proved; what is left lies elsewhere:

1. Liveness. `SettledIsRecorded` and the other properties under fairness stay
   with TLC; larger instances of them (two invoices, three calls) take longer
   than a run that is repeated with every change should.
2. The parts that are modelled in part: the `TOOL` and `DELEGATE` tasks of an
   agent once a planner produces them.
3. Render jobs, if they are given the guards of queue jobs.
