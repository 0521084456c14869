# Verification of the Experient backend

Experient is a survey and customer-experience product: a React application, a Node backend
(`src/backend`), a Python service of language-model pipelines (`src/crystalos`), a support site, and one
Postgres schema (`src/supabase/migrations`). The backend runs as several processes that share Postgres and
Redis and nothing else. What goes wrong in such a system is rarely one function: it is two requests between
whose database calls a third one slips in, a stream entry that is delivered again, a timer that fires beside a
late answer. This directory holds TLA+ models of the parts where that matters most, TLC runs over small
instances of them, and TLAPS proofs of the properties that hold for every instance.

Paths below are relative to `src/backend/src` unless they begin with `src/`.

## 1. Inventory

### Modelled

**Credit ledger** (`lib/creditLedger.ts`, `lib/creditPlans.ts`, `lib/payments.ts`, `routes/billing.ts`,
`routes/internal-metering.ts`, `routes/webhooks/stripe.ts`, `scheduler/jobs/reconciliation.ts`).
*State:* one `credit_accounts` row per organisation (allowance, pack, overage, plan), `org_profiles.plan_tier`,
the append-only `credit_ledger`, a Redis entry per organisation that caches the balance.
*Operations:* open the account on first touch, debit, read the balance (renewing an elapsed period), grant,
change plan, change the spend cap, fulfil a purchase. *Interaction:* every request is a sequence of round trips;
only the debit is one transaction with a row lock. *Hard:* first touches that race, a renewal between two
statements of another request, a webhook delivered twice, a crash between the account statement and its ledger
row, a cached balance that outlives its row. *Correct when:* no purse is overdrawn, the ledger explains the
balance, the two copies of the plan agree, a payment is credited once, every request acts as one indivisible
operation of an account.

**Workflow engine** (`lib/workflowEngine.ts`, `routes/workflows.ts`,
`scheduler/jobs/resumeDelayedExecutions.ts`). *State:* a `workflow_executions` row per execution, with its status,
attempts, next retry and idempotency key, and `workflow_approvals`. *Operations:* insert under a key, run, pause for an
approval or a delay, decide, resume, finalize, stamp a failure, dead-letter. *Interaction:* queue consumers,
HTTP handlers and the delay job run executions and meet only in these rows. *Hard:* two people deciding at
once, a decision that finds the approval already decided or not inserted yet, two replicas of the delay job, a finalizer that
comes after a reaper. *Correct when:* unless a decision came late, one process runs an execution at a time, a rejection stops it,
and an ended execution stays ended; a delay ends.

**Workflow trigger queue** (`lib/workflowQueue.ts`). *State:* the stream `workflow:triggers` with one consumer group,
and the rows above. *Operations:* publish, deliver, reclaim, acknowledge, sweep due retries, reap stuck executions.
*Hard:* at-least-once delivery against side effects, retries that carry the key of the row they retry, a crash
between two statements of the sweep. *Correct when:* an acknowledged event was evaluated, a redelivery starts
nothing, a failure is retried and the retry runs, nothing stays executing.

**Scheduler leadership** (`scheduler/leader.ts`, `runner.ts`, `index.ts`, `lib/db.ts`). *State:* the advisory
lock in Postgres; per replica `isLeader`, `leaderClient`, the connection pool, the jobs in flight.
*Operations:* the asynchronous tick (verify or acquire, then fire the due jobs), shutdown. *Hard:* ticks that overlap in one
replica and share its module variables, connections lost behind the replica's back. *Correct when:* who believes
to lead holds the lock, no job overlaps itself, some replica leads in the end.

**Event engine** (`eventEngine/processor.ts`, `lib/notificationEvents.ts`, `lib/notifications.ts`, `lib/channels.ts`).
*State:* the stream `notifications:events` with a consumer group, `notification_dedup`, `notifications`.
*Operations:* publish, deliver a batch, reclaim what is idle, resolve the recipients, claim the dedup window, insert, dispatch
to outside channels, start workflows, acknowledge. *Interaction:* its output is the input of the trigger queue. *Hard:*
an entry reclaimed while its holder is still at work, a crash between the claim and the row it is for, an exception that is
acknowledged, a delivery error that nobody sees. *Correct when:* one window notifies once, an acknowledged entry was tried for everyone.

**Broadcast approval** (`lib/broadcastEngine.ts`, `routes/outreach.ts`, `scheduler/jobs/expireStaleBroadcasts.ts`).
*State:* the status of an `outreach_broadcasts` row, the audit log, the credits charged. *Operations:* create, approve,
reject, delete, expire, send; the sending itself runs in `setImmediate` after the response. *Hard:* two people who send, an
expiry on another clock than the decision, a crash in the background part. *Correct when:* nothing is sent twice, late or
undecided, and only what was sent is charged.

**Suppression** (`lib/suppressionList.ts`, its callers, the bounce webhook of `index.ts`). *State:* the list in Postgres, a
Redis key per channel. *Operations:* ask (two GETs, a query, a SET), list, unlist, delete the key. *Hard:* cache-aside reads
beside edits, Redis or Postgres failing (it fails open), entries for all channels. *Correct when:* a stale answer has a cause that is
going to end, stale answers die out, and an entry takes hold.

**Prism migration engine** (`lib/prism/worker.ts`, `engine.ts`, `load.ts`, `extract.ts`, `survey.ts`, `routes/prism.ts`).
*State:* a `prism_jobs` row with stage, status, cursor and counters; uploads, raw log, mapping, survey, canonical rows.
*Operations:* a request creates the job; a worker claims it and carries it through eleven stages; analysts confirm, approve, pause,
resume, cancel. *Hard:* nothing fences a write: a worker or a request writes what it decided on a row that others have moved since; a
stage is repeated, a file does not parse. *Correct when:* no record is lost, a person opens the gates, the spine is walked one way and
once, a retry makes no second survey (each as far as no late write breaks it), and the job never falls silent.

**Response triggers** (`lib/redisStream.ts`, `src/crystalos/consumers/response_stream.py`, `src/crystalos/scheduler.py`,
`src/crystalos/graphs/insights.py`). *State:* the stream `insight_events`, counters in the memory of each replica, a trigger
lock in Redis, the rows of `agent_runs`. *Operations:* count events, start a run at a threshold or a tier, start one for a
survey that is due, sweep zombies; a run skips, publishes or dies. *Hard:* everything in memory is lost in a crash, three
actors start runs. *Correct when:* no event counted is forgotten, and a survey with responses nobody has
analysed becomes due again.

### Not modelled (see `PROJECT.json` for the full list)

| part | state and behaviour | why not |
|---|---|---|
| Frequency capper (`lib/frequencyCapper.ts`) | check-then-record cap per contact | its only caller passes no contact (`lib/channels.ts:175`): it counts nothing |
| Insight runs and other metered callers (`routes/insights.ts`) | pre-check, run, debit | planned, as a client of `CreditAccount` |
| Prism continuous sync (`lib/prism`), mapping versions | watermarked polling; shapes of mappings | planned |
| Support pipeline (`lib/pipelineStateMachine.ts`) | transition table, unguarded read-then-write | planned |
| Workflow graph (`lib/workflowEngine.ts`) | node traversal, resume points, cooldown | planned, under `WorkflowRuns` |
| Alerts, forecasts, digests, tag reports, segments | statistics and query construction | pure computation on data; no protocol |
| Roles, provisioning, seats | lookups, identity-provider webhooks | little shared state beyond single statements |
| Novu, Slack, connectors | best-effort calls to services | no protocol of their own |
| Web app, support site, agents service, designs, documents | | no state the backend depends on, or model answers |

Most of the repository's lines are of the last four rows (the React application alone is two thirds of them), which is why
the modelled share of its lines is small.

## 2. Modules

| module | models | composed with |
|---|---|---|
| `CreditAccount` | the abstract account: indivisible operations, a charge described by the splits it may take | |
| `CreditLedger` | the same operations as interleaved round trips of concurrent requests, with cache, ledger and crashes | extends `CreditAccount` and implements its `ASpec` |
| `WorkflowRuns` | execution rows and the processes that run them | |
| `WorkflowQueue` | stream, consumer loops, keys, sweep, reaper | extends `WorkflowRuns`: a consumer's loop starts runs |
| `SchedulerLeader` | election, overlapping ticks, jobs, failures | |
| `ConsumerGroup` | what a Redis consumer group promises: handed out, handed again, acknowledged by a holder | implemented by `WorkflowQueue` and `EventEngine` (`ServesTheStream`) |
| `EventEngine` | the notification consumers | instantiates `ConsumerGroup` |
| `Broadcasts` | status machine, send route and expiry | |
| `Suppression` | list, cache, senders | |
| `PrismJobs` | worker, stages, requests | |
| `ResponseTrigger` | consumer, scheduler and pipelines of one survey | |
| `MC_*` | values and symmetry sets | where a configuration needs more than sets |
| `*_proofs` | theorems | one each for `CreditLedger`, `WorkflowQueue` (which proves what `WorkflowRuns` promises first), `SchedulerLeader`, `EventEngine`, `Broadcasts`, `Suppression`, `PrismJobs`, `ResponseTrigger` |

Definitions whose comment begins with "Mutant" are plausible faults of the definition that follows. No
specification uses them; they show that a property would notice such a fault.

### CreditAccount and CreditLedger

`acct` is the `credit_accounts` row, `profile` the plan that feature gates read, `elapsed` whether the
30 days of the period have passed. A request `r` has a program counter `pc[r]` naming its next round trip, the row it
read last (`seen`) and the ledger amount it still has to write (`row`). One round trip is one action:
`getOrCreateAccount` is `SelectAccount`, `InsertAccount` (with ON CONFLICT DO NOTHING) and `SeedRow`; `getBalance` is
`CacheGet`, `ResetIfElapsed`, `SelectBalance`, `CacheSet`; `debitCredits` is the one action `Debit`, because the transaction
takes the row FOR UPDATE first; `grantCredits`, `setPlan` and `setOverage` are the account statement, then
`WriteLedger`, then `CacheDel`. `Crash` stops a request before any round trip, which is also what a statement
that throws does. Redis fails open: with `MayCrash` a get may miss, a set or a del may do nothing. History variables: `offBook`
sums the balance changes that have no ledger row by design, `granted` counts how often a payment reached the
pack, `fresh` in a cache entry tells whether it was right when stored and no DEL of it failed.
`ProfileReadable = FALSE` lets `resolvePlanTier` fall back to the default plan.

### WorkflowRuns

A row keeps status, kind of wait, the latest approval, attempts, retry and dead-letter marks and the key. What
a node list does is the choice of an outcome in `Ends`; a process between two statements is a `pc` (`running`, `ended`
when the result is known and not written yet, `stamping` between reading and writing `attempt_count`, `gate` between the UPDATE to
waiting and the INSERT of the approval, `deciding` in `resumeWorkflow`). The guards are the code's: `ClaimDelayed` is a
conditional UPDATE, `Finalize` writes whatever the status has become, `Click` looks at the execution and not at its approval, and
`Decide` settles a pending approval only and goes on regardless. The history field `late` of a row says that a decision found
nothing to settle: it raced another one, or repeated one, or came before the INSERT of the approval. `KeyInferred` says whether Postgres
accepts `ON CONFLICT (idempotency_key)` (see section 6).

### WorkflowQueue

The stream is a sequence of entries with the group's delivery state. `Deliver` takes the oldest new entry,
`Reclaim` any pending one (its holder may be alive and slow). `RunNext` takes one workflow of the event at a time; `Ack` is the
`finally` clause; `EvaluationThrows` is the swallowed exception, of a failing statement or of a keyed INSERT that Postgres refuses; it
marks the entry `lost` (history). The sweep is a SELECT, then per
row a publish and an UPDATE, with `SweepFails` in between; the reaper reads stuck rows, then fails each with a
conditional UPDATE. `Age` is a row passing the reaper's cut-off.

### SchedulerLeader

`tick[r][t]` is a tick in flight at one of its awaits: verify, connect or lock. `Ticks` is how many may be in
flight in one replica, `Clients` its connections. A connection is idle in the pool, out, or lost; losing it
frees the lock at once, and the replica learns of it from its next call. `CloseIdle` is the pool closing a connection that was idle
for 30 s, which frees a lock its session still holds. `severed` (history) is the set of replicas that lost a connection or
were told to stop since they started.

### ConsumerGroup and EventEngine

`ConsumerGroup` speaks of entries that are new, pending (with the consumers that have them in hand) or settled: `Add`,
`Hand` (the next batch in order), `HandAgain` (what is pending, to anyone), `Finish` (put aside), `Settle` (by someone who
has it in hand), `Drop` (a crash), and that every entry is settled in the end. Each of the two stream components has a `Group`
instance of it and a property `ServesTheStream` that is the group's specification under that mapping.

A consumer's `job` names its batch, its place in it and the next await of `handleEvent` and `createNotification`: `Resolve` the
recipients, `Claim` the window (INSERT ... ON CONFLICT DO NOTHING), `Insert` the row, `Dispatch` outside, `PublishTrigger`, `Ack`
(the `finally` clause). `Dispatch` never throws: it notes in the row's `out` whether a delivery was attempted, or swallowed by the `catch` of
`channels.ts` so that nothing was sent. `HandlerThrows` goes to `Ack` as well and marks the entry `lost` (history). `WindowEnds`
starts the next dedup window at any step.

### Broadcasts

A request's `task` is its next statement; a send goes through the compare-and-set to `sending`, `CheckExpiry`, the log, and
after the response the background part: resolve contacts, trigger, mark, charge per metered channel. `SendThrows` is its `catch`,
`Abandon` a crash. `late` tells whether `expires_at` has passed; `sends` and `charges` (history) count what reached the outside.

### Suppression

`isSuppressed` is `Lookup`, `LookupAgain` (the code asks Redis twice), `Query` and `Store`; then `Send` or not. `RedisFails` and
`QueryFails` are its two `catch` clauses: no answer from the cache, and "not suppressed" from a database that fails. An edit is the
statement and, later, `Invalidate`, or `InvalidateFails`. Three history variables say what an answer is worth: `firm` marks a sender that began
when the address was listed and the request that listed it had answered, `late` one whose channel was edited after its query, and `spoiled`
the keys that hold what such a sender stored, or that a failing DEL left. `global` is the list of the organisation called "global", to which
the bounce webhook writes.

### PrismJobs

`job` is stage and status, `cursor` and `counts` the JSON columns, `store` the other tables (`bad` are the uploads that do not parse).
Initially the row has just been inserted, where a worker can claim it, and the request that created it (`Creating`) still has to write
`runStage('connect')`. A worker's step is claim, read, one await of the stage's work (one action per stage), and the write of the row; whatever
throws, `failJob` queues the stage of the claim. The requests of analysts read the job, act, and write; the routes take them whatever the status is.
`Gauge` is the backpressure that may pause a job on its way to EXTRACT. Two history fields of `job`: `furthest` is the furthest stage it
came to, and `late` who holds a stage or a status it read before another actor moved the row. `unasked` remembers that LOAD wrote without
consent. `Purge` and `Listed` are settings of the import, `Corrupt` the files that may turn out not to parse.

### ResponseTrigger

`mem` holds a replica's counters, `task` its trigger in flight (one at a time per survey, by `_pending_triggers`), `loop` the
consumer's place; `late` (history) counts the events read since the trigger started. A run has the status of its row, an `age`
(heartbeat and creation compared with the cut-offs), and `work`: where the request and the pipeline behind it are. `Gate` skips a run that is
below the threshold or whose organisation has switched automation off, and lets one whose ingest ended in an error go on without responses. What
publishes does so in three transactions (`Publish`, `MarkCompleted`, `WriteCheckpoint`), of which the last two log their errors;
`PublishNothing` is a run without a meaningful change. `report.seen` (history) is the most responses a run has analysed to the end. The tick and
the zombie sweep are two loops of one process (`sched`). Rows no query can find any more are dropped from the sequence.

## 3. Runs

| run | instance | shows |
|---|---|---|
| `credit_race` | 3 requests of any kind, costs 2 and 3, allowance 0 or 2, pack 1, one payment, crashes, unreadable profile (2.0 M states) | ledger, cache, plan columns; settled payments are final; refinement of `CreditAccount` |
| `runs_race` | 1 execution, 2 handlers, 2 timers, 1 fault | pause and resume with people who decide at once, late decisions marked; what ended stays ended; delays end |
| `queue_crash` | 2 consumers, 1 sweeper, 2 entries, repeated publishing, 1 fault | evaluation is not lost; refinement of `ConsumerGroup`; executions and retries end |
| `queue_slow` | 1 consumer, 1 handler, 1 sweeper, 2 entries, runs of any length, 1 fault | one run per trigger, one completion, retries run, with decisions, reaper and redelivery at once |
| `sched_leads` | 2 replicas, 2 ticks each, 3 connections, 1 failure of any kind (440 k states) | lock and flags agree; no job overlaps; some replica leads again and again, or the wedge of `leader.ts:50-52, 68, 73` |
| `events` | 2 consumers, 2 entries in batches of 2, 2 users, 2 windows, 1 fault (477 k states) | one note per window, everyone tried, refinement of `ConsumerGroup` |
| `broadcasts` | 2 broadcasts, 2 requests at once, 2 channels, 1 fault (220 k states) | no double, late or uncharged send; decisions are final; nothing stays pending |
| `suppression` | 2 senders, 2 administrators, a channel and "all", 3 edits, 1 fault (190 k states) | stale answers are explained and die out; an entry takes hold |
| `prism_import` | 2 workers, 1 analyst, 1 file that may not parse, uploads purged, 1 fault (1.2 M states) | no record is lost; the job never falls silent |
| `prism_controls` | 1 worker, 2 analysts, 3 requests of any kind, 1 fault (2.9 M states) | people open the gates; the spine is one way and one survey is made, late writes apart |
| `triggers` | 1 replica, threshold 2, 2 responses, 3 live rows, 1 fault (1.2 M states) | counted events are kept; a survey with unseen responses becomes due again |
| `credit_duplicate` | two deliveries of one payment | a disagreement, section 6 |

**Type invariants** are not in the runs: all of them are theorems.

**Why these bounds are enough.** Three requests are two that race and one that arrives between, crashes or
observes; the costs are chosen so that one request can empty the allowance, reach the pack and pass the
ceiling. Two consumers are a holder and the one that reclaims. Two entries of the queue are an
event and its republish, by the sweep or by the publisher; the safety of longer chains is proved. `MaxAttempts` is 2, so that both branches
of the stamp are taken. Two
ticks of a replica are the first that can disagree, and one fault is a hand-over between two such replicas; the safety of
the scheduler is also a theorem for any number of ticks and faults. Three connections are the leader's and one for each tick. Two entries
and two windows of the event engine are a
repetition inside one window and one after it; a batch of two is the first in which one entry waits for another.
Two requests on two broadcasts are the send that races another send, a decision or a deletion, and one that does not
concern it. Two people on one waiting execution, with a fault, are every way a decision can come late: one that repeats a recorded
one, one that races another, one before the INSERT of the approval. Two senders are one that stores a stale answer
and one that reads it, and two administrators an edit for the channel beside one for all. Two Prism workers are one that is overtaken; two
analysts with three requests are a confirmation or an approval, a second one beside it, and a control. Two responses at a
threshold of two are a report that waits for the second one, or one by the tier or the clock that leaves a partial batch.

**Deadlock checking** is off where requests, rows or entries are bounded, so that the instance really ends when all are
used up: everywhere but in the scheduler's runs.

**Modelling assumptions made explicit as constants.** `KeyInferred` is whether the INSERT finds an index for its key. Under the migration in the
repository it does not (`20260701090000_workflow_async_queue.sql:18-19`), and every keyed INSERT is refused, swallowed and acknowledged. The
disagreement is `WorkflowQueue_schema.cfg`. `AckedMeansEvaluated` and the other properties of the queue speak of entries whose
evaluation did not throw, so they hold for both values and the theorems assume neither; under the migration they say little, because no evaluation goes
through. `queue_crash` and `queue_slow` set `KeyInferred = TRUE`, where redelivery, retries and the reaper do something that can be checked.
`SlowRuns = FALSE` in `queue_crash` and `triggers` excludes live runs longer than the cut-offs, `queue_slow` includes them.
`NaturalEvents` are the events with an id of their own. `Listed = TRUE` in the Prism runs means that the files were chosen with the job.

## 4. Fairness

- Queue: consumers poll in an endless loop and the sweep and the reaper run on an interval (`workflowQueue.ts:366-414`),
  hence weak fairness of each consumer, sweeper and run. A due retry may be missed by a sweep that had read its
  rows just before, but the sweep repeats and a backoff is finite, hence strong fairness of a sweep that finds
  every retryable row due. Crashed consumers come back: a crash empties the consumer's slot, and the slot goes on polling.
- Delay job: the longest overdue row comes first, up to 200 a tick, so a row that is claimable again and again
  is claimed: strong fairness per row.
- Scheduler: `setInterval` keeps firing and every database call returns, with an answer or an error: weak fairness of each tick. The pool's idle
  timer and the exit 500 ms after a signal are weakly fair.
- Event engine: a consumer polls in an endless loop and reclaims at every turn: weak fairness of each. That is enough,
  since a reclaim looks at pending entries in order.
- Broadcasts: a request that has begun goes on unless it crashes; the third day comes and the expiry job runs every hour.
  Nobody has to decide or to send.
- Suppression: senders and edits go on, and a key has a TTL of 600 s, so weak fairness of its expiry.
- Prism: each worker polls, and a request that has begun is carried through unless its process dies. Analysts owe nothing: no request is
  ever due.
- Response triggers: loops, tasks and the scheduler's two loops go on, runs age. Nothing
  is assumed of a tick taking the survey when it is due: it takes the twenty largest and may skip those (`scheduler.py:244-262, 1004-1011`),
  so a survey can be passed over for ever. What is checked is that it is due (`DueAgain`).
- Failures are never fair. Requests of the credit model need no fairness; it has no liveness property.

## 5. What is proved

`CreditLedger_proofs`, for every set of requests, plans, allowances, costs, grants, ceilings and payments, with
or without crashes, from the named assumptions of the modules (the amounts are natural numbers, the named plans exist,
the pack is a grant):

- `LedgerImplementsAccount`: `Spec => ASpec`. Every step of the interleaved requests is one
  operation of the abstract account or leaves it alone. The core is `DebitIsCharge` (the computed split is one
  the abstract charge allows, by `SplitAddsUp`) and that a request past its first statement finds the account open
  (`StartedOnOpen`).
- `IntegrityJobStaysQuiet`, `PlanColumnsAgree`, `DriftEnds` follow from the abstract account, whose typing, bounds and
  plan agreement are inductive together (`AccountInv`), through the refinement.
- `TypeCorrect`: `AccountInv`, `StartedOnOpen` and the types of the request and store variables are the inductive invariant `LedgerInv`.
- `GrantSeededOnce`: only the request whose INSERT took effect writes the seed row, and the account stays open, so
  no second INSERT does.
- `SettledStaysSettled`: a grant is booked by a delivery that is past the duplicate check, and no delivery gets past it once
  the ledger holds the payment.
- `DeliveriesAreBooked`: a delivery that ended was past the ledger row of its grant, or found one.
- `MutationsInvalidate`: a request that has changed the account has its DEL still ahead of it until it makes it or
  dies, and the DEL leaves no fresh entry behind; and nothing is cached before the account is open.
- `BooksBalance` (`LedgerExplainsBalance`), for any finite set of requests. The invariant `BooksInv` adds that a request
  owes a ledger row only between its statement and the row. `StepOwes` shows that each step of a request changes what the ledger leaves
  unexplained by exactly what the request comes to owe, or no longer owes; the rest is that the sum of the owed rows
  changes by as much (`SumOfUpdate`). The sum is a fold, a recursive function over the subsets of the requests; the lemmas up to
  `PartialSums` show by a smallest counterexample that it is defined for every finite set and does not depend on the order.

`WorkflowQueue_proofs` begins with `WorkflowRuns`, for every set of workflows, events, consumers and timers and every bound:

- `RunsTyped` from `TableOK`: the types, that a process that works has a row, and that a suppressed row is nobody's work.
- `RunnersAreAlone`, `RejectedRunsStop`, `DelaysAreNotListed` from `RunsInv`, with any number of people deciding at any moment. They speak of
  the executions on which no decision came late; what happens on the others is `WorkflowRuns_twoClicks`. `OneRunnerPerExecution` alone is not
  inductive: a timer's claim or a decision must find a row nobody works on. `RunnersHold` therefore says what each process knows of its
  row (a running one that it executes, or waits for an approval that has been decided), `RowsApart` that no two work on one row unless one of
  them has still to decide, and `ApprovalsMatch` that a pending approval means a row that waits for it. All of them hold as long as the row is not
  marked: the decision that finds a pending approval is the first one, and every other one marks the row in the step it makes.
- `EndedIsOver`: by `RunnersHold` a process only ever writes to a row that executes or waits.

It goes on to the whole queue: redelivery, reclaims, crashes, sweeps, retries and the reaper, for every set of
workflows, events, consumers and sweepers and every bound. The invariants are layered, each proved inductive on top of the ones before:

| theorem | hypotheses | invariant |
|---|---|---|
| `QueueTyped` | none | `QueueInv`: the types and `TableOK` |
| `NothingIsLost` (`AckedMeansEvaluated`) | `FieldsApart` | `KeyInv` (a key names its row's trigger, and no two rows have it), then `AckInv`: what a consumer has left to do is all that is not evaluated |
| `FailuresRerun` (`SweptFailureReruns`) | `FieldsApart`, `NoHandRuns` | `FreedInv` (a failure to be retried has given up its key, and only the newest execution of a trigger has one), then `RerunInv`: what a sweep or a consumer has passed over was rerun |
| `EndedIsOverInTheQueue` (`EndedStaysEnded`) | none | `RunsInv`, which the reaper keeps as well: `RunnersHold` allows for a row that was reaped under its process |
| `TriggersRunOnce` (`OneRunPerTrigger`) | `NoHandRuns` | `RunsInv`, `KeyInv` and `KeylessInv`: a row without a key is suppressed or failed, and nobody works on it |
| `EventsCompleteOnce` (`CompletesOncePerEvent`) | `NoHandRuns`, `Events \subseteq NaturalEvents` | the same |
| `QueueImplementsGroup` (the safety part of `ServesTheStream`) | `RolesApart`, `SomeWorkflow` | `QueueInv`; an entry is done when its consumer has evaluated every workflow and its last run is over (`AtEnd`) |

Nothing is assumed of `KeyInferred` or of the number of people who decide. Every hypothesis there is, is there because the property fails without
it, and a configuration or the code shows how: two events with one key (`FieldsApart`; `WorkflowQueue_collapse`), runs started by hand, which
have no key (`NoHandRuns`), and an event without an id, whose key is the entry's, so that publishing it twice gives two
(`NaturalEvents`). `RolesApart` says that a queue consumer is neither a request nor a timer, and `SomeWorkflow` that there is a workflow to
evaluate. The passing runs that check a property satisfy its hypotheses.

`PrismJobs_proofs`, for every set of files, workers and analysts, and every number of errors, crashes and requests, without further hypotheses:

- `PrismTyped`: `PrismTypeOK` is inductive. It says besides the types which step of a worker or a request goes with which stage and file
  (`WorkerFits`, `UserFits`).
- `SpineIsOneWay` (`StageGoesForward`) from `TurnInv`: a worker that is not late attends to the stage and status the row has (`Attends`), and a request
  that is not late carries what follows from them (`Carries`). Being late is marked in the step of the actor that overtakes, so the two parts
  are inductive together, however many actors there are.
- `PeopleOpenTheGates` (`GatesNeedPeople`) from `FurthestInv`: a worker's stage is never past the furthest stage of the job, and an interactive stage is
  not one it advances from; so even a write that is late cannot be the first past a gate.
- `LateSurveysOnly` (`OneSurvey`) from `SurveyInv`: a confirmation that is not late knows whether the job has a survey (`Knows`), and a survey
  once made is on the row.
- `NoRecordIsLost` (`RecordsAreKept`) from `RecordsInv`: between the records and the deletion of its upload a worker holds a file whose records are in
  the raw log (`Extracted`).

The exception for late actors is what the code needs: two confirmations make two surveys (`PrismJobs_confirm`), two approvals skip LOAD
(`PrismJobs_approve`), a second worker queues a job that works (`PrismJobs_purge`). That a person opened a gate is not consent: a resume does it too
(`PrismJobs_resume`).

`SchedulerLeader_proofs`, for every set of replicas, jobs, ticks, connections, failures, and every bound on faults,
from `LeaderAssumption`:

- `TypeCorrect` and `LiveLeaderHoldsLock` from `LockInv`: types, the lock property and `PoolDiscipline`. The
  latter is the strengthening. `LeaderHoldsLock` alone is not inductive: a tick that asks for the lock on the leader's own
  connection, or two ticks on one connection, would break it. `PoolDiscipline` says that they never do.
- `JobsNeverOverlap` from `FlagsFollowRuns`: the in-flight flag is set exactly while the job runs.
- `ConnectedReplicasShareNoJob` from `LastingLead`: a replica that kept its connections and has a leader client
  holds the lock, and only such a replica runs jobs. The lock is one session, so two of them are the same replica.

`EventEngine_proofs`, for every set of events, users and consumers, every batch size and bound, from `EngineAssumption`:

- `EngineTypes` from `TypeInv`.
- `OneNotePerWindow` from `OnceInv`: every note of a windowed event belongs to a claimed window (`NotesClaimed`), a consumer that is about to
  insert one holds a claim that no note has used yet (`ClaimsHeld`), and no two consumers hold the same (`ClaimsApart`).
- `AckedIsTried` (`AckedTriedAll`) from `OwesInv`: for each consumer, the recipients it no longer has to do have their row and the fan-out of it
  is over (`Owes`), so that the step to `Ack` leaves nobody out, for an event without a dedup window (with one, see `EventEngine_fanout`).
  It is not a promise of delivery, which the code does not keep.
- `EngineImplementsGroup`: each step is a step of `ConsumerGroup`, or leaves the entries and who has them in hand alone. `BarEntries`
  and `BarHold` show what the mapping makes of a delivery, a reclaim and an acknowledgement. It is the
  safety part of `ServesTheStream`; that every entry is settled is only model-checked.

`Broadcasts_proofs`, for every set of broadcasts, requests and channels, from `BroadcastAssumption`: `BroadcastTypes`,
`SentOnce`, `ChargedOnce`, `LateIsNotSent`, `DecisionsAreFinal` from one invariant `BroadcastInv`. Its parts are the types;
`Fits`, what a request knows of the row it works on (it is `sending`, was not triggered yet, ...); `SendersApart`, that no two requests
work on one sending; and `RowsBooked`, which sends and charges a status admits. `SentAtMostOnce` alone says nothing of the statement that
would send again.

`Suppression_proofs`, for every set of senders, administrators and channels and any number of failures: `SuppressionTypes` and
`StaleClearsAreExplained` (`StaleIsExplained`) from `SuppressionInv`. The explanation alone is not inductive: `Excused` says that a sender that has read
"not listed" and has yet to store it was right, or an edit is not finished, or the sender is marked late.

`ResponseTrigger_proofs`, for every set of replicas, every threshold and all bounds, from `TriggerAssumption`, in which pipelines may
outlive the cut-offs:

- `TriggerTyped`: `TriggerTypeOK` says besides the types that nobody counts more events than were read, reads more than were published, or
  analyses more responses than there are (`InStep`). `Inserted` shows that the rows that are left when one is inserted keep their order and their
  bound.
- `LateEventsCount` (`EventsStillCount`) and `OneTriggerAtATime` from `CountInv`. `EventsStillCount` alone is not inductive: the POST
  takes off what the trigger captured, so as long as it has not, the counter covers that and the late events (`Counts`); and a
  second trigger would take it off again, so a loop that decides must find none in flight (`Decided`).

**Only model-checked:** the liveness properties (`RetriesAreSwept`, `ExecutionsEnd`, `DelayEnds`, `LeadsUnlessWedged`, `PendingEnds`,
`ClearDiesOut`, `TakesHold`, `NeverStalls`, `DueAgain`, and that `ServesTheStream` settles every entry), which need fairness and ENABLED. Every
invariant and every action property of the runs is a theorem. `NoDoubleRunning` is proved and in no run.

## 6. Disagreements between code and documents

One has a run of its own, `credit_duplicate`: two overlapping deliveries of one payment both pass `grantExists` and both
credit the pack (`lib/payments.ts:98`); `docs/pricing/IMPLEMENTATION.md:122-123` says they cannot.

The others have a configuration beside the runs. Each names one property and TLC finds it violated
(`tlc -config X.cfg M`, with `M` the module `MC_...` of the same name where there is one):

| configuration | what it shows |
|---|---|
| `WorkflowRuns_twoClicks` | nothing asks whether a decision settled an approval: an execution whose rejection is recorded runs when an approval raced it, or comes later because the rejection's last statement failed (`lib/workflowEngine.ts:989-1003`); `docs/TEST_PLAN.md:725` says a rejected workflow stops |
| `WorkflowQueue_reaped` | the reaper keeps the row's key, so the retry it schedules collides with the row and never runs (`lib/workflowQueue.ts:346`) |
| `WorkflowQueue_unbounded` | attempts are counted per row and every retry is a new row, so retries never end (`lib/workflowEngine.ts:569`) |
| `WorkflowQueue_schema` | the partial unique index cannot be inferred by `ON CONFLICT (idempotency_key)`; keyed inserts are refused, swallowed and acknowledged (`lib/workflowEngine.ts:879`) |
| `WorkflowQueue_collapse` | two events of one entity share a key, and the second is acknowledged without having run (`lib/workflowQueue.ts:108-110`), against `ADR_EXECUTION_ARCHITECTURE.md:154-156` |
| `SchedulerLeader_wedged` | two first ticks of one replica overlap; one gets the lock, the other one's refusal, or its failure to connect, clears `isLeader`, and no session ever gets the lock again (`scheduler/leader.ts:68`, `:50-52`, `:73`) |
| `EventEngine_fanout` | the dedup key names no user (`lib/notifications.ts:95`): of several recipients of a windowed event one is notified; `docs/notifications/NOTIFICATION_SERVICE.md:209` says one row per recipient |
| `EventEngine_crash` | a crash between the dedup row and the notification loses it, against `NOTIFICATION_SERVICE.md:214` |
| `Broadcasts_stuck` | a crash in the background part leaves `sending` for ever (`routes/outreach.ts:302`); the migration's status machine ends it in `sent` or `failed` (`20260624000010:25`) |
| `Broadcasts_audit` | a send without eligible contacts writes no audit row, against "every state transition" (same migration, line 89) |
| `Suppression_all` | an entry for `all` deletes a key no channel reads (`lib/suppressionList.ts:152-160`) |
| `Suppression_race` | a sender stores a `clear` it read before the entry, after the entry's DEL; lines 8-9 say "a suppressed contact is never sent to" |
| `Suppression_gets` | the second GET may return "suppressed", stored by another sender since the first, and is read as leave to send (`:59-70`); with two senders the entry need never take hold |
| `Suppression_bounce` | a bounce is listed for the organisation "global" that no sender asks for (`index.ts:163-170`) |
| `PrismJobs_purge` | a second worker repeats an extraction whose upload the first has deleted, and the job fails or starves; `worker.ts:191-198` says "duplicated WORK, never duplicated DATA" |
| `PrismJobs_cancel` | a job cancelled during a stage runs on (`worker.ts:908` against `worker.ts:30-31`) |
| `PrismJobs_approve` | a second approval advances past LOAD: `complete` without a record loaded (against `engine.ts:236-239`) |
| `PrismJobs_confirm` | two confirmations make two surveys (against `survey.ts:191-193`) |
| `PrismJobs_counts` | counters are replaced, not added (`engine.ts:134` against `:133`), so that two files never balance |
| `PrismJobs_resume` | pause and resume at the consent gate goes on without consent, against `docs/otherplatforms/migration/architecture-ingestion.md:232-233` |
| `ResponseTrigger_pipelines` | the advisory lock "to prevent concurrent pipeline runs" ends with its own statement, and a run without a heartbeat yet counts as a zombie: two pipelines at once (`graphs/insights.py:1084-1093`, `response_stream.py:362`) |

One more configuration passes: `PrismJobs_replicas` (`CompleteIsLoaded` with two workers that keep the uploads).

Seen in the same models or in the code beside them, described here only:

- An event without an id of its own gets a key from its stream entry, and a retry is a new entry. Retrying one
  failed workflow therefore runs its successful siblings again, against `lib/workflowQueue.ts:19-21`.
- The reaper measures from `triggered_at`. An execution that waited on a delay longer than the timeout is failed
  by the first reaper tick after its resume (`lib/workflowQueue.ts:336`).
- When the leader's connection is lost, its jobs go on while the standby starts them too (`scheduler/runner.ts:62`
  against `leader.ts:5-7`); the same happens for 500 ms at shutdown. `NoDoubleRunning` therefore leaves severed replicas out.
- Broadcasts never ask the suppression list, though `suppressionList.ts:4` says "Before any outreach".
- An error of `dispatchExternalChannels` is swallowed where it happens (`lib/channels.ts:224-228`): nothing is sent, the note stays, and the
  entry counts as handled.
- With two Prism workers a late proposal replaces a confirmed mapping, and with clicks besides `CompleteIsLoaded` fails. A
  corrupt file is retried for ever, though `worker.ts:37-38` calls such errors not retryable.
- The DLQ of `response_stream.py` is never written and nothing is retried: `_trigger_insights` swallows every exception
  (`:399`). A tier trigger is sent as "stream" and may be skipped below the threshold, while the tier stays marked for 30 days. The
  consumer reads only new entries, so "at-least-once delivery" (`_redis.py:67`) ends with its process. A skipped run stores no response
  count, so the scheduler starts another one every interval. `retry_count` is never incremented, so zombie retries have no limit
  (`scheduler.py:177`). A tick
  takes the twenty surveys with the most responses and may skip any of them without a run, so that the same twenty can keep a twenty-first
  waiting for ever (`scheduler.py:257-258, 1004-1011`).

## 7. Abstractions

Amounts, plans and payments are small sets; the usage listings, checkout sessions and partition maintenance change
nothing the ledger depends on. One organisation is modelled, since no statement touches two. Node lists, conditions and
actions are an outcome; cooldown and plan-tier suppression are the choice `Suppress`; a workflow's definition does not change while it runs.
Time is free: any
row may be due, any period may elapse, at any step. The batch of 20 stream entries is handled one by one in the code, and in
the model the entries behind the first are simply still new or pending. Job intervals are left out: a leader's tick may start any set of jobs.
In the event engine ranking and wording are left out, relevance and preference are `Muted`, and a reclaim takes one entry at
a time (the code claims up to 50). A decision that comes late may also resume from an
`resume_index` that is out of date; which nodes it runs is not modelled. A Prism
record is its file; what transforms and identity resolution compute, the shapes of mapping versions, the semaphore of extractions and the
fair order of organisations are left out, the backpressure of EXTRACT decides either way (its threshold and the flag that remembers it are not kept),
and "Continue" on the page's file selection, which makes a new job, is left out. In `ResponseTrigger` there is one survey, whose rank among
those that are due is not modelled, below the sampling cap (a
run reads every response); the tagging sweep, which has a counter of its own, is left out, and so are manual runs.

## 8. Plan

Done: the credit ledger; workflow runs and queue; leadership; the event engine with an abstract consumer group that both
stream components implement; broadcasts; suppression; Prism jobs; response triggers; proofs of every safety property.

Left, in this order:

1. `WorkflowGraph` under `WorkflowRuns`: a pause on the last node resumes at the start (`lib/workflowEngine.ts:535`), the cooldown read
   from a stale row (`:851`) or armed by a rejection (`:1006`), scheduled workflows without a key (`:1365`), a crash between the
   UPDATE to waiting and the INSERT of the approval (`:661`).
2. `MeteredRun`, the callers of `debitCredits` (`routes/insights.ts:655`), over `CreditAccount`; the purchase's liveness, which the
   webhook's unconditional 200 prevents (`routes/webhooks/stripe.ts:43`).
3. `PrismSync` and `PrismMappings`; `PipelineStates` (`lib/pipelineStateMachine.ts:122`).
4. Hazards of modelled parts still without a property: a lock query that times out after the server granted it
   (`scheduler/leader.ts:73`), jobs that run on for 500 ms after the lock is freed (`scheduler/index.ts:77`).

## Running

    tlc -workers 2 -config CreditLedger_race.cfg MC_CreditLedger
    tlc -workers 2 -config Broadcasts_send.cfg Broadcasts
    tlapm CreditLedger_proofs.tla
