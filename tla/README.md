# Middleware: a TLA+ verification project

The repository is an integration middleware: HTTP surfaces accept commands and events,
PostgreSQL is the only authority for their state, and a family of polling workers carries
them to providers (Odoo, n8n, VICIdial, Telnexa, Klyrow, Postly, model runtimes) and back.
This directory holds TLA+ models of its state machines, the TLC configurations that check
them on small instances, and TLAPS proofs of the properties that matter most.

Sources are named as in the repository (`src/` is its root).

## 1. The system

### 1.1 The command kernel (modelled)

A **command** is accepted by `CommandKernel.submit` and becomes one row of
`middleware_commands` and, in the same transaction, one row of `middleware_outbox`.
From there on several kinds of process work on it, and none of them holds a lock across
two transactions:

| part | code | state | operations |
|---|---|---|---|
| command ledger | `app/commands.py`, `PostgresCommandStore` | state, `resource_version`, attempts, dead letters | submit, transition, reconcile, latest_attempt, record_dead_letter; the operator's cancel, reconcile, retry |
| durable outbox | `app/storage.py`, `PostgresOutboxStore` | per row: closed marks, `reconciliation_required_at` (the quarantine), lease, `attempt_count`, `fencing_token` | claim (with the sweep of exhausted rows), quarantine_unknown_outcome, renew_active_dispatch, resolve_reconciliation, fail |
| outbox worker | `app/worker.py`, `OutboxWorker` | one dispatch | run_once: claim, gate, quarantine, heartbeat, handler with a timeout, resolution |
| execution bus | `app/platform/bus.py`, `AdapterDispatch` | the handler's locals | dispatch, _finalize, _readback, _recover, _fail |
| circuit breaker | `app/platform/resilience.py`, `CircuitBreaker` | state, failures, probes of one adapter in one process | admit, record_success, record_failure |
| reconciler | `app/platform/reconciler.py`, `app/platform/persistence.py` | one claim | claim the oldest quarantined row, read the provider back, verdict, requeue, dead-letter, release |
| adapter and provider | `app/platform/adapter.py` | what the provider did with each request | execute, status, readback; classification of answers |

What makes it hard: a request may take effect long after anybody waits for it; a worker may
die, be cancelled or lose its lease between any two transactions; operators mutate a command
while it is in flight; reconcilers race workers and each other. What should hold: no blind
second request, no "completed" without a verified effect, no "cancelled" with an effect,
final states stay final, and every accepted command is settled.

### 1.2 The other queues (modelled)

Around the kernel the repository has further queues, each a table of its own with workers that
reserve rows by a lease and exchange requests with one outside service:

| part | code | what is hard about it |
|---|---|---|
| AI jobs | `app/core/ai_jobs.py`, `app/core/ai_orchestration.py`, `app/api/internal/ai_jobs.py`, `app/api/v1/ai_console.py`, `app/workers/openai_jobs.py` | fencing tokens against late requests, two cancellations, approvals, deadlines, admission of model classes |
| campaign saga | `app/odoo_campaign_saga.py` | the idempotency key of a read-back has to be durable before it is used |
| telephony commands | `app/api/v1/commands.py`, `app/workers/telephony_commands.py` | dispatch, journal and read-back are separate transactions; the adapter reports by itself |
| n8n runtime | `app/api/v1/n8n_runtime.py`, `app/workers/n8n_runtime.py` | callbacks race the dispatcher; a completed run queues a result for Odoo |
| Odoo results | `app/adapters/odoo/results.py` | outcomes are written without asking whose reservation it is |
| callbacks | `app/callback_scheduler.py`, `app/api/v1/callbacks.py`, `app/workers/callback_realtime.py` | versions against obsolete notifications, sweeps that skip locked rows |
| lead delivery | `app/workers/outbox.py`, `app/workers/scraper_odoo_delivery.py`, `app/sales/queue.py` | a lease table without fencing tokens, woken by signals in Redis |
| speech | `app/api/v1/tts.py`, `app/core/tts_jobs.py` | one global lock, many exits |

They share no row with each other, except that an n8n callback queues an Odoo result; that pair
is modelled together. `PROJECT.json` lists the remaining parts of the repository with the reason
why each is not modelled (section 6).

## 2. Modules

| module | models |
|---|---|
| `CommandLedger` | the command row and every transaction on it |
| `OutboxStore` | the outbox rows and every transaction on them |
| `ExecutionBus` | worker, bus, reconciler, operator and provider over the two stores; the properties |
| `CommandPromise` | the abstract specification: how often an effect may happen and what an outcome says about it |
| `ExecutionBusInv` | the inductive invariant of the proofs |
| `MCExecutionBus` | the instance TLC checks (symmetry of the workers) |
| `CircuitBreaker` | the breaker of one adapter and the dispatches of the process that owns it; its properties |
| `CircuitBreakerProofs` | proof: the failure count decides the state |
| `ExecutionBusProofs` | proofs: type correctness, final states |
| `ExecutionBusSafety` | proofs: no blind resend, cancel is safe, the quarantine holds |
| `AiJobs` | the AI job rows, the polling worker behind the internal API, the OpenAI worker |
| `AiJobsProofs` | proofs: fencing, one completion, bounded attempts, cancellation, admission, what one recovery round achieves |
| `CampaignSaga` | the saga rows and the worker's cycle |
| `CampaignSagaProofs` | proofs: durable keys, final sagas, the same key on a resend, the retry limit |
| `TelephonyCommands` | the command and operation journals, the dispatch worker, the adapter |
| `TelephonyCommandsProofs` | proofs: one dispatch by the owner, the journal in order, settled commands, read-back, denial |
| `OdooResults` | the result deliveries and their worker |
| `N8nRuntime` | n8n executions, dispatcher and callbacks, composed with `OdooResults` |
| `N8nRuntimeProofs` | proofs: runs are counted attempts, retries are accounted for, what is delivered is in Odoo |
| `MCDispatchers` | one model of the two dispatchers that share nothing: n8n (with its deliveries) and telephony |
| `Callbacks` | callbacks, their notifications, the scheduler, the popup worker |
| `ScraperDelivery` | leads in the legacy outbox, the signals, the delivery worker |
| `TtsStream` | speech rows, the streaming route, the admission lock |
| `TtsStreamProofs` | proofs: one open stream, no second start, ended rows stay |
| `MCWorkers` | one model of the five parts that share nothing: breaker, saga, leads, speech, deliveries to Odoo |

### How the model corresponds to the code

* One step is one database transaction, one provider exchange, or one local decision that
  reads no shared state. `SELECT ... FOR UPDATE` makes each transaction of the stores
  atomic, so each is one operator of `CommandLedger` or `OutboxStore`.
* A worker's program counter names the point between two transactions of `run_once` and
  `dispatch`; its other fields are the local variables that live across them: the claimed row
  and `fencing_token`, the command state it read (`seen`), the `expected_attempt` it will use
  (`fence`) and the provider's answer. `own` is the attempt it opened; it is not a variable of
  the code and guards nothing except which request `execute` sends.
* A refused transition raises `CommandConflict`. The worker logs it and the row stays
  quarantined: the second disjunct of `Ledger`. A refused store operation raises out of
  `run_once`: the negated guards in `GateDenies`, `StartHandler`, `Resolve`, `RResolve`,
  `RRelease`.
* Time is left out. A row's lease is `live` until `Expire`; without the fault `lease_loss` a
  lease runs out only when its holder has gone. `next_attempt_at` only delays a claim.
  `reconciliation_required_at` is kept as an order (`since`), because the reconciler takes the
  oldest.
* `requests[c][k]` is the provider's view of attempt k: opened, sent, applied or refused. It is
  what the properties talk about and nothing in the code can read it except by a read-back.
* `SKIP LOCKED` lets a worker pass over a row, so any claimable row may be claimed. For the
  reconciler's claim a locked row is one that the other transaction changes first.
* `Faults` is the set of things that may go wrong in a run: `worker_crash` (also a handler
  timeout and a shutdown, which cancel the handler), `recon_crash`, `lease_loss`, `preflight`
  (readiness, circuit breaker), `gate` (no handler, effect gate), `denial` (registry, safety
  gate), `gateway` (a 408/502/503/504 for a transmitted request).
* A saturated bulkhead never occurs: `max_wait_seconds` defaults to `0.0`, which `run` turns
  into an unbounded wait.
* The breaker is a module of its own because a process holds one per adapter and nothing else
  reads it: in `ExecutionBus` a rejected dispatch is the fault `preflight`, which may happen at
  any time. `CircuitBreaker` has the other half: `Admit` before the attempt is opened, then
  `RecordSuccess`, `RecordFailure`, or `LeaveUnrecorded` for the ways out of `dispatch` that tell
  the breaker nothing. Reading `state` moves an OPEN breaker whose time is up, so `Admit`
  starts with `StateRead`.
* In the other modules, too, a step is one transaction or one exchange. `live` (lease), `overdue`,
  `late`, `due` and `old` are the outcomes of comparing a column with the clock; actions named
  `LeaseExpires`, `Backoff`, `Deadline`, `DeadlinePasses` or `TimePasses` are time itself.
* A lease that runs out under a living worker (`Pause`, `LeaseOverrun`) and the death of a process
  (`Crash`, `Restart`) are actions of each module, bounded where the code puts no limit on their
  number.
* Where a transaction stays open during an exchange the row lock is modelled: the n8n dispatcher
  holds its row while it posts, the popup worker its whole batch.
* `reopened` (`N8nRuntime`), `by` and `resend` (`CampaignSaga`), `auth` (`TelephonyCommands`),
  `tries` and `applied` (`ScraperDelivery`), `accepted` (`OdooResults`), `n8n` (`N8nRuntime`) are no
  columns. They record what happened, or stand for the outside service.
* `retry_dead_letter` of the AI jobs is no action: it needs an approval of a dead-lettered job, and
  the theorem `DeadLettersStay` says that there is none.
* An operator's `reconcile` of a command with no open adapter row writes an intent for
  Temporal, which is not consumed in this model.

## 3. Runs

| run | module | question | result |
|---|---|---|---|
| `bus_faults` | `MCExecutionBus` | 1 command, 2 workers, 2 reconcilers, every fault but `gateway`, up to 3 outbox attempts, reconciliation budget 2 | holds |
| `bus_operator` | `MCExecutionBus` | one operator mutation against 2 workers with lost leases; refinement of `CommandPromise` | holds |
| `bus_safe` | `MCExecutionBus` | a `safe_reexecution` adapter with a crash, lost leases and an operator | holds |
| `bus_live` | `MCExecutionBus` | no process dies, gateways answer in the provider's place: liveness | holds |
| `ai_jobs` | `AiJobs` | one job, both kinds of worker, late requests, both cancellations, deadlines: fencing, completion, what one recovery round achieves | holds |
| `workers` | `MCWorkers` | breaker, saga, leads, speech, deliveries to Odoo (two workers): safety, and liveness of all but the breaker | holds |
| `dispatchers` | `MCDispatchers` | n8n with callbacks and the deliveries they queue, telephony: safety and liveness of each | holds |
| `callbacks` | `Callbacks` | agents, scheduler, reconciliation and popup worker on one callback | holds |
| `bus_recovery` | `MCExecutionBus` | is a dispatch that crashed in flight recovered? | `InFlightResolved` violated |
| `saga_claim` | `CampaignSaga` | does a saga worker write only under its own claim? | `WritesOwnClaim` violated |
| `tts_capacity` | `TtsStream` | is the stream lock released after every speech? | `CapacityReleased` violated |
| `ai_recovery` | `AiJobs` | does the OpenAI worker alone recover a lost lease? | `LostLeaseRecovered` violated |

The four violations are disagreements between the code and what its own comments or tests say;
`PROJECT.json` quotes the lines. Section 4 lists more of them.

Deadlock is not checked where the system may rightly stop: every command settled, every row
ended. `ai_jobs` checks it, because the polling worker never stops asking.

`MCWorkers` checks five parts in one run, `MCDispatchers` two. `part` is chosen at the start and only
that part moves: the parts have no table and no process in common, so every behaviour of the system,
seen by one part, is one of these. `OdooResults` appears twice: with two workers, lost leases and a
result without a body by itself, and with one worker behind the n8n callbacks that queue results.

### Bounds

One command suffices for safety of the kernel: rows and attempts of different commands share
nothing but the order of claims. Two workers and two reconcilers give every race of two processes
of a kind. `MaxClaims` 3 allows a first attempt, a retry and the retry at the limit; `Budget` 2 has
one release and one exhaustion. `MaxVersion` bounds the operator's mutations (each raises
`resource_version`): 1 means none, 2 one. Reconciler mismatches raise it too, so `ReconCrash` is
bounded by it as well; claims are counted only up to `Budget`. The constants of the code (8
attempts, budget 6) are larger; the proofs cover them. The breaker uses the code's own limits (5
failures, 1 probe); `MaxFailures` 7 caps the count above the threshold, where only `>=`
distinguishes.

The other queues use one row, because no operation on a row reads another, and two where the code
compares rows: the order of deliveries (two results, the second without a body), the global lock (two
speeches). Admission of AI jobs counts rows as well; it is proved for every set of jobs (section 5).
Limits of attempts are 2 or 3, so that a retry and the end of the retries both happen; in `dispatchers`
the deliveries have one attempt, since their retries are the question of `workers`. `MaxLate` bounds
requests whose sender gave up, `TelFaults`, `N8nFaults`, `OdooPauses`, `LeadMishaps` and `Restarts` the deaths
and overrun leases; `N8nCallbacks`, `TelResults`, `TelAnnounced` and `MaxChanges` what comes from outside.

### Fairness

`FairSpec` of `ExecutionBus` gives weak fairness to each worker's and each reconciler's own step, to
the provider's answer and to the passing of leases. The entrypoints poll in an endless loop
(`app/entrypoints/runtime.py` catches what a cycle raises and goes on), no step of theirs waits for
another process, every provider call has a timeout, and time passes. The heartbeat, operators and
faults have no fairness. The breaker's `FairBreaker` lets commands keep coming, every admitted call
end (each has a timeout) and time pass.

The other modules do the same: weak fairness for the loop of each worker, and for time. People,
outside services, faults and lost requests have none. Three assumptions are stronger or conditional:

* `OdooResults` gives strong fairness to the claim of each delivery: whether a row in `RETRY` is due
  is left open at every claim, and a back-off is over some day.
* `TtsStream` gives strong fairness to the end of a stream: audio is finite.
* `EveryCallbackAttended` assumes that each of the three sweeps comes by infinitely often at a moment
  when the row is free: the sweeps skip locked rows and the popup worker locks its batch while it
  posts. It assumes nothing about what the sweep then finds.

`SlotReturned` is conditional, too, not on fairness but on the row: see section 4.

## 4. Properties

* `NoBlindResend`: without an operator's retry or a `safe_reexecution` adapter, at most one
  request of a command is ever transmitted and not refused.
* `InDoubtNotClaimable`: while an attempt may have an effect no row of the command can be
  claimed.
* `CompletedIsVerified`, `CancelledHasNoEffect`: what the outcome says of the effect.
* `CompletedRowIsClosed`, `FinalStatesStay`: what is settled stays settled. `EventuallySettled`:
  everything is settled some day and for good (the `failed` that a transient answer passes through
  does not count). `TransientIsRetried`: a known-safe failure is sent again or dead-lettered.
* `KeepsPromise`: the whole implements `CommandPromise`.
* `CountDecides`: the breaker's state is what its failure count says.
* AI jobs: `AttemptsBounded`, `CompletionIsUnique` (a stored result is that of the last lease),
  `WritesAreFenced`, `CancelWins`, `RoundSettles` (one round of `expire_deadlines` and `recover_expired`
  settles whatever lost its lease or its deadline and touches nothing else).
* Saga: `KeyDurableFirst`, `TransportRetryKeepsKey`, `FinalStays`, `EverySagaEnds`.
* Telephony: `OwnerDispatchesOnce`, `JournalFollowsAdapter`, `SettledStays`, `EveryCommandSettles`.
* n8n and Odoo: `RunsAreAttempts`, `RetriesAccounted`, `DeliveredIsAccepted`, `EveryExecutionEnds`,
  `DeliveryEnds`.
* Callbacks: `NoObsoletePopup`, `TerminalIsQuiet`, `DeliveredStays`, `EveryCallbackAttended`.
* Leads: `DeliveredIsApplied`, `DoneStays`, `WaitingLeadTaken`. Speech: `OneStream`, `StartedOnce`,
  `SlotReturned` (whenever the row is still the handler's when `mark_provider_started` and the first
  `record_chunk` ask for it; the finding of `tts_capacity` is what happens otherwise).

Every property of a passing run has a mutant: an operator next to the definition it replaces,
changed the way a plausible bug would change it, under which TLC finds the property violated.

The modules state some more properties that are in no run: the `TypeOK` of `AiJobs`, `N8nRuntime`,
`TelephonyCommands` and `Callbacks`, `LicensedRequests` (`KeepsPromise` says as much), `TriesAccounted` and
`DispatchesBounded`. They hold on the instances of the runs; name them in a configuration to check them. `AdmissionRespected`,
`DeadLetterHasNoApproval`, `CompletedIsReported`, `WithinLimit`, `ResultIsReadBack`, `DeniedNeverSent` and
`EndedStays` are in no run either: they are proved (section 5).

### Known divergences

These formulas say what a comment or a document of the repository says, and TLC refutes them.
Four are runs (section 3); the others are kept in the modules and can be checked by naming them
in a configuration with the constants given.

| formula | with | what the code does |
|---|---|---|
| `NoBlindResend` | `Faults = {"gateway"}` | 408, 502, 503 and 504 count as not transmitted (`app/platform/adapter.py:252`), although `app/platform/bus.py:21` says "Never resent blindly" |
| `EventuallySettled` | `Faults = {"preflight"}` | a known-safe retry on the last attempt is refused and nobody dead-letters the row (`app/storage.py:1306`; `bus.py:18` "dead-letter after max_attempts") |
| `ParkedDrained` | two commands, `Faults = {"worker_crash"}` | the reconciler takes the oldest row and puts it back as the oldest (`app/platform/persistence.py:79`; `app/entrypoints/reconciliation_worker.py:4` "Every cycle drains") |
| `StaleWorkerNeverMoves` | two workers, `SafeReexecution`, `Faults = {"lease_loss"}`, `MaxClaims = 3`, `MaxVersion = 2` | the attempt number is read in a second transaction (`bus.py:269`; `bus.py:25` "cannot finalize a newer attempt") |
| `VerdictIsFresh` | two workers and reconcilers, `SafeReexecution`, `Faults = {"lease_loss"}`, `MaxClaims = 3`, `MaxVersion = 2` | `transition` does not raise `resource_version` (`app/platform/reconciler.py:123` "the verdict is stale") |
| `ProbeHeld`, `AlwaysTriedAgain` | `Unrecorded` with `"HALF_OPEN"` | a dispatch that ends between `admit` and its result keeps the only probe, and the adapter is shut out until the process restarts (`app/platform/resilience.py:93`: "its outcome closes or re-opens the breaker") |
| `CancelledStays` | as in `ai_jobs` | `decide` looks at the approval only and moves a cancelled job to approved or rejected (`app/core/ai_orchestration.py:188`; `docs/ai/JOB-LIFECYCLE.md:3` "cancellation races are fenced") |
| `EveryDeliveryEnds` | `BadBodies` not empty | a result without a body is never reserved nor recorded and stays first (`app/adapters/odoo/results.py:140`; `docs/odoo/ODOO-FAILURE-RECOVERY.md`) |
| `AttemptsLimited` | as in `dispatchers` | recovery of a stale dispatch and a retry callback ignore the limit (`docs/N8N-FAILURE-RECOVERY.md`) |
| `EveryLeadEnds` | as in `workers` | an expired lease wakes no one, so a lead whose worker died stays in `processing`; the maintenance loop that would recover it needs `outbox_worker_enabled` (`app/entrypoints/scheduler.py:38`), which the settings refuse (`app/core/config.py:1808`) and `deploy/compose.runtime.yaml` leaves off |

Further observations, of code that no line of the repository contradicts as plainly:

* A `ValueError`, `TypeError` or `KeyError` counts as a refusal because "nothing was sent"
  (`app/platform/adapter.py:239`), also when it is about the answer to a request that was sent. The model
  follows the code: a refused command may have had its effect (`PossibleOutcome`). It is not sent again,
  so that `NoBlindResend` holds nevertheless.
* `EventuallySettled` holds in `bus_live` because no process dies and no preflight check turns a dispatch
  away; `bus_recovery` and the row above show what happens otherwise.
* A repeated `completed` callback of n8n queues a second delivery of the same result; the model does so,
  too.
* Completing or cancelling a callback cancels its `callback_delivery` rows, and `TerminalIsQuiet` is about
  those. The `notification_command` rows stay `REQUESTED`.
* The same settings refuse `telephony_command_worker_enabled` and others. The models describe what the
  workers do once they are switched on.

## 5. Proofs

`ExecutionBusProofs` and `ExecutionBusSafety` prove, for every set of commands, workers and
reconcilers and every value of the limits:

* `TypeCorrect`: `Spec => []TypeOK`;
* `FinalStates`: `Spec => FinalStatesStay`;
* `NeverResentBlindly`, `CancelIsSafe`, `QuarantineHolds`: if `"gateway"` is not among the
  faults, `NoBlindResend`, `CancelledHasNoEffect` and `InDoubtNotClaimable` always hold. The
  hypothesis is needed: with gateway statuses TLC finds a counterexample (section 4).

`CircuitBreakerProofs` proves `CountAlwaysDecides`: `Spec => []CountDecides` for every threshold
and number of probes. `BreakerInv` adds the type and is inductive: a success clears the count and
closes, a failure at or above the threshold opens, and a half-open breaker still has the count
that opened it.

`AiJobsProofs` proves for every set of jobs and slots and every limit:

* `FencedWrites`: `Spec => WritesAreFenced`, and `CancellationWins`: `Spec => CancelWins`;
* `OneCompletion`, `AttemptsAreBounded`, `DeadLettersStay`: `CompletionIsUnique`, `AttemptsBounded` and
  `DeadLetterHasNoApproval` always hold;
* `RoundsSettle`: `RoundSettles` always holds, and `AdmissionHolds`: so does `AdmissionRespected`,
  which counts the leases of all jobs.

Each request works on one row, and recovery on each row by itself, so the inductive invariant
`AiInv` is an invariant `RowInv` of a row (and the types of the rest): an owned row is under lease and
has a token; a row with a result has no owner, its result is of its last token, and it is neither
queued nor dead-lettered; a queued row has an attempt left. One lemma per operation on a row shows
that it keeps `RowInv`, one per action that it changes rows only by such operations.

The worker queues follow the same plan. A constant-level predicate says what is always true of a
row, another what a process that is between two transactions relies on, a third (`Sound`) what any
step may do to a row; a lemma shows that what a process relies on survives every sound change, so each
action only has to be shown sound and to leave its own process with what it needs.
The runs `workers` and `dispatchers` check the properties of saga, telephony and speech under the same
names, through the instances of `MCWorkers` and `MCDispatchers`.

`CampaignSagaProofs` (any events, workers, lost leases): `KeysAreDurable`, `FinalRowsStay`, `ResendKeepsKey`,
`CompletionIsReported`; `RetryLimitHolds` for a positive limit. `SagaInv` says what a worker knows of
the saga it loaded: the key it reports is in the row, a completion it is about to write was
accepted, and while the claim it observes under is still the row's, that claim came without an
observation to send again. The last one is what `ResendKeepsKey` needs; it survives because a row is
reserved again only with a higher count. The row locks are not used.

`TelephonyCommandsProofs` (any commands, workers, crashes, results, announcements): `OwnersDispatchOnce`,
`JournalIsInOrder`, `ResultsAreReadBack`, `DeniedIsNeverSent`, `SettledCommandsStay`; the aggregate versions
are numbers. `TelInv` adds that a lease is named by the attempt that took it, that no two workers have
the same attempt of a command in hand (`Distinct`), and that a command the adapter registered is in
none of the states from which it could be claimed. So a worker about to dispatch either lost its
command or is the only one that could have written the operation.

`N8nRuntimeProofs` (any finite set of workers, any executions, faults and callbacks): `RunsAreCounted`,
`RetriesAreAccounted`, `DeliveriesAreAccepted`. `RunsInv` counts: the runs of an execution and the
workers that claimed it and have not posted it yet (`Holders`) are together no more than its attempts.
A claim adds one to both sides, a post turns a holder into at most one run, a death drops one.
`DeliveryInv` says that a delivery worker whose answer was "delivered" has its delivery in Odoo.

`TtsStreamProofs` (any speeches and restarts): `OneStreamAtATime`, `SpeechStartsOnce`, `EndedRowsStay`;
`NoSpeech` is not a speech. `TtsInv`: the handler whose stream may be open holds the admission lock
for its own speech, and the provider is called only once the row says that it was started.

Assumptions: `AiConstants`, `BreakerConstants`, `OutboxAssumption`, `BusAssumption` and `N8nConstants`
(limits are positive numbers, workers and reconcilers are different processes, `Nobody` is neither, the
n8n workers are finitely many and no execution is called "none"), and those named above, which are
hypotheses of the theorems.

The argument for the kernel. Type correctness needs only that a busy process works on an existing row
(`RowsExist`). The safety theorems need `IInv`. Call a command `Unaided` while no operator has
retried it and its adapter does not call re-execution safe. Then

1. it has one outbox row (`OneRow`): only submit and retry insert rows;
2. while a worker is past the quarantine the row is withheld from `claim`, by the quarantine
   or because it is closed, and only that worker lifts the quarantine, so there is at most one
   handler per command (`OneHandler`); a reconciler puts a row back only for a
   `safe_reexecution` adapter (`RetryIsSafe`), and a closed row has no owner who could
   (`ClosedUnowned`);
3. only the newest attempt can be in doubt, and none is when the command is queued or
   cancelled or its row is not withheld (`OnlyNewestInDoubt`);
4. what the handler has in its local variables is still true (`HandlerKnows`): before it opens
   an attempt all earlier ones are refused, the attempt it opened is the newest, and a
   TRANSIENT answer means all are refused.

Each conjunct is needed to carry the others over some step; 4 at `OpenAttempt`, `Send` and
`Requeue`, 2 at `WorkerClaim` and `StartHandler`, 3 at `Cancel`. `IInv` is also checked by TLC in
`bus_faults`. `ExecutionBusProofs` first proves how each transaction changes rows and types
(`RowsTyped` ... `LedgerTyped`), then one lemma per group of actions; `ExecutionBusSafety` has
frame lemmas (`SharedFrame`, `WorkersFrame`, `LedgerFrame`, `HandlerFrame`) that say which facts a step
leaves alone, one lemma per group of actions, and combines them in `IInvNext`.

Only model-checked: liveness (fairness and ENABLED are beyond the prover), the refinement of
`CommandPromise`, `LicensedRequests` (it needs the cardinality of a set of attempts),
`CompletedIsVerified` and `CompletedRowIsClosed`; and everything about callbacks and leads.

## 6. Not modelled

HTTP routing, authentication, schemas, metrics, configuration, release and certification
scripts, the monitoring collectors and read-only projections hold no state that two actors
change. `PROJECT.json` lists every component with the reason. In the modelled parts:

* kernel: replay records, read-back evidence and its digests, payload digests and the idempotency
  records of mutations (a repeated mutation returns the stored answer and changes nothing);
* AI jobs: worker registration, daily token quotas, audit, event and attempt rows, which decide
  nothing;
* telephony: reconciliation runs, repair intents and replays; the dispatch key is constant, although
  it contains the endpoint's configuration version (`app/adapters/telephony/client.py:78`), so that a
  resend after a change of the endpoint is a new request for the adapter;
* callbacks: e-mail and the outbox events towards Odoo; `AGENT_REMINDER_10M` is modelled as what it
  is, a popup that can never be posted;
* n8n: the social delivery linked to an execution, social authorization;
* leads: the same outbox statements serve further deliveries (`app/workers/delivery.py`, Breero,
  Klyrow, social), which are not modelled;
* telephony: that a read-back finds what the adapter holds is an assumption about the adapter, which is
  outside of `src/`;
* speech: audio and its limits, and a response that is abandoned before its body is started; `recover_expired` is an action although nothing in the application
  calls it, so that the properties hold with and without it.

## 7. Plan

1. Replay of commands (`app/platform/kernel.py:441`): record, new command and completion are three
   transactions.
2. Inbox and event ledger (hash chain as a sequence); theorem: the chain is append-only.
3. Agent provisioning saga, and one abstract saga specification that it and `CampaignSaga` refine.
4. The remaining users of the legacy outbox.
5. Proofs: `CompletedIsVerified` of the kernel; `NoObsoletePopup` and
   `TerminalIsQuiet` of the callbacks; `DispatchesBounded` of the result deliveries.
