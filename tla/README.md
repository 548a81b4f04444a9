# Verification of RecoverOS

RecoverOS turns failed payments into recovered ones: a webhook of the payment
provider opens a *recovery case*, an (optional) language model recommends one
action, a deterministic policy authorizes it, an executor rechecks the payment
and acts (a payment link, an e-mail), and a later webhook verifies that the
payment was made. This directory holds TLA+ models of that program, the TLC
configurations that check them on small instances, and proofs checked by TLAPS.

Run, in this directory, `tlc -config <run>.cfg <module>.tla`, with the module
the table under *Runs* names, and `tlapm <module>Proofs.tla` for each of the eight
modules of proofs.

## Inventory

| Component | Code | State | Operations | What makes it correct |
|---|---|---|---|---|
| Webhook ingress | `apps/api/app/routers/webhooks.py` | `webhook_events` rows | verify, store once, publish a task | a genuine event is stored once, and then processed |
| Task queue | `workers/tasks.py`, `workers/celery_app.py` | messages in Redis, unacknowledged ones at workers | deliver, retry (5 times), redeliver | at-least-once delivery |
| Webhook worker | `workers/webhook_worker.py` | its database session | load, dispatch, mark PROCESSED | PROCESSED only when the work is done |
| Case orchestrator | `services/recovery_cases/orchestrator.py` | merchants, customers, attempts, cases, diagnoses, recommendations, decisions | create a case once, take it to NEEDS_REVIEW or AUTHORIZED | one case per payment; nothing is executed that was not decided |
| State machine | `services/recovery_cases/state_machine.py`, `domain/enums` | `case.state` | assert a transition | no case leaves the table |
| Diagnosis, normalization, agent, policy | `services/diagnosis`, `services/normalization`, `services/agent`, `services/policy` | none (pure) | classify, diagnose, recommend, evaluate | limits are exact; a failing or malformed model falls back |
| Executor | `services/execution/service.py` | `interventions`, `payment_links`, the outside world | recheck, act once, commit | at most one effect, truthfully recorded |
| Outcome verifier | `services/outcome_verification/service.py` | `outcomes`, `case.already_paid` | confirm a captured payment | only evidence recovers; revenue counts once |
| Audit | `services/audit/service.py` | `audit_events` (append only) | record | it explains every case |
| Provider, e-mail | `providers/razorpay`, `channels/email` | external | verify and normalize a webhook, get payment, create link, send | two keys that agree on what a duplicate is |
| Merchant policy | `apps/api/app/routers/policy.py` | `merchants.policy` | get, put | the last save is kept; the saved policy applies |
| Analytics, degradation | `apps/api/app/routers/analytics.py`, `services/analytics` | none | sums, EWMA | sums agree with each other; alarms at the right attempt |
| Cases, training | `apps/api/app/routers/cases.py`, `services/ml/training.py` | none | list, label (the detail never answers) | what is shown together belongs together |
| Operations endpoints, web console, embeddings, start-up | | none | | out of scope |

Components interact through the database (each Celery task and each request has
one session), through the broker (API to worker), and by calls (worker ->
orchestrator -> executor in *one* session; worker -> verifier). What is hard:

* several worker processes handle events of one payment, or of one customer, at
  the same time, each with a session that keeps the objects it loaded
  (`expire_on_commit=False`);
* a task is delivered at least once: retried after an exception, delivered again
  after a crash or after the visibility timeout;
* the external effect lies between two commits, and a call may raise after it had
  its effect;
* webhooks arrive in any order and the payment changes between any two steps.

`PROJECT.json` lists the hazards one by one with the line at which each bites and
the property that covers it. Three of them have no property because the code does
what is feared: the capture between recheck and link creation (`execute`, line 52),
the before-state a confirmation makes up (verifier, line 25), and the collapse of
events without a time (adapter, line 27) are exempted by the properties nearest to
them, which say so.

## Modules

| Module | Contents |
|---|---|
| `CaseStateMachine` | case states, actions, failure categories, the transition table |
| `PolicyEngine` | `classify_failure`, `diagnose`, `deterministic_recommendation`, `evaluate` |
| `RecoveryPipeline` | the worker side: provider, ingress commit, queue, workers, database, and its properties |
| `RecoveryContract` | abstract: what the pipeline promises to readers of its tables |
| `RecoveryRefinement` | the refinement mapping, and `ImplementsContract` |
| `Reports` | overview, list, training selection and degradation report beside the contract |
| `PipelineReports` | the same readers beside the pipeline itself |
| `Degradation` | `ewma_degradation` in integer arithmetic |
| `WebhookIngress` | the webhook handler, concurrent requests and provider retries |
| `WebhookReceipts` | abstract: one receipt per event, queued or not |
| `MerchantPolicy` | the policy endpoint beside the workers that insert the merchant |
| `MCRecoveryPipeline`, `MCReports`, `MCPipelineReports`, `MCWebhookIngress`, `MCMerchantPolicy` | finite instances for TLC |
| `RecoveryPipelineProofs` | types, sessions, effects: the inductive invariants of the pipeline and its first theorems |
| `RecoveryLedgerProofs` | outcomes, interventions, audit records and processed webhooks agree with the cases; cases follow the transition table; what strands one, what an unrecorded effect leaves behind |
| `RecoveryRefinementProofs` | the pipeline implements its contract |
| `WebhookIngressProofs` | the ingress' invariants, and that it implements `WebhookReceipts` |
| `MerchantPolicyProofs` | the race for the merchant's row, and overlapping saves |
| `DegradationProofs` | what `ewma_degradation` reports, for histories of any length |
| `ReportsProofs` | what is read statement by statement belongs together |
| `PipelineReportsProofs` | so does what is read of the pipeline's own tables |

How they compose: `WebhookIngress` implements `WebhookReceipts`, whose single step
is what `RecoveryPipeline` takes as `ReceiveWebhook` and `QueueUnavailable`;
`RecoveryPipeline` implements `RecoveryContract`; `Reports` puts the readers
beside `RecoveryContract`, which keeps their runs and proofs small;
`PipelineReports` puts them beside `RecoveryPipeline`, where `AnswersFitTogether`
asks the same of a reader of the tables the workers write. (That this composition
implements `Reports` is a lemma of its proof, `SystemReads`, and no property: a
reader's step is the same on both sides.)

### State and steps of `RecoveryPipeline`

Variables are the tables (`webhookEvents`, `cases`, `interventions`,
`paymentLinks`, `outcomes`, `audit`, plus `parents` for the merchant and
customer rows and `decisions` for the rows committed with a case), the outside
world (`payments` at the provider, `links` created, `emails` delivered), the
broker's `queue`, and for each worker its program counter `pc`, unacknowledged
message `task`, uncommitted inserts `need`, *session copy* of the case `sess`,
command `cmd` and intervention status `result`.

One action is the code between two points where another process can be seen or
overtaken: a commit, an insert that may block, a call of the provider.

| `pc` | code | actions |
|---|---|---|
| `load_event` | `process_webhook_event` reads the row | `LoadEvent`, `SkipProcessed` |
| `lookup_case` | orchestrator lines 18-34 | `LookupCase` |
| `insert_case` | `flush()`, line 38 | `InsertCase`, `InsertConflicts` |
| `decide` | `process_case` up to its commit | `Decide` |
| `recheck` | executor lines 22-43 | `RecheckClear`, `RecheckPaid`, `RecheckUnavailable` |
| `act` | executor lines 44-63 | `Act`, `ActionFails` |
| `commit_action` | executor lines 64-75 | `CommitAction`, `ActionFails` |
| `find_case`, `confirm` | outcome verifier | `FindCase`, `ConfirmPayment`, `OutcomeConflicts` |
| `mark_processed` | worker line 23 | `MarkProcessed` |

At any step a worker may meet `DatabaseFails` (rollback and retry),
`WorkerKilled` (the message is delivered again), `TaskLost` (only the pool child
died, its parent acknowledges) or `Redelivered` (visibility timeout).

### The contract

`RecoveryContract` knows a payment's case row, its decision, what was sent for it,
its outcomes and the set of states its ledger attests (`trail`). Its steps are
`Capture` (provider), `Open` (case, decision and ledger in one transaction),
`Send` (the decided effect, once, before it is recorded), `Record`, `LearnPaid`
and `Confirm`. It admits that `Record` puts a RECOVERED case back to
WAITING_FOR_OUTCOME, because the code does (`lost_update`). The mapping derives
`captured`, `sent` and `trail` from `payments`, `links`, `emails` and `audit`.

### The ingress

`WebhookIngress` gives every request its own program counter: *received*,
*commit*, *publish*, *answer*. The handler can be overtaken at its awaits only. The
provider sends an event until it has a 2xx answer, also while an earlier request
is being served. `Normalize` builds the two keys of `normalize_webhook`: the
payload's id, or one made of type, entity and time, and the semantic key. What the
worker handles concerns payments, which carry their id and creation time, and no
two events of one type about one payment are told apart by the code
(`IngressAssumption`). Events about other entities ("unknown", no time) are in
the model as well, because both keys then depend on the second of receipt: the
properties say exactly what is lost - two such events of one second collapse into
one, and a retry in a later second is stored again.

### The merchant's policy

`MerchantPolicy` interleaves `PUT /policy` (load, then insert or update) with the
orchestrator's lookup and insert of the merchant. A session writes the row only if
the policy differs from the one it loaded, so two overlapping saves may leave
either policy: `LastSaveIsKept` allows a request's own value and those of the
requests it overlapped, and nothing else.

### The read side

At READ COMMITTED every SELECT of a request sees another snapshot. `Reports` reads
one statement at a time, in the order of the code, and lets the contract move in
between and afterwards (it rests for the degradation report only, which reads the
attempts and nothing the contract is about). `PipelineReports` instantiates
`Reports` on the pipeline's variables, through the mapping of `RecoveryRefinement`:
its step is one of the pipeline or the next statement of the request. A sum is represented by the set of cases it is taken over, so that
"missing from both sums" can be said. `Degradation` keeps the weighted average in
units of 1/256 and frees the comparison of its division and root; the verdicts
agree with the Python function for all histories of up to 13 attempts.

Two statements are left out. The overview's last one counts interventions of status
SKIPPED_DUPLICATE, which the contract does not speak of. And the detail of a case
(`get_case`) is no reader of the model because it never answers: `all_for` orders
every table by `created_at` (`cases.py:27`), which `Outcome` does not have
(`db.py:116-123`), so for every case that exists the handler raises at the outcomes,
before it reads the timeline.

### What the model takes for granted

* PostgreSQL (`docker-compose.yml`) at READ COMMITTED: reads see committed rows,
  an insert of an equal unique key waits for the transaction that holds it, an
  `UPDATE` writes the columns the session changed. The verifier's `UPDATE` is
  flushed by its first query and locks the row, hence `ConfirmPayment` is one step.
* `MERCHANT_ID` and `MERCHANT_NAME` are set; the merchant and any customers may
  exist already (`Init`). Customers without an address fail the action
  (`ActionFails`); `opted_out` and `disputed` are never set by the code.
* Payment attempts, diagnoses, recommendations and policy decisions are committed
  with the case and are folded into `cases` and `decisions`. Equal waiting
  messages coincide. Retry delays are arbitrary.
* Amounts matter as missing, within or above the limit; confidences are percents;
  wording, timestamps, e-mail layout and the recovered amount are left out.
* After `rollback()` in the failure path of `execute` the case is expired, and
  reading `case.id` for the record needs a query that SQLAlchemy's asyncio session
  refuses outside its greenlet (version 2.0.36), so that nothing is recorded.
  `ActionFails` allows this and, for a version that does not refuse, the FAILED row
  the code means to write: more behaviours than the build has, which no safety
  property minds. The interventions of a failed action in the properties and proofs
  are those of that second outcome.
* The idempotency key of an intervention contains generation
  `previous_attempts + 1`, and nothing increments `previous_attempts`: the key is
  the case and the action.

## Runs

Bounds: `MaxRetries` (5 in the code), `MaxFaults`, and the constants `Events`
(what the provider reports) and `Paying` (the payments that may succeed).
Deadlock checking is off: the system stops when every event is processed.

| Run | Module | Instance | Shows |
|---|---|---|---|
| `pipeline_race` | `MCRecoveryPipeline` | 1 payment, 2 workers, events failed/authorized/captured/link paid, all 7 faults, at most 2, 2 retries, a model that may act, act without enough confidence, or wait | `TypeOK`, `AtMostOneRecoveryAction`, `ActionWasAuthorized`, `RecoveryIsEvidenced`, `OneOutcomePerCase`, `LedgerIsBacked`, `AuditExplainsState`, `UnrecordedEffectShows`, `RecoveredHasNothingPending`, `PaidStaysPaid`, `PaidPaymentIsNotChased`, `AuditBeforeHolds`, `OnlyInterruptionStrands`, `CasesFollowTable`, `ImplementsContract` |
| `pipeline_customer` | `MCRecoveryPipeline` | 3 payments of one customer: without an amount, at the limit (paid through its link), above it; 2 fair workers, rules only; one crash, database error or redelivery; 2 retries | `ProcessedFailureHasCase`, `ReviewHolds`, `ReceivedIsProcessed` |
| `pipeline_reports` | `MCPipelineReports` | 1 payment, 2 workers, paid late, through its link or by another attempt; a redelivery, an outage or a failing action; 1 retry; 3 readers | `AnswersFitTogether` |
| `reports` | `MCReports` | 1 payment with everything the contract allows; 4 readers; histories of up to 11 attempts | `ReportsTypeOK`, `RiskIsAccounted`, `TrendCoversTotals`, `ListShowsDecision`, `LabelsAreGenuine`, `DegradedAtFirstFailure` |
| `ingress` | `MCWebhookIngress` | 4 events (two of one payment, one of them with an id; two about no payment), 2 requests, 2 seconds, 1 fault; fair | `TypeOK`, `AcknowledgedIsStored`, `IdentifiedOnce`, `TaskFindsItsRow`, `ImplementsReceipts`, `OccurredIsStored` |
| `merchant_policy` | `MCMerchantPolicy` | 2 clients, 2 workers, 4 policies, one out of bounds | `TypeOK`, `LastSaveIsKept`, `OneConflictEach` |

Two workers are enough for every conflict in the code, all of which are between
two transactions; two faults let a failure hit the recovery from another. A third
payment adds nothing but a further waiter on the same parent rows. Workers are
interchangeable, hence the symmetry set of the runs without liveness. The contract
treats every payment by itself, and so do the readers, so one payment suffices for
`ImplementsContract`, for `reports` and for `pipeline_reports`; the payments of one
customer, where transactions of different payments conflict, are in
`pipeline_customer`. Two requests are enough for a retry that overtakes the first,
two seconds for a retry with another time of receipt, and the four events contain
every combination of "has an id" and "has a time". Eleven attempts go beyond the
eight at which the detector starts and cover zero variance. `pipeline_reports` needs one fault of the
kinds that change what readers see (a failed action or recheck, a task run twice);
crashes and database errors end a task without a row of their own.

`pipeline_customer` has the faults from which the queue recovers (a crash whose
message is delivered again, a database error, a redelivery). It leaves out `lost`,
the message that is acknowledged for a pool child that died: nobody publishes the
task again, so `ReceivedIsProcessed` fails under it, as it fails under a broker that
refuses the task (`queue_unavailable`). The safety properties of `pipeline_race` are
checked under all seven kinds. The run shows of the amount limit that a case one
above it stays with a human; that a payment exactly at the limit is acted on is a
matter of `PolicyChecks` and of no property.

Fairness (`Fairness`): weak fairness of message delivery and of each worker's next
step - a Celery worker keeps consuming and its code has no unbounded wait of its
own. No fairness of the provider, of customers or of faults. In `WebhookIngress`:
weak fairness of the clock and of serving a request, and strong fairness of
sending an unacknowledged event, since the provider's schedule of retries goes on
while other requests may occupy the server again and again.

### Where code and documentation disagree

| Run | Property | What happens |
|---|---|---|
| `lost_update` | `RecoveredOnlyCloses` | while the executor calls the provider, the verifier commits RECOVERED; the executor then commits WAITING_FOR_OUTCOME, computed from its old copy |
| `recheck_unavailable` | `AuthorizedIsExecuted` | the recheck fails, the task is retried, the retry finds the case and marks the webhook processed: the action never happens |
| `late_capture` | `EvidenceRecovers` | a capture the recheck noticed first, or that arrives before the failure, leaves no outcome |
| `link_payment` | `LinkPaymentRecovers` | a payment made through the recovery link is looked up by its order id or its own id, neither of which names the case: the promised loop does not close |
| `saved_policy` | `SavedPolicyDecides` | `evaluate` is called without a policy: what a merchant saves decides nothing |
| `queue_unavailable` | `ReceivedIsProcessed` | a webhook stored while the broker was down is a "duplicate" when the provider sends it again, and is never queued |

Further observations, which no run claims as a disagreement: no code path sets
CLOSED or FAILED, so the training selection contains recovered cases only, its
labels have one class (`LabelsAreGenuine`), and training always refuses; up
to 15 attempts the detector reports a method at its first failure after an unbroken
run of successes and at no other time, so not during the outage that follows
(`DegradedAtFirstFailure`; the first histories it judges otherwise have 70 attempts,
of which the last two failed); the
records of a confirmation always name WAITING_FOR_OUTCOME as the state before,
which `AuditBeforeHolds` has to exempt; a crash after the effect and before the
commit leaves an effect without a record, which shows only in a case that stays
AUTHORIZED or is recovered (`UnrecordedEffectShows`); the detail of a case never
answers (see *The read side*); with an executor that spared the state of a recovered
case and did nothing else, a scheduled intervention would stay on it
(`RecoveredHasNothingPending`), so a repair of `lost_update` has to repair both.

## Properties and mutants

Each property of a passing run has a mutant: a variant of one definition with a
plausible bug (marked `mutant` where it is defined, next to the definition it
replaces) under which the run must fail. They are listed in `PROJECT.json`.

## Proofs

Every theorem holds for any sets of payments, customers, events, workers, requests,
clients and policies, any bounds and any model (`DegradedFirst` excepted, which says
where its bound is).

| Module | Theorem | Statement |
|---|---|---|
| `RecoveryPipelineProofs` | `TypeCorrect` | `Spec => []TypeOK` |
| | `OneActionPerPayment` | `Spec => []AtMostOneRecoveryAction` |
| | `ActionsAreAuthorized` | `Spec => []ActionWasAuthorized` |
| | `PaidIsKept` | `Spec => PaidStaysPaid` |
| | `PaidIsNotChased` | `Spec => PaidPaymentIsNotChased` |
| `RecoveryLedgerProofs` | `RevenueCountedOnce` | `Spec => []OneOutcomePerCase` |
| | `RecoveryEvidenced` | `Spec => []RecoveryIsEvidenced` |
| | `LedgerBacked` | `Spec => []LedgerIsBacked` |
| | `BlockedCasesWait` | `Spec => []ReviewHolds` |
| | `NoFailureIsLost` | `Spec => []ProcessedFailureHasCase` |
| | `AuditExplains` | `Spec => []AuditExplainsState` |
| | `AuditFollowsCases` | `Spec => AuditBeforeHolds` |
| | `TableIsFollowed` | `Spec => CasesFollowTable` |
| | `InterruptionStrands` | `Spec => OnlyInterruptionStrands` |
| | `EffectsShow` | `Spec => []UnrecordedEffectShows` |
| | `NothingPendingOnRecovered` | `Spec => []RecoveredHasNothingPending` |
| `RecoveryRefinementProofs` | `KeepsContract` | `Spec => ImplementsContract` |
| `WebhookIngressProofs` | `TypeCorrect` | `Spec => []TypeOK` |
| | `AcknowledgedStored` | `Spec => []AcknowledgedIsStored` |
| | `TasksHaveRows` | `Spec => []TaskFindsItsRow` |
| | `ReceivedOnce` | `Spec => []IdentifiedOnce` |
| | `ReceivesOnce` | `Spec => ImplementsReceipts` |
| `MerchantPolicyProofs` | `TypeCorrect` | `Spec => []TypeOK` |
| | `OneConflict` | `Spec => []OneConflictEach` |
| | `SaveKept` | `Spec => []LastSaveIsKept` |
| `ReportsProofs` | `ReportsTyped` | `ReportsSpec => []ReportsTypeOK` |
| | `RiskAccounted` | `ReportsSpec => []RiskIsAccounted` |
| | `TrendCovers` | `ReportsSpec => []TrendCoversTotals` |
| | `ListDecided` | `ReportsSpec => []ListShowsDecision` |
| | `LabelsGenuine` | `ReportsSpec => []LabelsAreGenuine` |
| | `DegradedFirst` | `MaxAttempts <= 15` implies `ReportsSpec => []DegradedAtFirstFailure` |
| `DegradationProofs` | `FirstFailureIsDegraded` | a first failure after seven or more successes is reported, for any length |
| | `UnbrokenIsNotDegraded` | no failure, no report, for any length |
| | `BrokenIsNotDegraded` | nothing but failures before the last attempt, no report, for any length |
| `PipelineReportsProofs` | `AnswersFit` | `SystemSpec => []AnswersFitTogether` |

Hardly any of these invariants is inductive as it stands. What each proof adds was
checked by TLC on the runs' instances before it was proved.

**Effects of the pipeline.** `TypeOK` needs `SessionOK` (the audit rows of the
executor take their states from its session, which must hold an AUTHORIZED case).
`AtMostOneRecoveryAction` needs `ActionInv`: the case of a worker in `decide` does
not exist yet and that of an executor does (`RowsOfWorkers`), no two workers
decide or execute the same payment (`SingleFlight`), and nothing was sent before
(`NothingSentYet`). Most steps only take workers out of these positions
(`QuietStep`); the others are treated one by one. `ActionWasAuthorized` needs in
addition that the command of an executor is the committed decision
(`CommandIsDecided`); cases and decisions change only as `CaseChange` says.
`PaidStaysPaid` follows from `CaseChange` and from `AbsentRows`;
`PaidPaymentIsNotChased` from `ActStep` (only the recheck leads to the action) and
`EffectsOfCommands`.

**Ledgers of the pipeline.** `OneOutcomePerCase` is inductive: only a confirmation
inserts an outcome, past both unique keys (`OutcomeChange`). `RecoveryIsEvidenced`
needs `EvidenceInv`, which follows the evidence from the provider to the verifier:
every message and task is about a webhook that was received, a received
`payment.captured` reports a captured payment, captured payments stay captured,
and only such tasks reach the verifier. `LedgerIsBacked` needs `ExecutionInv`: an
executor starts without interventions of its payment (nothing is pending when the
recheck cancels), and when it is about to commit, its effect and only its effect
has happened. `ReviewHolds` is inductive with the invariants above, because no
executor acts for what was not allowed. `ProcessedFailureHasCase` needs `MarkedInv`:
a task that is about to mark its webhook already has its case. `AuditExplainsState`
and `AuditBeforeHolds` need `AuditInv`: an executor's case is AUTHORIZED or has been
recovered meanwhile, it attests AUTHORIZED, and no execution is attested yet.
`CasesFollowTable` adds `CasesRest`: between transactions a case is in one of four
states, all of which but RECOVERED may be followed by RECOVERED (`TableOfRest`), so
the verifier, which does not ask, keeps the table all the same. The exception the
property makes is `lost_update`.

`OnlyInterruptionStrands` speaks of the very step after which an authorized, unpaid
case is in nobody's hand, and of whose step it is. A decision that allows an action
finds no intervention with its key (`ExecutionInv`) and goes to the executor; an
executor goes on, cancels, commits or is interrupted, and no other process takes it
out of `execute` (`ExecutorProceeds`). So it says how far `recheck_unavailable`
reaches, whatever faults happened before: a redelivery, an insert conflict, a
recovery or the key never strands a case. `UnrecordedEffectShows` is inductive with
`ExecutionInv` and `AuditInv`: a commit that moves the case on records the effect its
executor had (`CommitRecordsEffect`), and all other ways out of `execute` leave the
state alone. `RecoveredHasNothingPending` follows from how interventions change
(`RecordChange`, `CancelPendingKeeps`) and from what recovers a case (`RecoveredBy`).

**The contract.** `KeepsContract` uses all of these as `PipelineInv`. The mapped
variables are settled first (`TrailExtended`, `SentOnce`), then every action that
changes one has a lemma that maps it: `AuthorizeMaps` and `CaptureMaps` (the
provider), `DecideMaps` to `Open`, `RecheckPaidMaps` to `LearnPaid`, `ActMaps` to
`Send`, `CommitActionMaps` to `Record`, `ActionFailsMaps` to `Send` or a stutter (a
call may fail after its effect), `ConfirmPaymentMaps` to `Confirm`. All others
stutter (`StepMaps`).

**The ingress.** Every step is described by what becomes of one request
(`RequestSteps`). `ReceiptInv` adds to the properties that rows and requests hold
the keys of their events, taken at some second, and that a publishing request and
an answer of 202 have their event durable; `DuplicateIsDurable` is the argument
about the two unique keys. `OnceInv` says that at most one request publishes an
identified event and that its task is not out yet; `FirstRow` that two deliveries
of such an event always share a key. The receipt of `WebhookReceipts` is
decided by this one publisher (`PublisherDecides`).

**The merchant's policy.** `ConflictInv`: nobody has lost the race while the row is
missing, nor anyone who still takes it to be missing. `SaveInv`: requests that run
at once know each other's policies, and the row is the one a request has loaded
unless one of these was saved since.

**The read side.** `RowsInv` states how the rows of the contract agree, `Grows` what
never vanishes from them, `OrderInv` that exactly the first statements of a request
have returned. `ReportInv` then relates each result to the rows as they are now
(what was seen of a case is still there) until a later statement reads them.
`AnswersFit` carries this over to the pipeline: its initial states and steps are
those of the contract (`RecoveryRefinementProofs`), a returning statement changes no
row, and the request in hand never changes (`SystemReads`), so that the theorems of
`ReportsProofs` can be instantiated on the pipeline's variables.

**The degradation report.** The average is a recursive function over the history. What
the proofs need of it (it stays within 0 and one unit, an unbroken run keeps it at one
of the two, `AverageBounds`, `AverageOfSuccesses`) is shown by descent: of the prefixes
for which the claim fails there is a least one (`LeastElement`, from the library's
well-founded minimum), and the one before it gives the contradiction. For up to 15
attempts, `DegradedFirst` has to show in addition that a mixed history is never
reported: among at most 14 earlier attempts with a success and a failure the deviation
is too large even for an average of zero (`MixedBaseline`). In longer histories that
argument ends, and from 70 attempts on the claim itself is false.

### Assumptions

The theorems rest on the assumptions about constants alone, which TLC evaluates
on every run. `ConstantsAssumption`: types, and that `None` is neither a message nor
a case state. `IngressAssumption`: what is handled concerns payments, which have a
creation time and are told apart by type, payment and time (which of an entity's
events are handled is a matter of their type, the second half of `Subject`);
provider ids are unique and never look like the `rzp_...` ids that
`normalize_webhook` makes up. `PolicyAssumption`: types, and that a process is a
request or a worker. `ReportsAssumption` and `PipelineReadersAssumption`: types.
`DegradedFirst` also assumes that histories have at most 15 attempts.

### Model-checked only

* Liveness (`ReceivedIsProcessed`, `OccurredIsStored`) and the counterexamples under
  fairness: the prover treats neither fairness nor ENABLED.
* What `ewma_degradation` reports of histories of more than 15 attempts that mix
  successes and failures, beyond the three theorems for any length.

## Not modelled

* The endpoints of `operations.py`: single statements, counts and health probes.
* `get_case`, which answers for no case (see *The read side*).
* A webhook with a valid signature and a malformed body (400, nothing is stored).
* Features and estimators of the training, embeddings: numeric libraries, no state.
* The language model's prompt and parsing: any recommendation, or none, stands for
  them.
* Provider calls that nothing makes (`get_order`, `cancel_payment_link`, ...), and
  `default_policy.yaml`, which nothing reads.
* The web console, the replay script, configuration and start-up: the settings the
  models depend on are their constants.
* Recovered amounts, timestamps of rows (but for the keys of a webhook), wording.

## Plan

1. *Done*: the pipeline with its runs and first theorems; the contract and its
   refinement; the read side; the ingress; the merchant's policy.
2. *Done*: a theorem for every invariant and action property of the passing runs,
   for the three refinements and for the composition of pipeline and readers.
3. Open: a bound on what the detector reports of long mixed histories, and the
   statements of `operations.py`, should they ever be read together; the detail of a
   case, once it answers.
