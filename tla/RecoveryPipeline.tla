-------------------------- MODULE RecoveryPipeline --------------------------
(***************************************************************************)
(* The worker side of RecoverOS.  Celery workers take webhook tasks from   *)
(* the broker; a task loads its webhook row and either opens and processes *)
(* a recovery case (payment.failed: orchestrator, policy, executor) or     *)
(* verifies a successful payment (payment.captured: outcome verifier), and *)
(* finally marks the row PROCESSED.                                        *)
(*                                                                         *)
(* The grain of atomicity is that of the program: one action per stretch   *)
(* between two points where another process can be seen or overtaken (a    *)
(* committed transaction, a blocking insert, a call of the payment         *)
(* provider or of the mail server).  The database is PostgreSQL at its     *)
(* default READ COMMITTED level (docker-compose.yml): reads see committed  *)
(* rows, inserts of an equal unique key wait for the open transaction that *)
(* holds it, and an UPDATE writes only the columns the session changed.    *)
(* A session keeps the objects it loaded (expire_on_commit=False), so what *)
(* the executor "gets" again is the copy the orchestrator left in it.      *)
(***************************************************************************)
EXTENDS PolicyEngine, FiniteSets

CONSTANTS
    Payments,       \* the failed payments a case may be opened for
    Customers,      \* customer ids
    CustomerOf,     \* the customer each payment belongs to
    Amount,         \* amount_minor of each payment (0: missing)
    Category,       \* failure category the payload of each payment normalizes to
    Paying,         \* the payments that may succeed at the provider
    Events,         \* the webhook events the provider may send
    ModelOutputs,   \* recommendations the language model may return ({}: none)
    SmtpAvailable,  \* is the mail channel configured?
    Workers,        \* Celery worker processes
    MaxRetries,     \* retry_kwargs of the task
    Faults,         \* the kinds of fault that may happen
    MaxFaults,      \* bound on the number of faults
    Merchant,       \* the configured merchant
    None            \* absence of a value

(* What normalize_payment makes of a webhook: the event name, whether the  *)
(* payment is the failed one itself, a later payment of the same order or  *)
(* one made through the recovery link, which reference it is looked up by  *)
(* (order_id or id), and the failed payment all this is about.             *)
WebhookEvent ==
    {e \in [name   : {"payment.failed", "payment.authorized", "payment.captured"},
            via    : {"original", "retry", "link"},
            source : {"payment", "order", "link"},
            of     : Payments] :
        /\ e.name # "payment.captured" => e.via = "original" /\ e.source = "payment"
        /\ e.source = "link" => e.via = "link"}

PaymentId  == [via : {"original", "retry", "link"}, of : Payments]

FaultKinds ==
    {"broker", "killed", "lost", "redelivered", "provider", "action", "database"}

ASSUME ConstantsAssumption ==
    /\ CustomerOf \in [Payments -> Customers]
    /\ Amount \in [Payments -> Nat]
    /\ Category \in [Payments -> FailureCategory]
    /\ Paying \subseteq PaymentId
    /\ Events \subseteq WebhookEvent
    /\ ModelOutputs \subseteq [action : RecoveryAction, confidence : Percent]
    /\ SmtpAvailable \in BOOLEAN
    /\ MaxRetries \in Nat
    /\ MaxFaults \in Nat
    /\ Faults \subseteq FaultKinds
    /\ None \notin [event : Events, n : 0 .. MaxRetries] \cup CaseState

VARIABLES
    (* the payment provider and the mail server *)
    payments,       \* status of every payment at the provider
    links,          \* number of payment links created for each failed payment
    emails,         \* number of recovery messages delivered for it
    (* committed database rows *)
    webhookEvents,  \* status of every webhook row
    parents,        \* merchants and customers that have a row
    cases,          \* recovery_cases, by its unique source_entity_id
    decisions,      \* recommendation and policy decision of each case
    interventions,  \* interventions of each case
    paymentLinks,   \* cases that have a payment_links row
    outcomes,       \* outcomes
    audit,          \* audit_events of the cases
    (* broker and workers *)
    queue,          \* waiting task messages
    pc,             \* where each worker is in process_webhook_event
    task,           \* the message each worker holds, unacknowledged
    need,           \* parent rows the worker's open transaction inserts
    sess,           \* the worker's session copy of the case row
    cmd,            \* the recommended action of the worker's command
    result,         \* status its intervention will be committed with
    faults          \* faults so far

provider == <<payments, links, emails>>
database == <<webhookEvents, parents, cases, decisions, interventions,
              paymentLinks, outcomes, audit>>
session  == <<need, sess, cmd, result>>
vars     == <<provider, database, queue, pc, task, session, faults>>
-----------------------------------------------------------------------------
Parent     == Customers \cup {Merchant}
CaseRow    == [state : CaseState \cup {"NONE"}, already_paid : BOOLEAN]
NoRow      == [state |-> "NONE", already_paid |-> FALSE]
Decision   == [action : RecoveryAction \cup {"NONE"}, allowed : BOOLEAN]
NoDecision == [action |-> "NONE", allowed |-> FALSE]
Message    == [event : Events, n : 0 .. MaxRetries]

InterventionStatus ==
    {"PENDING", "EXECUTING", "EXECUTED", "SCHEDULED", "NO_OP",
     "SKIPPED_DUPLICATE", "CANCELLED_ALREADY_PAID", "FAILED"}
Intervention == [action : RecoveryAction, status : InterventionStatus]
Outcome == [case : Payments, payment : PaymentId, attributed : BOOLEAN]

(* AuditEvent: case_id, event_type, before_state and after_state. *)
AuditType ==
    {"CASE_CREATED", "DIAGNOSIS_CREATED", "AGENT_RECOMMENDATION_CREATED",
     "POLICY_ALLOWED", "POLICY_BLOCKED", "HUMAN_APPROVAL_REQUESTED",
     "ACTION_EXECUTED", "ACTION_FAILED", "MESSAGE_SENT",
     "PAYMENT_LINK_CREATED", "PAYMENT_CONFIRMED", "CASE_RECOVERED",
     "ACTION_CANCELLED_ALREADY_PAID"}
AuditEvent ==
    [case : Payments \cup {None}, type : AuditType,
     before : CaseState \cup {None}, after : CaseState \cup {None}]
record(c, type, before, after) ==
    [case |-> c, type |-> type, before |-> before, after |-> after]

Steps == {"idle", "load_event", "lookup_case", "insert_case", "decide",
          "recheck", "act", "commit_action", "find_case", "confirm",
          "mark_processed"}

Event(w)   == task[w].event
Subject(w) == task[w].event.of        \* the failed payment w's task is about
PaymentOf(e) == [via |-> e.via, of |-> e.of]
Exists(p)  == cases[p].state # "NONE"
Paid       == {"captured", "authorized"}
Original(p) == [via |-> "original", of |-> p]

(* Rows the orchestrator creates: a first-time customer gets these facts.  *)
RecoveryCustomer == [opted_out |-> FALSE, prior_success_count |-> 4]
CaseFacts(p) ==
    [state |-> "ACTION_PROPOSED", already_paid |-> FALSE, disputed |-> FALSE,
     amount_minor |-> Amount[p], previous_attempts |-> 0,
     failure_category |-> Category[p], case_type |-> "PAYMENT_FAILURE"]

(* recommend: what the language model returned, when it returned something *)
(* usable, else the deterministic recommendation.                          *)
Recommendations(p) ==
    ModelOutputs \cup {DeterministicRecommendation(CaseFacts(p), RecoveryCustomer)}

PaymentLinkCount(p) ==
    Cardinality({i \in interventions[p] : i.action = "CREATE_PAYMENT_LINK"})

Authorizes(p, rec) ==
    Evaluate(CaseFacts(p), RecoveryCustomer, rec, DefaultPolicy,
             PaymentLinkCount(p), SmtpAvailable)

(* The case verify_successful_payment finds for an event: by its source    *)
(* reference, else by the payment link with that provider id.              *)
Resolves(e) ==
    \/ e.source = "payment" /\ e.via = "original" /\ Exists(e.of)
    \/ e.source = "link" /\ e.of \in paymentLinks

Fault(kind) == /\ kind \in Faults
               /\ faults < MaxFaults
               /\ faults' = faults + 1
-----------------------------------------------------------------------------
TypeOK ==
    /\ payments \in [PaymentId -> {"none", "failed", "authorized", "captured"}]
    /\ links \in [Payments -> Nat]
    /\ emails \in [Payments -> Nat]
    /\ webhookEvents \in [Events -> {"NONE", "RECEIVED", "PROCESSED"}]
    /\ parents \subseteq Parent
    /\ cases \in [Payments -> CaseRow]
    /\ decisions \in [Payments -> Decision]
    /\ interventions \in [Payments -> SUBSET Intervention]
    /\ paymentLinks \subseteq Payments
    /\ outcomes \subseteq Outcome
    /\ audit \subseteq AuditEvent
    /\ queue \subseteq Message
    /\ pc \in [Workers -> Steps]
    /\ task \in [Workers -> Message \cup {None}]
    /\ \A w \in Workers : pc[w] = "idle" <=> task[w] = None
    /\ need \in [Workers -> SUBSET Parent]
    /\ sess \in [Workers -> CaseRow]
    /\ cmd \in [Workers -> RecoveryAction \cup {"NONE"}]
    /\ result \in [Workers -> InterventionStatus \cup {"NONE"}]
    /\ faults \in Nat

Init ==
    /\ payments = [id \in PaymentId |-> IF id.via = "original" THEN "failed" ELSE "none"]
    /\ links = [p \in Payments |-> 0]
    /\ emails = [p \in Payments |-> 0]
    /\ webhookEvents = [e \in Events |-> "NONE"]
    /\ parents \in {{}} \cup {{Merchant} \cup known : known \in SUBSET Customers}
    /\ cases = [p \in Payments |-> NoRow]
    /\ decisions = [p \in Payments |-> NoDecision]
    /\ interventions = [p \in Payments |-> {}]
    /\ paymentLinks = {}
    /\ outcomes = {}
    /\ audit = {}
    /\ queue = {}
    /\ pc = [w \in Workers |-> "idle"]
    /\ task = [w \in Workers |-> None]
    /\ need = [w \in Workers |-> {}]
    /\ sess = [w \in Workers |-> NoRow]
    /\ cmd = [w \in Workers |-> "NONE"]
    /\ result = [w \in Workers |-> "NONE"]
    /\ faults = 0
-----------------------------------------------------------------------------
(* The provider and its customers. *)

(* A late authorization of a payment reported as failed. *)
AuthorizePayment(p) ==
    /\ Original(p) \in Paying
    /\ payments[Original(p)] = "failed"
    /\ payments' = [payments EXCEPT ![Original(p)] = "authorized"]
    /\ UNCHANGED <<links, emails, database, queue, pc, task, session, faults>>

(* Capture of an authorized payment, of another attempt at the same order, *)
(* or of a payment made through a recovery link.                           *)
CapturePayment(id) ==
    /\ \/ id.via = "original" /\ payments[id] = "authorized"
       \/ id.via = "retry" /\ payments[id] = "none"
       \/ id.via = "link" /\ payments[id] = "none" /\ links[id.of] > 0
    /\ payments' = [payments EXCEPT ![id] = "captured"]
    /\ UNCHANGED <<links, emails, database, queue, pc, task, session, faults>>

(* The provider has something to report with event e. *)
Reportable(e) ==
    /\ webhookEvents[e] = "NONE"
    /\ CASE e.name = "payment.failed"     -> TRUE
         [] e.name = "payment.authorized" -> payments[PaymentOf(e)] \in Paid
         [] e.name = "payment.captured"   -> payments[PaymentOf(e)] = "captured"

(* razorpay_webhook: the row is committed, then the task is published.  A  *)
(* second delivery of e violates uq_webhook_semantic and changes nothing.  *)
ReceiveWebhook(e) ==
    /\ Reportable(e)
    /\ webhookEvents' = [webhookEvents EXCEPT ![e] = "RECEIVED"]
    /\ queue' = queue \cup {[event |-> e, n |-> 0]}
    /\ UNCHANGED <<provider, parents, cases, decisions, interventions, paymentLinks,
                   outcomes, audit, pc, task, session, faults>>

(* The row is committed but the broker refuses the task (or the process    *)
(* dies in between): the provider is told 503 and will send e again.       *)
QueueUnavailable(e) ==
    /\ Reportable(e)
    /\ Fault("broker")
    /\ webhookEvents' = [webhookEvents EXCEPT ![e] = "RECEIVED"]
    /\ UNCHANGED <<provider, parents, cases, decisions, interventions, paymentLinks,
                   outcomes, audit, queue, pc, task, session>>
-----------------------------------------------------------------------------
(* The worker.  A session ends with its task. *)

Goto(w, step) == pc' = [pc EXCEPT ![w] = step]

EndSession(w) ==
    /\ pc' = [pc EXCEPT ![w] = "idle"]
    /\ task' = [task EXCEPT ![w] = None]
    /\ need' = [need EXCEPT ![w] = {}]
    /\ sess' = [sess EXCEPT ![w] = NoRow]
    /\ cmd' = [cmd EXCEPT ![w] = "NONE"]
    /\ result' = [result EXCEPT ![w] = "NONE"]

(* autoretry_for: a task that raised is published again, up to max_retries *)
(* times; its open transaction is rolled back.                             *)
RetryOneLess(w) ==      \* mutant: the last retry is not granted
    /\ queue' = IF task[w].n + 1 < MaxRetries
                THEN queue \cup {[event |-> Event(w), n |-> task[w].n + 1]}
                ELSE queue
    /\ EndSession(w)

Retry(w) ==
    /\ queue' = IF task[w].n < MaxRetries
                THEN queue \cup {[event |-> Event(w), n |-> task[w].n + 1]}
                ELSE queue
    /\ EndSession(w)

Deliver(w) ==
    /\ pc[w] = "idle"
    /\ \E m \in queue :
          /\ queue' = queue \ {m}
          /\ task' = [task EXCEPT ![w] = m]
    /\ Goto(w, "load_event")
    /\ UNCHANGED <<provider, database, session, faults>>

(* process_webhook_event reads the webhook row and dispatches. *)
DispatchAuthorized(e) ==    \* mutant: an authorization counts as a payment
    CASE e.name = "payment.failed" -> IF Amount[e.of] # 0 THEN "lookup_case"
                                      ELSE "mark_processed"
      [] OTHER                     -> "find_case"

Dispatch(e) ==
    CASE e.name = "payment.failed" /\ Amount[e.of] # 0 -> "lookup_case"
      [] e.name = "payment.captured"                   -> "find_case"
      [] OTHER                                         -> "mark_processed"

LoadEvent(w) ==
    /\ pc[w] = "load_event"
    /\ webhookEvents[Event(w)] # "PROCESSED"
    /\ Goto(w, Dispatch(Event(w)))
    /\ UNCHANGED <<provider, database, queue, task, session, faults>>

(* The row is PROCESSED already: the task returns. *)
SkipProcessed(w) ==
    /\ pc[w] = "load_event"
    /\ webhookEvents[Event(w)] = "PROCESSED"
    /\ EndSession(w)
    /\ UNCHANGED <<provider, database, queue, faults>>

MarkProcessed(w) ==
    /\ pc[w] = "mark_processed"
    /\ webhookEvents' = [webhookEvents EXCEPT ![Event(w)] = "PROCESSED"]
    /\ EndSession(w)
    /\ UNCHANGED <<provider, parents, cases, decisions, interventions, paymentLinks,
                   outcomes, audit, queue, faults>>
-----------------------------------------------------------------------------
(* create_or_process_failed_payment. *)

LookupResumes(w) ==         \* mutant: the task goes on with an existing case
    /\ pc[w] = "lookup_case"
    /\ IF Exists(Subject(w))
       THEN /\ Goto(w, "recheck")
            /\ sess' = [sess EXCEPT ![w] = cases[Subject(w)]]
            /\ cmd' = [cmd EXCEPT ![w] = decisions[Subject(w)].action]
            /\ UNCHANGED need
       ELSE /\ Goto(w, "insert_case")
            /\ need' = [need EXCEPT ![w] = {Merchant, CustomerOf[Subject(w)]} \ parents]
            /\ UNCHANGED <<sess, cmd>>
    /\ UNCHANGED <<provider, database, queue, task, result, faults>>

(* An existing case is returned as it is; otherwise the session notes      *)
(* which of the merchant and the customer it has to add.                   *)
LookupCase(w) ==
    /\ pc[w] = "lookup_case"
    /\ IF Exists(Subject(w))
       THEN Goto(w, "mark_processed") /\ UNCHANGED need
       ELSE /\ Goto(w, "insert_case")
            /\ need' = [need EXCEPT ![w] = {Merchant, CustomerOf[Subject(w)]} \ parents]
    /\ UNCHANGED <<provider, database, queue, task, sess, cmd, result, faults>>

(* An open transaction of another worker holds a unique key w inserts. *)
Blocked(w) ==
    \E v \in Workers \ {w} :
        /\ pc[v] = "decide"
        /\ Subject(v) = Subject(w) \/ need[v] \cap need[w] # {}

(* A unique key w inserts has been committed by another transaction. *)
ParentTaken(w) ==           \* mutant: source_entity_id is not unique
    need[w] \cap parents # {}
KeyTaken(w) ==
    \/ Exists(Subject(w))
    \/ need[w] \cap parents # {}

(* session.flush(): the inserts take their unique keys, uncommitted. *)
InsertCase(w) ==
    /\ pc[w] = "insert_case"
    /\ ~Blocked(w)
    /\ ~KeyTaken(w)
    /\ sess' = [sess EXCEPT ![w] = [state |-> "DETECTED", already_paid |-> FALSE]]
    /\ Goto(w, "decide")
    /\ UNCHANGED <<provider, database, queue, task, need, cmd, result, faults>>

(* IntegrityError: the transaction is rolled back and the task raises. *)
ConflictIsDuplicate(w) ==   \* mutant: taken for a duplicate of the payment
    /\ pc[w] = "insert_case"
    /\ ~Blocked(w)
    /\ KeyTaken(w)
    /\ Goto(w, "mark_processed")
    /\ UNCHANGED <<provider, database, queue, task, session, faults>>

InsertConflicts(w) ==
    /\ pc[w] = "insert_case"
    /\ ~Blocked(w)
    /\ KeyTaken(w)
    /\ Retry(w)
    /\ UNCHANGED <<provider, database, faults>>

(* process_case walks the new case to NEEDS_REVIEW or AUTHORIZED within    *)
(* the transaction that inserts it.                                        *)
FinalBlocked(allowed) ==    \* mutant: a blocked case is left POLICY_BLOCKED
    IF allowed THEN "AUTHORIZED" ELSE "POLICY_BLOCKED"
FinalState(allowed) == IF allowed THEN "AUTHORIZED" ELSE "NEEDS_REVIEW"

Walk(final) == <<"DETECTED", "DIAGNOSING", "ACTION_PROPOSED", final>>

DecisionAudit(p, allowed) ==
    {record(p, "CASE_CREATED", None, "DETECTED"),
     record(p, "DIAGNOSIS_CREATED", None, "DIAGNOSING"),
     record(p, "AGENT_RECOMMENDATION_CREATED", None, "ACTION_PROPOSED")}
    \cup IF allowed
         THEN {record(p, "POLICY_ALLOWED", "ACTION_PROPOSED", "AUTHORIZED")}
         ELSE {record(p, "POLICY_BLOCKED", "ACTION_PROPOSED", "NEEDS_REVIEW"),
               record(p, "HUMAN_APPROVAL_REQUESTED", None, "NEEDS_REVIEW")}

(* execute returns the intervention that holds the idempotency key, which  *)
(* is made of the case, the action and the generation (always 1).          *)
KeyUsed(p, action) == \E i \in interventions[p] : i.action = action

(* Only an authorized command is executed. *)
ExecutesBlocked(p, action, allowed) == ~KeyUsed(p, action)   \* mutant: no return
Executes(p, action, allowed) == allowed /\ ~KeyUsed(p, action)

(* Diagnosis, recommendation and policy check, then session.commit(): a    *)
(* blocked case is left for review, an authorized one goes to the executor *)
(* in the same session.                                                    *)
DecideAs(w, p, rec, allowed) ==
    LET row == [state |-> FinalState(allowed), already_paid |-> FALSE]
    IN  /\ AssertWalk(Walk(row.state))
        /\ parents' = parents \cup need[w]
        /\ cases' = [cases EXCEPT ![p] = row]
        /\ decisions' = [decisions EXCEPT ![p] =
                            [action |-> rec.action, allowed |-> allowed]]
        /\ audit' = audit \cup DecisionAudit(p, allowed)
        /\ sess' = [sess EXCEPT ![w] = row]
        /\ cmd' = [cmd EXCEPT ![w] = rec.action]
        /\ need' = [need EXCEPT ![w] = {}]
        /\ Goto(w, IF Executes(p, rec.action, allowed) THEN "recheck"
                   ELSE "mark_processed")

Decide(w) ==
    /\ pc[w] = "decide"
    /\ \E rec \in Recommendations(Subject(w)) :
          DecideAs(w, Subject(w), rec, Authorizes(Subject(w), rec))
    /\ UNCHANGED <<provider, webhookEvents, interventions, paymentLinks, outcomes,
                   queue, task, result, faults>>
-----------------------------------------------------------------------------
(* execute: the current-state recheck, the action, and its commit. *)

(* What the executor knows of the payment after asking the provider. *)
KnownCaptured(w) ==         \* mutant: an authorized payment is chased
    \/ sess[w].already_paid
    \/ sess[w].state \in {"RECOVERED", "CLOSED"}
    \/ payments[Original(Subject(w))] = "captured"

KnownPaid(w) ==
    \/ sess[w].already_paid
    \/ sess[w].state \in {"RECOVERED", "CLOSED"}
    \/ payments[Original(Subject(w))] \in Paid

RecheckClear(w) ==
    /\ pc[w] = "recheck"
    /\ ~KnownPaid(w)
    /\ Goto(w, "act")
    /\ UNCHANGED <<provider, database, queue, task, session, faults>>

(* The row as the recheck leaves it: case.state is not assigned.            *)
RecoveredRow(p) ==          \* mutant: a case found paid is recovered, without outcome
    [state |-> "RECOVERED", already_paid |-> TRUE]
PaidRow(p) == [cases[p] EXCEPT !.already_paid = TRUE]

(* The payment is paid: the action is cancelled and already_paid is set.   *)
RecheckPaid(w) ==
    LET p == Subject(w)
    IN  /\ pc[w] = "recheck"
        /\ KnownPaid(w)
        /\ cases' = [cases EXCEPT ![p] = PaidRow(p)]
        /\ sess' = [sess EXCEPT ![w].already_paid = TRUE]
        /\ interventions' = [interventions EXCEPT ![p] = @ \cup
               {[action |-> cmd[w], status |-> "CANCELLED_ALREADY_PAID"]}]
        /\ audit' = audit \cup
               {record(p, "ACTION_CANCELLED_ALREADY_PAID", sess[w].state, sess[w].state)}
        /\ Goto(w, "mark_processed")
        /\ UNCHANGED <<provider, webhookEvents, parents, decisions, paymentLinks,
                       outcomes, queue, task, need, cmd, result, faults>>

(* get_payment raised: the failure is recorded and the task raises. *)
RecheckUnavailable(w) ==
    LET p == Subject(w)
    IN  /\ pc[w] = "recheck"
        /\ ~sess[w].already_paid
        /\ Fault("provider")
        /\ audit' = audit \cup {record(p, "ACTION_FAILED", sess[w].state, sess[w].state)}
        /\ Retry(w)
        /\ UNCHANGED <<provider, webhookEvents, parents, cases, decisions, interventions,
                       paymentLinks, outcomes>>

(* The side effect of an action outside the database. *)
Effect(w) ==
    LET p == Subject(w)
    IN  /\ links' = IF cmd[w] = "CREATE_PAYMENT_LINK" /\ p \notin paymentLinks
                    THEN [links EXCEPT ![p] = @ + 1] ELSE links
        /\ emails' = IF cmd[w] = "SEND_RECOVERY_MESSAGE"
                     THEN [emails EXCEPT ![p] = @ + 1] ELSE emails

(* The status the executor gives the intervention when nothing raised. *)
StatusOfAny(w) ==           \* mutant: whatever did not raise was executed
    IF cmd[w] = "CREATE_PAYMENT_LINK" /\ Subject(w) \in paymentLinks
    THEN "SKIPPED_DUPLICATE" ELSE "EXECUTED"

StatusOf(w) ==
    IF cmd[w] = "CREATE_PAYMENT_LINK"
    THEN IF Subject(w) \in paymentLinks THEN "SKIPPED_DUPLICATE" ELSE "EXECUTED"
    ELSE CASE cmd[w] = "SEND_RECOVERY_MESSAGE"          -> "EXECUTED"
           [] cmd[w] \in {"WAIT", "SCHEDULE_FOLLOWUP"} -> "SCHEDULED"
           [] OTHER                                    -> "NO_OP"

Act(w) ==
    /\ pc[w] = "act"
    /\ Effect(w)
    /\ result' = [result EXCEPT ![w] = StatusOf(w)]
    /\ Goto(w, "commit_action")
    /\ UNCHANGED <<payments, database, queue, task, need, sess, cmd, faults>>

EffectAudit(w) ==           \* mutant: ACTION_EXECUTED is not recorded
    IF result[w] # "EXECUTED" THEN {}
    ELSE {record(Subject(w), IF cmd[w] = "CREATE_PAYMENT_LINK" THEN "PAYMENT_LINK_CREATED"
                             ELSE "MESSAGE_SENT", sess[w].state, "WAITING_FOR_OUTCOME")}

ExecutionAudit(w) ==
    EffectAudit(w) \cup
        {record(Subject(w), "ACTION_EXECUTED", "AUTHORIZED", "WAITING_FOR_OUTCOME")}

(* The row as the executor leaves it: its UPDATE writes the state column    *)
(* only, which is the one its session has changed.                         *)
WrittenRow(w) ==            \* mutant: the whole session copy is written
    [sess[w] EXCEPT !.state = "WAITING_FOR_OUTCOME"]
UnmovedRow(w) ==            \* mutant: the execution leaves the state as it was
    cases[Subject(w)]
SparedRow(w) ==             \* mutant: the UPDATE leaves a recovered case as it is
    IF cases[Subject(w)].state = "RECOVERED" THEN cases[Subject(w)]
    ELSE [cases[Subject(w)] EXCEPT !.state = "WAITING_FOR_OUTCOME"]
UpdatedRow(w) ==
    [cases[Subject(w)] EXCEPT !.state = "WAITING_FOR_OUTCOME"]

(* session.commit(): the state column is written from the session's copy,  *)
(* whatever the row holds by now.                                          *)
CommitAction(w) ==
    LET p == Subject(w)
    IN  /\ pc[w] = "commit_action"
        /\ sess[w].state = "AUTHORIZED"
        /\ AssertWalk(<<"AUTHORIZED", "ACTION_EXECUTED", "WAITING_FOR_OUTCOME">>)
        /\ cases' = [cases EXCEPT ![p] = UpdatedRow(w)]
        /\ sess' = [sess EXCEPT ![w].state = "WAITING_FOR_OUTCOME"]
        /\ interventions' = [interventions EXCEPT ![p] = @ \cup
               {[action |-> cmd[w], status |-> result[w]]}]
        /\ paymentLinks' = IF cmd[w] = "CREATE_PAYMENT_LINK" /\ result[w] = "EXECUTED"
                           THEN paymentLinks \cup {p} ELSE paymentLinks
        /\ audit' = audit \cup ExecutionAudit(w)
        /\ Goto(w, "mark_processed")
        /\ UNCHANGED <<provider, webhookEvents, parents, decisions, outcomes, queue,
                       task, need, cmd, result, faults>>

FailureMovesOn(w) ==        \* mutant: the handler falls through to the transition
    LET p == Subject(w)
    IN  /\ pc[w] = "commit_action"
        /\ Fault("action")
        /\ cases' = [cases EXCEPT ![p].state = "WAITING_FOR_OUTCOME"]
        /\ interventions' = [interventions EXCEPT ![p] = @ \cup
               {[action |-> cmd[w], status |-> "FAILED"]}]
        /\ audit' = audit \cup {record(p, "ACTION_FAILED", None, "WAITING_FOR_OUTCOME")}
        /\ Retry(w)
        /\ UNCHANGED <<provider, webhookEvents, parents, decisions, paymentLinks, outcomes>>

(* An exception in the try block.  A call that raised (a timeout) may have *)
(* had its effect all the same.  After the rollback the intervention is    *)
(* recorded as FAILED and the task raises - unless the record raises first:*)
(* rollback() has expired the session's case, and reading case.id for the  *)
(* audit row queries the database outside the asyncio session's greenlet,  *)
(* which SQLAlchemy (2.0.36) refuses.  That build records nothing; a later *)
(* one may, and the action admits both.                                    *)
ActionFails(w) ==
    LET p == Subject(w)
    IN  /\ pc[w] \in {"act", "commit_action"}
        /\ Fault("action")
        /\ \/ pc[w] = "act" /\ Effect(w)
           \/ UNCHANGED <<links, emails>>
        /\ \/ /\ interventions' = [interventions EXCEPT ![p] = @ \cup
                     {[action |-> cmd[w], status |-> "FAILED"]}]
              /\ audit' = audit \cup {record(p, "ACTION_FAILED", None, None)}
           \/ UNCHANGED <<interventions, audit>>
        /\ Retry(w)
        /\ UNCHANGED <<payments, webhookEvents, parents, cases, decisions, paymentLinks,
                       outcomes>>
-----------------------------------------------------------------------------
(* verify_successful_payment. *)

(* The case is read; without one, or with one already paid, there is       *)
(* nothing to do.                                                          *)
FindCase(w) ==
    LET p == Subject(w)
    IN  /\ pc[w] = "find_case"
        /\ IF Resolves(Event(w)) /\ ~cases[p].already_paid
           THEN Goto(w, "confirm") /\ sess' = [sess EXCEPT ![w] = cases[p]]
           ELSE Goto(w, "mark_processed") /\ UNCHANGED sess
        /\ UNCHANGED <<provider, database, queue, task, need, cmd, result, faults>>

AnyIntervention(p) ==       \* mutant: attributed to an action that was cancelled
    interventions[p] # {}
Executed(p) == \E i \in interventions[p] : i.status = "EXECUTED"

CancelAsCancelled(is) ==    \* mutant: a status no reader knows
    {[i EXCEPT !.status = IF @ \in {"PENDING", "SCHEDULED", "EXECUTING"}
                          THEN "CANCELLED" ELSE @] : i \in is}

CancelPending(is) ==
    {[i EXCEPT !.status = IF @ \in {"PENDING", "SCHEDULED", "EXECUTING"}
                          THEN "CANCELLED_ALREADY_PAID" ELSE @] : i \in is}

(* An outcome exists for the payment; the case has that of another payment, *)
(* which its unique case_id forbids.                                       *)
Recorded(id) == \E o \in outcomes : o.payment = id

NoConflict(p, id) == FALSE  \* mutant: case_id is not unique
OutcomeTaken(p, id) == ~Recorded(id) /\ \E o \in outcomes : o.case = p

(* The UPDATE of the case row is flushed first and locks it, so that the   *)
(* queries that follow and the commit are one step for every other writer. *)
ConfirmPayment(w) ==
    LET p  == Subject(w)
        id == PaymentOf(Event(w))
    IN  /\ pc[w] = "confirm"
        /\ ~OutcomeTaken(p, id)
        /\ cases' = [cases EXCEPT ![p] = [state |-> "RECOVERED", already_paid |-> TRUE]]
        /\ outcomes' = IF Recorded(id) THEN outcomes
                       ELSE outcomes \cup
                            {[case |-> p, payment |-> id, attributed |-> Executed(p)]}
        /\ interventions' = [interventions EXCEPT ![p] = CancelPending(@)]
        /\ audit' = audit \cup
              {record(p, "PAYMENT_CONFIRMED", "WAITING_FOR_OUTCOME", "RECOVERED"),
               record(p, "CASE_RECOVERED", "WAITING_FOR_OUTCOME", "RECOVERED")}
        /\ sess' = [sess EXCEPT ![w] = [state |-> "RECOVERED", already_paid |-> TRUE]]
        /\ Goto(w, "mark_processed")
        /\ UNCHANGED <<provider, webhookEvents, parents, decisions, paymentLinks, queue,
                       task, need, cmd, result, faults>>

(* IntegrityError: the case has the outcome of another payment already. *)
OutcomeConflicts(w) ==
    /\ pc[w] = "confirm"
    /\ OutcomeTaken(Subject(w), PaymentOf(Event(w)))
    /\ Retry(w)
    /\ UNCHANGED <<provider, database, faults>>
-----------------------------------------------------------------------------
(* Failures of the worker's environment. *)

(* Any await on the database may raise; the transaction is rolled back.    *)
DatabaseFails(w) ==
    /\ pc[w] # "idle"
    /\ Fault("database")
    /\ Retry(w)
    /\ UNCHANGED <<provider, database>>

(* The worker dies.  With task_acks_late the message is still the broker's *)
(* and is delivered again; it is lost when only the pool child died, whose *)
(* parent acknowledges it.                                                 *)
WorkerKilled(w) ==
    /\ pc[w] # "idle"
    /\ Fault("killed")
    /\ queue' = queue \cup {task[w]}
    /\ EndSession(w)
    /\ UNCHANGED <<provider, database>>

TaskLost(w) ==
    /\ pc[w] # "idle"
    /\ Fault("lost")
    /\ EndSession(w)
    /\ UNCHANGED <<provider, database, queue>>

(* The visibility timeout expires while w is still at work. *)
Redelivered(w) ==
    /\ pc[w] # "idle"
    /\ Fault("redelivered")
    /\ queue' = queue \cup {task[w]}
    /\ UNCHANGED <<provider, database, pc, task, session>>
-----------------------------------------------------------------------------
WorkerStep(w) ==
    \/ LoadEvent(w) \/ SkipProcessed(w) \/ MarkProcessed(w)
    \/ LookupCase(w) \/ InsertCase(w) \/ InsertConflicts(w) \/ Decide(w)
    \/ RecheckClear(w) \/ RecheckPaid(w) \/ Act(w) \/ CommitAction(w)
    \/ FindCase(w) \/ ConfirmPayment(w) \/ OutcomeConflicts(w)

WorkerFault(w) ==
    \/ RecheckUnavailable(w) \/ ActionFails(w) \/ DatabaseFails(w)
    \/ WorkerKilled(w) \/ TaskLost(w) \/ Redelivered(w)

Provider ==
    \/ \E p \in Payments : AuthorizePayment(p)
    \/ \E id \in Paying : CapturePayment(id)

Api == \E e \in Events : ReceiveWebhook(e) \/ QueueUnavailable(e)

Next ==
    \/ Provider
    \/ Api
    \/ \E w \in Workers : Deliver(w) \/ WorkerStep(w) \/ WorkerFault(w)

Spec == Init /\ [][Next]_vars

(* Workers run and take messages; faults and the outside world need not    *)
(* happen.                                                                 *)
Fairness == \A w \in Workers : WF_vars(Deliver(w)) /\ WF_vars(WorkerStep(w))

FairSpec == Spec /\ Fairness
-----------------------------------------------------------------------------
(* Properties. *)

(* However often a task is retried, redelivered or interrupted, and however *)
(* many workers handle the events of one payment at once, the customer gets *)
(* at most one payment link or message: the lookup and the unique source    *)
(* reference let a single transaction create the case, and only its session *)
(* reaches execute.                                                         *)
AtMostOneRecoveryAction == \A p \in Payments : links[p] + emails[p] <= 1

(* Nothing leaves the system before the decision that allows it is durable: *)
(* process_case commits AUTHORIZED before it calls execute, so after any    *)
(* crash the database explains every link and message there is.             *)
ActionWasAuthorized ==
    \A p \in Payments :
        /\ links[p] + emails[p] > 0 =>
              /\ Exists(p) /\ decisions[p].allowed
              /\ Amount[p] <= DefaultPolicy.max_auto_action_amount_minor
        /\ links[p] > 0 => decisions[p].action = "CREATE_PAYMENT_LINK"
        /\ emails[p] > 0 => decisions[p].action = "SEND_RECOVERY_MESSAGE" /\ SmtpAvailable

(* Only a captured payment recovers a case: RECOVERED comes with an outcome,*)
(* an outcome with a payment of that case captured at the provider and with *)
(* the case's paid flag, and an attributed one with an executed action      *)
(* (verify_successful_payment against everything that races it).            *)
RecoveryIsEvidenced ==
    /\ \A p \in Payments : cases[p].state = "RECOVERED" => \E o \in outcomes : o.case = p
    /\ \A o \in outcomes :
          /\ o.payment.of = o.case
          /\ payments[o.payment] = "captured"
          /\ cases[o.case].already_paid
          /\ o.attributed => Executed(o.case)

(* Revenue is counted once: two payments of one case (a late capture and a  *)
(* link payment, verified concurrently) leave one outcome.                  *)
OneOutcomePerCase ==
    \A o1, o2 \in outcomes : o1.case = o2.case \/ o1.payment = o2.payment => o1 = o2

(* The interventions tell the truth about the outside world: EXECUTED rows  *)
(* had their effect, cancelled, scheduled and no-op rows had none, and the  *)
(* link table has a row exactly for the executed link creations.            *)
LedgerIsBacked ==
    \A p \in Payments :
        /\ \A i \in interventions[p] :
              /\ i.status = "EXECUTED" =>
                    CASE i.action = "CREATE_PAYMENT_LINK"   -> links[p] = 1
                      [] i.action = "SEND_RECOVERY_MESSAGE" -> emails[p] = 1
                      [] OTHER                              -> FALSE
              /\ i.status \in {"CANCELLED_ALREADY_PAID", "SCHEDULED", "NO_OP"} =>
                    links[p] + emails[p] = 0
        /\ p \in paymentLinks <=>
              [action |-> "CREATE_PAYMENT_LINK", status |-> "EXECUTED"] \in interventions[p]

(* A failed-payment webhook is marked PROCESSED only once its case exists:  *)
(* no crash, retry or insert conflict (not even one on the merchant or the  *)
(* customer another payment inserts) loses the payment.                     *)
ProcessedFailureHasCase ==
    \A e \in Events :
        e.name = "payment.failed" /\ Amount[e.of] # 0 /\ webhookEvents[e] = "PROCESSED"
            => Exists(e.of)

(* A case the policy did not allow, and any case above the amount limit,    *)
(* waits for a human: only evidence of payment moves it, and nothing is     *)
(* executed, recorded or sent for it (process_case returns after its commit).*)
ReviewHolds ==
    \A p \in Payments :
        /\ Exists(p)
        /\ ~decisions[p].allowed \/ Amount[p] > DefaultPolicy.max_auto_action_amount_minor
        => /\ cases[p].state \in {"NEEDS_REVIEW", "RECOVERED"}
           /\ interventions[p] = {} /\ links[p] = 0 /\ emails[p] = 0

(* The audit ledger accounts for the state of every case.                   *)
AuditExplainsState ==
    \A p \in Payments :
        Exists(p) => \E a \in audit : a.case = p /\ a.after = cases[p].state

(* The ledger tells the flow: a record that names the state before it names *)
(* the one the case had, or has just passed through, although the executor  *)
(* takes it from its session's copy.  Recoveries are the exception: they    *)
(* may overtake the executor, and verify_successful_payment always writes   *)
(* WAITING_FOR_OUTCOME, whatever the state was.                             *)
AuditBeforeHolds ==
    [][\A a \in audit' \ audit :
          /\ a.before # None /\ a.type \notin {"PAYMENT_CONFIRMED", "CASE_RECOVERED"}
          /\ cases[a.case].state # "RECOVERED"
          => IF Exists(a.case) THEN a.before = cases[a.case].state
             ELSE \E b \in audit' : b.case = a.case /\ b.after = a.before]_vars

(* The paid flag is never lost, although the executor commits a session     *)
(* copy of the case that may predate it: only changed columns are written.  *)
PaidStaysPaid ==
    [][\A p \in Payments : cases[p].already_paid => cases'[p].already_paid]_vars

(* Acting: the steps of a worker inside execute.                            *)
Acting == {"recheck", "act", "commit_action"}

(* A case whose authorized action is neither executed nor given up.         *)
Unexecuted(p) == cases[p].state = "AUTHORIZED" /\ ~cases[p].already_paid
InHand(p)     == \E w \in Workers : pc[w] \in Acting /\ Subject(w) = p
Stranded(p)   == Unexecuted(p) /\ ~InHand(p)

(* execute is left by an exception, or with its process.                    *)
Interrupted(w) ==
    \/ RecheckUnavailable(w) \/ ActionFails(w) \/ DatabaseFails(w)
    \/ WorkerKilled(w) \/ TaskLost(w)

(* An authorized action is given up only when its own executor is           *)
(* interrupted.  Its retry cannot resume it (create_or_process_failed_      *)
(* payment returns the case it finds), so nothing else may end an executor: *)
(* not the tasks redelivered beside it, the insert conflicts of the other   *)
(* worker, a recovery that overtakes it, or the commit of the action.       *)
OnlyInterruptionStrands ==
    [][\A p \in Payments :
          Stranded(p)' =>
             \/ Stranded(p)
             \/ \E w \in Workers :
                   pc[w] \in Acting /\ Subject(w) = p /\ Interrupted(w)]_vars

(* An effect that no EXECUTED row records belongs to a case that still is   *)
(* AUTHORIZED, or was recovered since: when the action succeeds and its     *)
(* commit fails (execute records FAILED, or dies trying), no case waits for *)
(* the outcome of an action the ledger does not know.                       *)
UnrecordedEffectShows ==
    \A p \in Payments :
        links[p] + emails[p] > 0
            => Executed(p) \/ cases[p].state \in {"AUTHORIZED", "RECOVERED"}

(* A recovered case has nothing scheduled: verify_successful_payment        *)
(* cancels what is pending, and the executor that commits a SCHEDULED row   *)
(* after it, from the copy it read before, takes the state back with it.    *)
RecoveredHasNothingPending ==
    \A p \in Payments : cases[p].state = "RECOVERED" =>
        \A i \in interventions[p] : i.status \notin {"PENDING", "SCHEDULED", "EXECUTING"}

(* Every commit takes a case along ALLOWED_TRANSITIONS, although            *)
(* verify_successful_payment assigns RECOVERED without asking and may       *)
(* overtake any step of the executor.  A transaction may take several       *)
(* transitions at once; the one exception is the executor that overwrites   *)
(* RECOVERED (RecoveredOnlyCloses).                                         *)
Follows(before, after) ==
    \/ before = after
    \/ before = "NONE" /\ AssertWalk(Walk(after))
    \/ before # "NONE" /\ AssertTransition(before, after)
    \/ before = "AUTHORIZED" /\ after = "WAITING_FOR_OUTCOME"
       /\ AssertWalk(<<"AUTHORIZED", "ACTION_EXECUTED", "WAITING_FOR_OUTCOME">>)
    \/ before = "RECOVERED" /\ after = "WAITING_FOR_OUTCOME"

CasesFollowTable ==
    [][\A p \in Payments : Follows(cases[p].state, cases'[p].state)]_vars

(* Once the failed payment is authorized or captured at the provider and no *)
(* executor is already past its recheck, no link or message can follow: the *)
(* recheck in execute is in the way of every path to an action.             *)
PastRecheck(p) == \E w \in Workers : pc[w] = "act" /\ Subject(w) = p

PaidPaymentIsNotChased ==
    [][\A p \in Payments :
          payments[Original(p)] \in Paid /\ ~PastRecheck(p)
              => links'[p] = links[p] /\ emails'[p] = emails[p] /\ ~PastRecheck(p)']_vars

(* Every webhook whose task was published is eventually PROCESSED, through  *)
(* worker crashes, duplicate deliveries, database errors and insert         *)
(* conflicts, as long as they do not use up the retries and no message is   *)
(* acknowledged for a pool child that died (TaskLost).                      *)
ReceivedIsProcessed ==
    \A e \in Events : webhookEvents[e] = "RECEIVED" ~> webhookEvents[e] = "PROCESSED"
-----------------------------------------------------------------------------
(* The inductive invariants behind the properties, conjunct by conjunct.     *)

(* What the session of a worker inside execute looks like.                   *)
SessionOK ==
    \A w \in Workers :
        /\ pc[w] \in Acting => /\ sess[w] = [state |-> "AUTHORIZED", already_paid |-> FALSE]
                               /\ cmd[w] \in RecoveryAction
        /\ pc[w] = "commit_action" => result[w] \in InterventionStatus

(* A row that does not exist says nothing.                                   *)
AbsentRows == \A p \in Payments : ~Exists(p) => ~cases[p].already_paid

(* Uncommitted cases do not exist yet, those linked, acted on or confirmed   *)
(* do.                                                                       *)
RowsOfWorkers ==
    /\ \A p \in paymentLinks : Exists(p)
    /\ \A w \in Workers :
          /\ pc[w] = "decide" => ~Exists(Subject(w))
          /\ pc[w] \in Acting \cup {"confirm"} => Exists(Subject(w))

(* One transaction at most creates the case of a payment, one session at     *)
(* most executes its action.                                                 *)
SingleFlight ==
    \A v, w \in Workers :
        v # w /\ task[v] # None /\ task[w] # None /\ Subject(v) = Subject(w)
            => /\ pc[v] = "decide" => pc[w] # "decide"
               /\ pc[v] \in Acting => pc[w] \notin Acting

(* Nothing has left the system for a payment before its case exists, nor     *)
(* while its executor has not acted.                                         *)
NothingSentYet ==
    /\ \A p \in Payments : ~Exists(p) => links[p] = 0 /\ emails[p] = 0
    /\ \A w \in Workers :
          pc[w] \in {"recheck", "act"} => links[Subject(w)] = 0 /\ emails[Subject(w)] = 0

ActionInv ==
    /\ RowsOfWorkers
    /\ SingleFlight
    /\ NothingSentYet
    /\ AtMostOneRecoveryAction

(* An executor carries out the decision that is committed.                   *)
CommandIsDecided ==
    \A w \in Workers :
        pc[w] \in Acting =>
            /\ decisions[Subject(w)] = [action |-> cmd[w], allowed |-> TRUE]
            /\ Amount[Subject(w)] <= DefaultPolicy.max_auto_action_amount_minor
            /\ cmd[w] = "SEND_RECOVERY_MESSAGE" => SmtpAvailable
-----------------------------------------------------------------------------
(* Statements of the documentation and of the code's comments that the code *)
(* does not keep.                                                           *)

(* RECOVERED may only be followed by CLOSED (ALLOWED_TRANSITIONS). *)
RecoveredOnlyCloses ==
    [][\A p \in Payments :
          cases[p].state = "RECOVERED" => cases'[p].state \in {"RECOVERED", "CLOSED"}]_vars

(* An authorized action does not stay unexecuted for ever. *)
AuthorizedIsExecuted ==
    \A p \in Payments : cases[p].state = "AUTHORIZED" ~> cases[p].state # "AUTHORIZED"

(* Provider evidence verifies recovery: when all there was to do about a    *)
(* payment is done and a captured payment that names its case was among it, *)
(* the case has an outcome.                                                 *)
Settled(p) ==
    /\ \A m \in queue : m.event.of # p
    /\ \A w \in Workers : task[w] # None => Subject(w) # p

EvidenceRecovers ==
    \A e \in Events :
        e.name = "payment.captured" /\ webhookEvents[e] = "PROCESSED"
        /\ Resolves(e) /\ Settled(e.of)
            => \E o \in outcomes : o.case = e.of

(* The promised loop closes: a captured payment made through the link of a  *)
(* case recovers that case, whatever else its webhook carries.  (The lookup *)
(* prefers the order id of the payment, which is never that of a link.)     *)
LinkPaymentRecovers ==
    \A e \in Events :
        e.name = "payment.captured" /\ e.via = "link"
        /\ webhookEvents[e] = "PROCESSED" /\ Settled(e.of)
            => \E o \in outcomes : o.case = e.of
=============================================================================
