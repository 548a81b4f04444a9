------------------------ MODULE RecoveryLedgerProofs ------------------------
(***************************************************************************)
(* Proofs about the ledgers of RecoveryPipeline: outcomes, interventions,  *)
(* audit records and processed webhooks, and how they agree with the cases *)
(* and with what happened outside the system.                              *)
(***************************************************************************)
EXTENDS RecoveryPipelineProofs

(* The actions that touch the ledgers or send something.                     *)
LEMMA LedgerStep ==
  ASSUME [Next]_vars
  PROVE  \/ UNCHANGED <<links, emails, cases, decisions, interventions, paymentLinks,
                        outcomes, audit>>
         \/ \E w \in Workers :
               \/ Decide(w) \/ RecheckPaid(w) \/ RecheckUnavailable(w) \/ Act(w)
               \/ CommitAction(w) \/ ActionFails(w) \/ ConfirmPayment(w)
  BY DEF Next, Provider, Api, WorkerStep, WorkerFault, AuthorizePayment, CapturePayment,
      ReceiveWebhook, QueueUnavailable, Deliver, LoadEvent, SkipProcessed, MarkProcessed,
      LookupCase, InsertCase, InsertConflicts, RecheckClear, FindCase, OutcomeConflicts,
      DatabaseFails, WorkerKilled, TaskLost, Redelivered, provider, database, session, vars

(* The payment an executor acts for has a case, and no other executor.       *)
LEMMA ActingAlone ==
  ASSUME TypeInv, ActionInv, NEW w \in Workers, pc[w] \in Acting
  PROVE  /\ Subject(w) \in Payments
         /\ Exists(Subject(w))
         /\ \A v \in Workers : pc[v] \in Acting /\ Subject(v) = Subject(w) => v = w
<1>1. Subject(w) \in Payments /\ task[w] # None
  BY MessageType DEF Acting, TypeInv, TypeOK
<1>2. \A v \in Workers : pc[v] \in Acting => task[v] # None
  BY DEF Acting, TypeInv, TypeOK
<1> QED BY <1>1, <1>2 DEF ActionInv, RowsOfWorkers, SingleFlight
-----------------------------------------------------------------------------
(* Revenue is counted once.                                                  *)

(* Only a confirmation writes an outcome, for a payment of a case neither of *)
(* which has one.                                                            *)
LEMMA OutcomeChange ==
  ASSUME TypeInv, [Next]_vars
  PROVE  \/ outcomes' = outcomes
         \/ \E w \in Workers :
               /\ ConfirmPayment(w)
               /\ ~Recorded(PaymentOf(Event(w)))
               /\ \A o \in outcomes : o.case # Subject(w)
               /\ outcomes' = outcomes \cup
                     {[case |-> Subject(w), payment |-> PaymentOf(Event(w)),
                       attributed |-> Executed(Subject(w))]}
<1>1. ASSUME NEW w \in Workers,
             \/ Decide(w) \/ RecheckPaid(w) \/ RecheckUnavailable(w) \/ Act(w)
             \/ CommitAction(w) \/ ActionFails(w)
      PROVE  outcomes' = outcomes
  BY <1>1 DEF Decide, RecheckPaid, RecheckUnavailable, Act, CommitAction, ActionFails,
              database
<1>2. ASSUME NEW w \in Workers, ConfirmPayment(w), outcomes' # outcomes
      PROVE  /\ ~Recorded(PaymentOf(Event(w)))
             /\ \A o \in outcomes : o.case # Subject(w)
             /\ outcomes' = outcomes \cup
                   {[case |-> Subject(w), payment |-> PaymentOf(Event(w)),
                     attributed |-> Executed(Subject(w))]}
  BY <1>2 DEF ConfirmPayment, OutcomeTaken
<1> QED BY <1>1, <1>2, LedgerStep

LEMMA OneOutcomeStep ==
  TypeInv /\ OneOutcomePerCase /\ [Next]_vars => OneOutcomePerCase'
<1> SUFFICES ASSUME TypeInv, OneOutcomePerCase, [Next]_vars, outcomes' # outcomes
             PROVE  OneOutcomePerCase'
  BY DEF OneOutcomePerCase
<1>1. PICK w \in Workers :
         /\ ~Recorded(PaymentOf(Event(w)))
         /\ \A o \in outcomes : o.case # Subject(w)
         /\ outcomes' = outcomes \cup
               {[case |-> Subject(w), payment |-> PaymentOf(Event(w)),
                 attributed |-> Executed(Subject(w))]}
  BY OutcomeChange
<1> QED BY <1>1 DEF OneOutcomePerCase, Recorded

(* Two payments of one case, verified by any number of workers at once,      *)
(* leave one outcome, and no payment counts for two cases.                   *)
THEOREM RevenueCountedOnce == Spec => []OneOutcomePerCase
<1>1. Init => OneOutcomePerCase
  BY DEF Init, OneOutcomePerCase
<1> QED BY <1>1, TypeInit, TypeStep, OneOutcomeStep, PTL DEF Spec
-----------------------------------------------------------------------------
(* Only a captured payment recovers a case.                                  *)

(* Every task comes from a webhook the provider sent, and the verifier only  *)
(* gets those that report a payment that is captured.                        *)
EvidenceInv ==
    /\ \A e \in Events :
          webhookEvents[e] # "NONE" /\ e.name = "payment.captured"
             => payments[PaymentOf(e)] = "captured"
    /\ \A m \in queue : webhookEvents[m.event] # "NONE"
    /\ \A w \in Workers :
          /\ task[w] # None => webhookEvents[Event(w)] # "NONE"
          /\ pc[w] \in {"find_case", "confirm"} => Event(w).name = "payment.captured"

LEMMA CapturedStays ==
  ASSUME TypeInv, [Next]_vars, NEW id \in PaymentId, payments[id] = "captured"
  PROVE  payments'[id] = "captured"
<1> USE DEF provider, database, session, vars
<1>1. CASE UNCHANGED payments
  BY <1>1
<1>2. ASSUME NEW p \in Payments, AuthorizePayment(p)
      PROVE  payments'[id] = "captured"
  BY <1>2 DEF AuthorizePayment, TypeInv, TypeOK
<1>3. ASSUME NEW i \in Paying, CapturePayment(i)
      PROVE  payments'[id] = "captured"
  BY <1>3 DEF CapturePayment, TypeInv, TypeOK
<1> QED
  BY <1>1, <1>2, <1>3
  DEF Next, Provider, Api, WorkerStep, WorkerFault, ReceiveWebhook, QueueUnavailable,
      Deliver, LoadEvent, SkipProcessed, MarkProcessed, LookupCase, InsertCase,
      InsertConflicts, Decide, RecheckClear, RecheckPaid, RecheckUnavailable, Act,
      CommitAction, ActionFails, FindCase, ConfirmPayment, OutcomeConflicts,
      DatabaseFails, WorkerKilled, TaskLost, Redelivered

(* The rows of the webhooks, step by step.                                   *)
LEMMA WebhookChange ==
  ASSUME TypeInv, [Next]_vars, NEW e \in Events
  PROVE  \/ webhookEvents'[e] = webhookEvents[e]
         \/ Reportable(e) /\ webhookEvents'[e] = "RECEIVED"
         \/ /\ webhookEvents'[e] = "PROCESSED"
            /\ \E w \in Workers : MarkProcessed(w) /\ Event(w) = e
<1> USE DEF provider, database, session, vars
<1>1. CASE UNCHANGED webhookEvents
  BY <1>1
<1>2. ASSUME NEW f \in Events, ReceiveWebhook(f) \/ QueueUnavailable(f)
      PROVE  \/ webhookEvents'[e] = webhookEvents[e]
             \/ Reportable(e) /\ webhookEvents'[e] = "RECEIVED"
  BY <1>2 DEF ReceiveWebhook, QueueUnavailable, TypeInv, TypeOK
<1>3. ASSUME NEW w \in Workers, MarkProcessed(w)
      PROVE  \/ webhookEvents'[e] = webhookEvents[e]
             \/ Event(w) = e /\ webhookEvents'[e] = "PROCESSED"
  BY <1>3 DEF MarkProcessed, TypeInv, TypeOK
<1> QED
  BY <1>1, <1>2, <1>3
  DEF Next, Provider, Api, WorkerStep, WorkerFault, AuthorizePayment, CapturePayment,
      Deliver, LoadEvent, SkipProcessed, LookupCase, InsertCase,
      InsertConflicts, Decide, RecheckClear, RecheckPaid, RecheckUnavailable, Act,
      CommitAction, ActionFails, FindCase, ConfirmPayment, OutcomeConflicts,
      DatabaseFails, WorkerKilled, TaskLost, Redelivered

(* What a step does to a worker: nothing, the end of its session, the        *)
(* delivery of a message, or a step of its own within its task.              *)
Moves(w) ==
    \/ LoadEvent(w) \/ LookupCase(w) \/ InsertCase(w) \/ Decide(w) \/ RecheckClear(w)
    \/ RecheckPaid(w) \/ Act(w) \/ CommitAction(w) \/ FindCase(w) \/ ConfirmPayment(w)

LEMMA WorkerChange ==
  ASSUME TypeInv, [Next]_vars, NEW w \in Workers
  PROVE  \/ pc'[w] = pc[w] /\ task'[w] = task[w] /\ result'[w] = result[w]
         \/ pc'[w] = "idle" /\ task'[w] = None
         \/ pc'[w] = "load_event" /\ task'[w] \in queue
         \/ Moves(w) /\ task'[w] = task[w]
<1> USE DEF provider, database, session, vars
<1>1. CASE UNCHANGED <<pc, task, result>>
  BY <1>1
<1>2. ASSUME NEW v \in Workers,
             \/ SkipProcessed(v) \/ MarkProcessed(v) \/ InsertConflicts(v)
             \/ OutcomeConflicts(v) \/ RecheckUnavailable(v) \/ ActionFails(v)
             \/ DatabaseFails(v) \/ WorkerKilled(v) \/ TaskLost(v)
      PROVE  \/ pc'[w] = pc[w] /\ task'[w] = task[w] /\ result'[w] = result[w]
             \/ pc'[w] = "idle" /\ task'[w] = None
  BY <1>2 DEF SkipProcessed, MarkProcessed, InsertConflicts, OutcomeConflicts,
              RecheckUnavailable, ActionFails, DatabaseFails, WorkerKilled, TaskLost,
              Retry, EndSession, TypeInv, TypeOK
<1>3. ASSUME NEW v \in Workers, Deliver(v)
      PROVE  \/ pc'[w] = pc[w] /\ task'[w] = task[w] /\ result'[w] = result[w]
             \/ pc'[w] = "load_event" /\ task'[w] \in queue
  BY <1>3 DEF Deliver, Goto, TypeInv, TypeOK
<1>4. ASSUME NEW v \in Workers, Moves(v)
      PROVE  \/ pc'[w] = pc[w] /\ task'[w] = task[w] /\ result'[w] = result[w]
             \/ v = w /\ task'[w] = task[w]
  <2>1. task' = task
    BY <1>4 DEF Moves, LoadEvent, LookupCase, InsertCase, Decide, RecheckClear,
                RecheckPaid, Act, CommitAction, FindCase, ConfirmPayment
  <2>2. v # w => pc'[w] = pc[w] /\ result'[w] = result[w]
    BY <1>4 DEF Moves, LoadEvent, LookupCase, InsertCase, Decide, DecideAs, RecheckClear,
                RecheckPaid, Act, CommitAction, FindCase, ConfirmPayment, Goto, TypeInv,
                TypeOK
  <2> QED BY <2>1, <2>2
<1>5. ASSUME NEW v \in Workers, Redelivered(v)
      PROVE  UNCHANGED <<pc, task, result>>
  BY <1>5 DEF Redelivered
<1>6. CASE Provider \/ Api
  BY <1>1, <1>6 DEF Provider, Api, AuthorizePayment, CapturePayment, ReceiveWebhook,
                    QueueUnavailable
<1> QED
  BY <1>1, <1>2, <1>3, <1>4, <1>5, <1>6 DEF Next, WorkerStep, WorkerFault, Moves

(* Where a message of the queue comes from.                                  *)
LEMMA QueueChange ==
  ASSUME TypeInv, [Next]_vars, NEW m \in queue'
  PROVE  \/ m \in queue
         \/ \E w \in Workers : pc[w] # "idle" /\ m.event = Event(w)
         \/ m.event \in Events /\ webhookEvents'[m.event] = "RECEIVED"
<1> USE DEF provider, database, session, vars
<1>1. CASE UNCHANGED queue
  BY <1>1
<1>2. ASSUME NEW e \in Events, ReceiveWebhook(e)
      PROVE  m \in queue \/ (m.event \in Events /\ webhookEvents'[m.event] = "RECEIVED")
  BY <1>2 DEF ReceiveWebhook, TypeInv, TypeOK
<1>3. ASSUME NEW w \in Workers,
             \/ InsertConflicts(w) \/ OutcomeConflicts(w) \/ RecheckUnavailable(w)
             \/ ActionFails(w) \/ DatabaseFails(w)
      PROVE  m \in queue \/ (pc[w] # "idle" /\ m.event = Event(w))
  BY <1>3 DEF InsertConflicts, OutcomeConflicts, RecheckUnavailable, ActionFails,
              DatabaseFails, Retry
<1>4. ASSUME NEW w \in Workers, WorkerKilled(w) \/ Redelivered(w)
      PROVE  m \in queue \/ (pc[w] # "idle" /\ m.event = Event(w))
  BY <1>4 DEF WorkerKilled, Redelivered, Event
<1>5. ASSUME NEW w \in Workers, Deliver(w)
      PROVE  m \in queue
  BY <1>5 DEF Deliver
<1> QED
  BY <1>1, <1>2, <1>3, <1>4, <1>5
  DEF Next, Provider, Api, WorkerStep, WorkerFault, AuthorizePayment, CapturePayment,
      QueueUnavailable, LoadEvent, SkipProcessed, MarkProcessed, LookupCase, InsertCase,
      Decide, RecheckClear, RecheckPaid, Act, CommitAction, FindCase, ConfirmPayment,
      TaskLost

LEMMA EvidenceInit == Init => EvidenceInv
  BY DEF Init, EvidenceInv

LEMMA EvidenceStep == TypeInv /\ TypeInv' /\ EvidenceInv /\ [Next]_vars => EvidenceInv'
<1> SUFFICES ASSUME TypeInv, TypeInv', EvidenceInv, [Next]_vars PROVE EvidenceInv'
  OBVIOUS
<1>1. ASSUME NEW w \in Workers, pc[w] # "idle"
      PROVE  Event(w) \in Events /\ webhookEvents[Event(w)] # "NONE"
  BY <1>1, MessageType DEF EvidenceInv, TypeInv, TypeOK
<1>2. ASSUME NEW e \in Events, webhookEvents[e] # "NONE"
      PROVE  webhookEvents'[e] # "NONE"
  BY <1>2, WebhookChange
<1>3. ASSUME NEW e \in Events, webhookEvents'[e] # "NONE", e.name = "payment.captured"
      PROVE  payments'[PaymentOf(e)] = "captured"
  <2>1. PaymentOf(e) \in PaymentId
    BY ConstantsAssumption DEF WebhookEvent, PaymentOf, PaymentId
  <2>2. payments[PaymentOf(e)] = "captured"
    <3>1. CASE webhookEvents[e] # "NONE"
      BY <1>3, <3>1 DEF EvidenceInv
    <3>2. CASE Reportable(e)
      BY <1>3, <3>2 DEF Reportable
    <3>3. ASSUME NEW w \in Workers, MarkProcessed(w), Event(w) = e
          PROVE  webhookEvents[e] # "NONE"
      BY <1>1, <3>3 DEF MarkProcessed
    <3> QED BY <1>3, <3>1, <3>2, <3>3, WebhookChange
  <2> QED BY <2>1, <2>2, CapturedStays
<1>4. ASSUME NEW m \in queue'
      PROVE  webhookEvents'[m.event] # "NONE"
  <2>1. CASE m \in queue
    <3>1. m.event \in Events /\ webhookEvents[m.event] # "NONE"
      BY <2>1 DEF EvidenceInv, TypeInv, TypeOK, Message
    <3> QED BY <1>2, <3>1
  <2>2. ASSUME NEW w \in Workers, pc[w] # "idle", m.event = Event(w)
        PROVE  webhookEvents'[m.event] # "NONE"
    BY <1>1, <1>2, <2>2
  <2> QED BY <2>1, <2>2, QueueChange
<1>5. ASSUME NEW w \in Workers, task'[w] # None
      PROVE  webhookEvents'[task'[w].event] # "NONE"
  <2>1. CASE task'[w] = task[w]
    <3>1. pc[w] # "idle"
      BY <1>5, <2>1 DEF TypeInv, TypeOK
    <3> QED BY <1>1, <1>2, <2>1, <3>1 DEF Event
  <2>2. CASE task'[w] \in queue
    <3>1. task'[w].event \in Events /\ webhookEvents[task'[w].event] # "NONE"
      BY <2>2 DEF EvidenceInv, TypeInv, TypeOK, Message
    <3> QED BY <1>2, <3>1
  <2> QED BY <1>5, <2>1, <2>2, WorkerChange
<1>6. ASSUME NEW w \in Workers, pc'[w] \in {"find_case", "confirm"}
      PROVE  task'[w].event.name = "payment.captured"
  <2>1. CASE Moves(w) /\ task'[w] = task[w]
    <3>1. LoadEvent(w) \/ FindCase(w)
      BY <1>6, <2>1 DEF Moves, LookupCase, InsertCase, Decide, DecideAs, RecheckClear,
                        RecheckPaid, Act, CommitAction, ConfirmPayment, Goto, TypeInv, TypeOK
    <3>2. CASE LoadEvent(w)
      BY <1>6, <2>1, <3>2 DEF LoadEvent, Dispatch, Goto, Event, TypeInv, TypeOK
    <3>3. CASE FindCase(w)
      BY <2>1, <3>3 DEF FindCase, EvidenceInv, Event
    <3> QED BY <3>1, <3>2, <3>3
  <2>2. CASE pc'[w] = pc[w] /\ task'[w] = task[w]
    BY <1>6, <2>2 DEF EvidenceInv, Event
  <2> QED BY <1>6, <2>1, <2>2, WorkerChange
<1> QED BY <1>3, <1>4, <1>5, <1>6 DEF EvidenceInv, PaymentOf, Event

(* The invariants of the cases and actions, for every reachable state.       *)
LEMMA CaseInvariant == Spec => [](TypeInv /\ ActionInv /\ DecisionInv /\ AbsentRows)
  BY TypeInit, TypeStep, ActionInit, ActionStep, DecisionInit, DecisionStep, AbsentInit,
     AbsentStep, PTL DEF Spec

(* A case is recovered by a confirmation only.                               *)
LEMMA RecoveredBy ==
  ASSUME TypeInv, [Next]_vars, NEW p \in Payments, cases'[p].state = "RECOVERED"
  PROVE  \/ cases[p].state = "RECOVERED"
         \/ \E w \in Workers : ConfirmPayment(w) /\ Subject(w) = p
<1>1. cases[p] \in CaseRow
  BY DEF TypeInv, TypeOK
<1>2. CASE RowKept(p) \/ RowPaid(p)
  BY <1>1, <1>2 DEF RowKept, RowPaid, CaseRow
<1>3. CASE RowWaiting(p) \/ DecidedNow(p)
  BY <1>1, <1>3 DEF RowWaiting, DecidedNow, CaseRow
<1>4. CASE RowRecovered(p)
  BY <1>4 DEF RowRecovered
<1> QED BY <1>2, <1>3, <1>4, CaseChange

(* An action adds an intervention as it leaves execute; a confirmation       *)
(* cancels what is pending.                                                  *)
InterventionAdded(w, status) ==
    interventions' = [interventions EXCEPT ![Subject(w)] =
                         @ \cup {[action |-> cmd[w], status |-> status]}]

LEMMA InterventionChange ==
  ASSUME TypeInv, [Next]_vars
  PROVE  \/ UNCHANGED <<interventions, paymentLinks>>
         \/ \E w \in Workers :
               \/ /\ ConfirmPayment(w)
                  /\ UNCHANGED paymentLinks
                  /\ interventions' = [interventions EXCEPT ![Subject(w)] = CancelPending(@)]
               \/ /\ pc[w] \in Acting /\ pc'[w] \notin Acting
                  /\ \/ /\ RecheckPaid(w) /\ UNCHANGED paymentLinks
                        /\ InterventionAdded(w, "CANCELLED_ALREADY_PAID")
                     \/ /\ ActionFails(w) /\ UNCHANGED paymentLinks
                        /\ InterventionAdded(w, "FAILED")
                     \/ /\ CommitAction(w) /\ InterventionAdded(w, result[w])
<1>1. pc \in [Workers -> Steps]
  BY DEF TypeInv, TypeOK
<1>2. ASSUME NEW w \in Workers, Decide(w) \/ RecheckUnavailable(w) \/ Act(w)
      PROVE  UNCHANGED <<interventions, paymentLinks>>
  BY <1>2 DEF Decide, RecheckUnavailable, Act, database
<1>3. ASSUME NEW w \in Workers, ConfirmPayment(w)
      PROVE  /\ UNCHANGED paymentLinks
             /\ interventions' = [interventions EXCEPT ![Subject(w)] = CancelPending(@)]
  BY <1>3 DEF ConfirmPayment
<1>4. ASSUME NEW w \in Workers, RecheckPaid(w)
      PROVE  /\ pc[w] \in Acting /\ pc'[w] \notin Acting
             /\ UNCHANGED paymentLinks
             /\ InterventionAdded(w, "CANCELLED_ALREADY_PAID")
  BY <1>1, <1>4 DEF RecheckPaid, InterventionAdded, Goto, Acting
<1>5. ASSUME NEW w \in Workers, CommitAction(w)
      PROVE  /\ pc[w] \in Acting /\ pc'[w] \notin Acting
             /\ InterventionAdded(w, result[w])
  BY <1>1, <1>5 DEF CommitAction, InterventionAdded, Goto, Acting
<1>6. ASSUME NEW w \in Workers, ActionFails(w)
      PROVE  /\ pc[w] \in Acting /\ pc'[w] \notin Acting
             /\ UNCHANGED paymentLinks
             /\ UNCHANGED interventions \/ InterventionAdded(w, "FAILED")
  BY <1>1, <1>6 DEF ActionFails, InterventionAdded, Retry, EndSession, Acting
<1> QED BY <1>2, <1>3, <1>4, <1>5, <1>6, LedgerStep

(* What cancelling does to a set of interventions.                           *)
LEMMA CancelPendingKeeps ==
  ASSUME NEW is \in SUBSET Intervention
  PROVE  /\ CancelPending({}) = {}
         /\ \A i \in is : i.status = "EXECUTED" => i \in CancelPending(is)
         /\ \A i \in CancelPending(is) :
               \/ i \in is /\ i.status \notin {"PENDING", "SCHEDULED", "EXECUTING"}
               \/ /\ i.status = "CANCELLED_ALREADY_PAID"
                  /\ \E j \in is : /\ j.status \in {"PENDING", "SCHEDULED", "EXECUTING"}
                                   /\ j.action = i.action
<1> DEFINE cancelled(i) ==
               [i EXCEPT !.status = IF @ \in {"PENDING", "SCHEDULED", "EXECUTING"}
                                    THEN "CANCELLED_ALREADY_PAID" ELSE @]
<1>1. ASSUME NEW i \in is
      PROVE  /\ i.status \in {"PENDING", "SCHEDULED", "EXECUTING"} =>
                   /\ cancelled(i).status = "CANCELLED_ALREADY_PAID"
                   /\ cancelled(i).action = i.action
             /\ i.status \notin {"PENDING", "SCHEDULED", "EXECUTING"} => cancelled(i) = i
  BY DEF Intervention
<1>2. CancelPending(is) = {cancelled(i) : i \in is} /\ CancelPending({}) = {}
  BY DEF CancelPending
<1> HIDE DEF cancelled
<1> QED BY <1>1, <1>2

(* What was executed stays executed.                                         *)
LEMMA ExecutedStays ==
  ASSUME TypeInv, [Next]_vars, NEW p \in Payments, Executed(p)
  PROVE  \E i \in interventions'[p] : i.status = "EXECUTED"
<1>1. PICK i \in interventions[p] : i.status = "EXECUTED"
  BY DEF Executed
<1>2. interventions \in [Payments -> SUBSET Intervention]
  BY DEF TypeInv, TypeOK
<1>3. i \in CancelPending(interventions[p])
  BY <1>1, <1>2, CancelPendingKeeps
<1>4. ASSUME NEW w \in Workers,
             interventions' = [interventions EXCEPT ![Subject(w)] = CancelPending(@)]
      PROVE  i \in interventions'[p]
  BY <1>1, <1>2, <1>3, <1>4
<1>5. ASSUME NEW w \in Workers, NEW status, InterventionAdded(w, status)
      PROVE  i \in interventions'[p]
  BY <1>1, <1>2, <1>5 DEF InterventionAdded
<1> QED BY <1>1, <1>4, <1>5, InterventionChange

LEMMA EvidencedInit == Init => RecoveryIsEvidenced
  BY DEF Init, RecoveryIsEvidenced, NoRow

LEMMA EvidencedStep ==
  /\ TypeInv /\ ActionInv /\ AbsentRows /\ EvidenceInv /\ RecoveryIsEvidenced
  /\ [Next]_vars
  => RecoveryIsEvidenced'
<1> SUFFICES ASSUME TypeInv, ActionInv, AbsentRows, EvidenceInv, RecoveryIsEvidenced,
                    [Next]_vars
             PROVE  RecoveryIsEvidenced'
  OBVIOUS
<1>1. ASSUME NEW w \in Workers, ConfirmPayment(w)
      PROVE  /\ Subject(w) \in Payments
             /\ PaymentOf(Event(w)) \in PaymentId
             /\ PaymentOf(Event(w)).of = Subject(w)
             /\ payments[PaymentOf(Event(w))] = "captured"
  <2>1. pc[w] = "confirm" /\ pc[w] # "idle"
    BY <1>1 DEF ConfirmPayment
  <2>2. PaymentOf(Event(w)).of = Subject(w)
    BY DEF PaymentOf, Event, Subject
  <2>3. task[w] # None
    BY <2>1 DEF TypeInv, TypeOK
  <2> QED BY <2>1, <2>2, <2>3, MessageType DEF TypeInv, EvidenceInv
<1>2. ASSUME NEW p \in Payments, cases'[p].state = "RECOVERED"
      PROVE  \E o \in outcomes' : o.case = p
  <2>1. outcomes \subseteq outcomes'
    BY OutcomeChange
  <2>2. CASE cases[p].state = "RECOVERED"
    BY <2>1, <2>2 DEF RecoveryIsEvidenced
  <2>3. ASSUME NEW w \in Workers, ConfirmPayment(w), Subject(w) = p
        PROVE  \E o \in outcomes' : o.case = p
    <3>1. CASE Recorded(PaymentOf(Event(w)))
      BY <1>1, <2>1, <2>3, <3>1 DEF Recorded, RecoveryIsEvidenced
    <3>2. CASE ~Recorded(PaymentOf(Event(w)))
      <4> DEFINE new == [case |-> p, payment |-> PaymentOf(Event(w)),
                         attributed |-> Executed(p)]
      <4>1. new \in outcomes'
        BY <2>3, <3>2 DEF ConfirmPayment
      <4>2. new.case = p
        OBVIOUS
      <4> QED BY <4>1, <4>2
    <3> QED BY <3>1, <3>2
  <2> QED BY <1>2, <2>2, <2>3, RecoveredBy
<1>3. ASSUME NEW o \in outcomes
      PROVE  /\ o.payment.of = o.case
             /\ payments'[o.payment] = "captured"
             /\ cases'[o.case].already_paid
             /\ o.attributed => Executed(o.case)'
  <2>1. o.case \in Payments /\ o.payment \in PaymentId
    BY DEF TypeInv, TypeOK, Outcome
  <2> QED BY <2>1, CapturedStays, PaidStep, ExecutedStays DEF RecoveryIsEvidenced, Executed
<1>4. ASSUME NEW w \in Workers, ConfirmPayment(w)
      PROVE  cases'[Subject(w)].already_paid
  <2>1. cases' = [cases EXCEPT ![Subject(w)] = [state |-> "RECOVERED", already_paid |-> TRUE]]
    BY <1>4 DEF ConfirmPayment
  <2> QED BY <1>1, <1>4, <2>1 DEF TypeInv, TypeOK
<1>5. ASSUME NEW o \in outcomes'
      PROVE  /\ o.payment.of = o.case
             /\ payments'[o.payment] = "captured"
             /\ cases'[o.case].already_paid
             /\ o.attributed => Executed(o.case)'
  <2>1. ASSUME NEW w \in Workers, ConfirmPayment(w),
               o = [case |-> Subject(w), payment |-> PaymentOf(Event(w)),
                    attributed |-> Executed(Subject(w))]
        PROVE  /\ o.payment.of = o.case
               /\ payments'[o.payment] = "captured"
               /\ cases'[o.case].already_paid
               /\ o.attributed => Executed(o.case)'
    <3>1. /\ o.payment = PaymentOf(Event(w)) /\ o.case = Subject(w)
          /\ o.attributed = Executed(Subject(w))
      BY <2>1
    <3>2. payments'[PaymentOf(Event(w))] = "captured"
      BY <1>1, <2>1, CapturedStays
    <3>3. Executed(Subject(w)) => \E i \in interventions'[Subject(w)] : i.status = "EXECUTED"
      BY <1>1, <2>1, ExecutedStays
    <3> QED BY <1>1, <1>4, <2>1, <3>1, <3>2, <3>3 DEF Executed
  <2> QED BY <1>3, <2>1, OutcomeChange
<1> QED BY <1>2, <1>5 DEF RecoveryIsEvidenced

(* Whatever is confirmed twice, late or during an execution: RECOVERED has   *)
(* an outcome, an outcome has a captured payment of its own case and the     *)
(* paid flag, and an attributed one has an executed action.                  *)
THEOREM RecoveryEvidenced == Spec => []RecoveryIsEvidenced
<1>1. Spec => [](TypeInv /\ ActionInv /\ AbsentRows /\ EvidenceInv)
  BY CaseInvariant, EvidenceInit, EvidenceStep, PTL DEF Spec
<1> QED BY <1>1, EvidencedInit, EvidencedStep, PTL DEF Spec

-----------------------------------------------------------------------------
(* The interventions tell the truth about the outside world.                 *)

(* An executor starts with an empty record of its case, and what it is about *)
(* to commit is what it did; no intervention stays half done.                *)
ExecutionInv ==
    /\ \A p \in Payments :
          /\ ~Exists(p) => interventions[p] = {}
          /\ \A i \in interventions[p] : i.status \notin {"PENDING", "EXECUTING"}
    /\ \A w \in Workers :
          /\ pc[w] \in Acting =>
                interventions[Subject(w)] = {} /\ Subject(w) \notin paymentLinks
          /\ pc[w] = "commit_action" =>
                /\ links[Subject(w)] = IF cmd[w] = "CREATE_PAYMENT_LINK" THEN 1 ELSE 0
                /\ emails[Subject(w)] = IF cmd[w] = "SEND_RECOVERY_MESSAGE" THEN 1 ELSE 0
                /\ result[w] = StatusOf(w)
    /\ LedgerIsBacked

(* A task that is about to mark a failed payment's webhook has its case.     *)
MarkedInv ==
    \A w \in Workers :
        /\ pc[w] = "mark_processed"
        /\ Event(w).name = "payment.failed" /\ Amount[Subject(w)] # 0
        => Exists(Subject(w))

LEMMA ExecutionInit == Init => ExecutionInv
  BY DEF Init, ExecutionInv, LedgerIsBacked, Acting

(* How the interventions of one payment change, given the invariant.         *)
LEMMA RecordChange ==
  ASSUME TypeInv, ActionInv, ExecutionInv, [Next]_vars, NEW p \in Payments
  PROVE  \/ /\ interventions'[p] = interventions[p]
            /\ p \in paymentLinks' <=> p \in paymentLinks
         \/ /\ interventions'[p] = CancelPending(interventions[p])
            /\ p \in paymentLinks' <=> p \in paymentLinks
            /\ links'[p] = links[p] /\ emails'[p] = emails[p]
         \/ \E w \in Workers :
               /\ Subject(w) = p /\ pc[w] \in Acting /\ pc'[w] \notin Acting
               /\ \/ /\ RecheckPaid(w) /\ p \notin paymentLinks'
                     /\ interventions'[p] =
                           {[action |-> cmd[w], status |-> "CANCELLED_ALREADY_PAID"]}
                  \/ /\ ActionFails(w) /\ p \notin paymentLinks'
                     /\ interventions'[p] = {[action |-> cmd[w], status |-> "FAILED"]}
                  \/ /\ CommitAction(w)
                     /\ interventions'[p] = {[action |-> cmd[w], status |-> result[w]]}
<1>1. interventions \in [Payments -> SUBSET Intervention]
  BY DEF TypeInv, TypeOK
<1>2. ASSUME NEW w \in Workers, pc[w] \in Acting
      PROVE  /\ Subject(w) \in Payments
             /\ interventions[Subject(w)] = {} /\ Subject(w) \notin paymentLinks
  BY <1>2, ActingAlone DEF ExecutionInv
<1>3. CASE UNCHANGED <<interventions, paymentLinks>>
  BY <1>3
<1>4. ASSUME NEW w \in Workers, ConfirmPayment(w), UNCHANGED paymentLinks,
             interventions' = [interventions EXCEPT ![Subject(w)] = CancelPending(@)]
      PROVE  /\ p \in paymentLinks' <=> p \in paymentLinks
             /\ \/ interventions'[p] = interventions[p]
                \/ /\ interventions'[p] = CancelPending(interventions[p])
                   /\ links'[p] = links[p] /\ emails'[p] = emails[p]
  BY <1>1, <1>4 DEF ConfirmPayment, provider
<1>5. ASSUME NEW w \in Workers, NEW status, pc[w] \in Acting, InterventionAdded(w, status)
      PROVE  IF Subject(w) = p
             THEN interventions'[p] = {[action |-> cmd[w], status |-> status]}
             ELSE interventions'[p] = interventions[p]
  BY <1>1, <1>2, <1>5 DEF InterventionAdded
<1>6. ASSUME NEW w \in Workers, CommitAction(w), Subject(w) # p
      PROVE  p \in paymentLinks' <=> p \in paymentLinks
  BY <1>6 DEF CommitAction
<1> QED BY <1>2, <1>3, <1>4, <1>5, <1>6, InterventionChange

(* A payment something happens for has no record of an execution yet.        *)
LEMMA EffectBeforeRecord ==
  ASSUME TypeInv, ExecutionInv, [Next]_vars, NEW p \in Payments
  PROVE  \/ links'[p] = links[p] /\ emails'[p] = emails[p]
         \/ interventions[p] = {} /\ p \notin paymentLinks
  BY EffectsOfCommands DEF ExecutionInv, Acting

LEMMA BackedStep ==
  TypeInv /\ TypeInv' /\ ActionInv /\ ExecutionInv /\ [Next]_vars => LedgerIsBacked'
<1> SUFFICES ASSUME TypeInv, TypeInv', ActionInv, ExecutionInv, [Next]_vars, NEW p \in Payments
             PROVE  /\ \A i \in interventions'[p] :
                          /\ i.status = "EXECUTED" =>
                                CASE i.action = "CREATE_PAYMENT_LINK"   -> links'[p] = 1
                                  [] i.action = "SEND_RECOVERY_MESSAGE" -> emails'[p] = 1
                                  [] OTHER                              -> FALSE
                          /\ i.status \in {"CANCELLED_ALREADY_PAID", "SCHEDULED", "NO_OP"} =>
                                links'[p] + emails'[p] = 0
                    /\ p \in paymentLinks' <=>
                          [action |-> "CREATE_PAYMENT_LINK", status |-> "EXECUTED"]
                             \in interventions'[p]
  BY DEF LedgerIsBacked
<1>1. LedgerIsBacked /\ interventions[p] \in SUBSET Intervention
  BY DEF ExecutionInv, TypeInv, TypeOK
<1>2. CASE /\ interventions'[p] = interventions[p]
           /\ p \in paymentLinks' <=> p \in paymentLinks
  BY <1>1, <1>2, EffectBeforeRecord DEF LedgerIsBacked
<1>3. CASE /\ interventions'[p] = CancelPending(interventions[p])
           /\ p \in paymentLinks' <=> p \in paymentLinks
           /\ links'[p] = links[p] /\ emails'[p] = emails[p]
  <2>1. ASSUME NEW i \in interventions'[p]
        PROVE  \/ i \in interventions[p]
               \/ i.status = "CANCELLED_ALREADY_PAID" /\ links[p] + emails[p] = 0
    BY <1>1, <1>3, CancelPendingKeeps DEF ExecutionInv, LedgerIsBacked
  <2>2. [action |-> "CREATE_PAYMENT_LINK", status |-> "EXECUTED"] \in interventions'[p]
           <=> [action |-> "CREATE_PAYMENT_LINK", status |-> "EXECUTED"] \in interventions[p]
    BY <1>1, <1>3, CancelPendingKeeps
  <2> QED BY <1>1, <1>3, <2>1, <2>2 DEF LedgerIsBacked
<1>4. ASSUME NEW w \in Workers, Subject(w) = p, RecheckPaid(w), p \notin paymentLinks',
             interventions'[p] = {[action |-> cmd[w], status |-> "CANCELLED_ALREADY_PAID"]}
      PROVE  /\ links'[p] + emails'[p] = 0
             /\ \A i \in interventions'[p] : i.status = "CANCELLED_ALREADY_PAID"
  <2>1. links[p] = 0 /\ emails[p] = 0
    BY <1>4 DEF RecheckPaid, ActionInv, NothingSentYet
  <2> QED BY <1>4, <2>1 DEF RecheckPaid, provider
<1>5. ASSUME NEW w \in Workers, Subject(w) = p, CommitAction(w),
             interventions'[p] = {[action |-> cmd[w], status |-> result[w]]}
      PROVE  /\ \A i \in interventions'[p] : i.action = cmd[w] /\ i.status = result[w]
             /\ links'[p] = IF cmd[w] = "CREATE_PAYMENT_LINK" THEN 1 ELSE 0
             /\ emails'[p] = IF cmd[w] = "SEND_RECOVERY_MESSAGE" THEN 1 ELSE 0
             /\ result[w] = IF cmd[w] \in {"CREATE_PAYMENT_LINK", "SEND_RECOVERY_MESSAGE"}
                            THEN "EXECUTED"
                            ELSE IF cmd[w] \in {"WAIT", "SCHEDULE_FOLLOWUP"}
                            THEN "SCHEDULED" ELSE "NO_OP"
             /\ p \in paymentLinks' <=> cmd[w] = "CREATE_PAYMENT_LINK"
  <2>1. pc[w] = "commit_action" /\ links' = links /\ emails' = emails
    BY <1>5 DEF CommitAction, provider
  <2>2. p \notin paymentLinks /\ result[w] = StatusOf(w)
    BY <1>5, <2>1 DEF ExecutionInv, Acting
  <2>3. result[w] = IF cmd[w] \in {"CREATE_PAYMENT_LINK", "SEND_RECOVERY_MESSAGE"}
                    THEN "EXECUTED"
                    ELSE IF cmd[w] \in {"WAIT", "SCHEDULE_FOLLOWUP"}
                    THEN "SCHEDULED" ELSE "NO_OP"
    BY <1>5, <2>2 DEF StatusOf
  <2>4. p \in paymentLinks' <=> cmd[w] = "CREATE_PAYMENT_LINK"
    BY <1>5, <2>2, <2>3 DEF CommitAction
  <2>5. /\ links[p] = IF cmd[w] = "CREATE_PAYMENT_LINK" THEN 1 ELSE 0
        /\ emails[p] = IF cmd[w] = "SEND_RECOVERY_MESSAGE" THEN 1 ELSE 0
    BY <1>5, <2>1 DEF ExecutionInv
  <2> QED BY <1>5, <2>1, <2>3, <2>4, <2>5
<1>6. ASSUME NEW w \in Workers, p \notin paymentLinks',
             interventions'[p] = {[action |-> cmd[w], status |-> "FAILED"]}
      PROVE  \A i \in interventions'[p] : i.status = "FAILED"
  BY <1>6
<1> QED BY <1>2, <1>3, <1>4, <1>5, <1>6, RecordChange

LEMMA ExecutionStep ==
  TypeInv /\ TypeInv' /\ ActionInv /\ ExecutionInv /\ [Next]_vars => ExecutionInv'
<1> SUFFICES ASSUME TypeInv, TypeInv', ActionInv, ExecutionInv, [Next]_vars
             PROVE  ExecutionInv'
  OBVIOUS
<1>1. ASSUME NEW p \in Payments, cases'[p].state = "NONE"
      PROVE  interventions'[p] = {}
  <2>1. ~Exists(p)
    BY <1>1, DecisionKept
  <2>2. interventions[p] = {}
    BY <2>1 DEF ExecutionInv
  <2>3. \A w \in Workers : pc[w] \in Acting => Subject(w) # p
    BY <2>1, ActingAlone
  <2>4. CancelPending({}) = {}
    BY CancelPendingKeeps
  <2> QED BY <2>2, <2>3, <2>4, RecordChange
<1>2. ASSUME NEW p \in Payments, NEW i \in interventions'[p]
      PROVE  i.status \notin {"PENDING", "EXECUTING"}
  <2>1. interventions[p] \in SUBSET Intervention
    BY DEF TypeInv, TypeOK
  <2>2. ASSUME NEW w \in Workers, Subject(w) = p, CommitAction(w)
        PROVE  result[w] \notin {"PENDING", "EXECUTING"}
    BY <2>2 DEF CommitAction, ExecutionInv, StatusOf
  <2> QED BY <2>1, <2>2, CancelPendingKeeps, RecordChange DEF ExecutionInv
<1>3. ASSUME NEW w \in Workers, pc'[w] \in Acting
      PROVE  /\ interventions'[task'[w].event.of] = {}
             /\ task'[w].event.of \notin paymentLinks'
  <2>1. CASE pc[w] \in Acting /\ task'[w] = task[w]
    <3>1. /\ Subject(w) \in Payments
          /\ \A v \in Workers : pc[v] \in Acting /\ Subject(v) = Subject(w) => v = w
      BY <2>1, ActingAlone
    <3>2. interventions[Subject(w)] = {} /\ Subject(w) \notin paymentLinks
      BY <2>1 DEF ExecutionInv
    <3>3. CancelPending({}) = {}
      BY CancelPendingKeeps
    <3>4. interventions'[Subject(w)] = {} /\ Subject(w) \notin paymentLinks'
      BY <1>3, <3>1, <3>2, <3>3, RecordChange
    <3> QED BY <2>1, <3>4 DEF Subject
  <2>2. CASE Decide(w)
    <3>1. Subject(w) \in Payments /\ ~Exists(Subject(w))
      BY <2>2, MessageType DEF Decide, TypeInv, ActionInv, RowsOfWorkers
    <3>2. interventions[Subject(w)] = {} /\ Subject(w) \notin paymentLinks
      BY <3>1 DEF ExecutionInv, ActionInv, RowsOfWorkers
    <3> QED BY <2>2, <3>2 DEF Decide, Subject
  <2> QED BY <1>3, <2>1, <2>2, ActingStep
<1>4. ASSUME NEW w \in Workers, pc'[w] = "commit_action"
      PROVE  LET p == task'[w].event.of
             IN  /\ links'[p] = IF cmd'[w] = "CREATE_PAYMENT_LINK" THEN 1 ELSE 0
                 /\ emails'[p] = IF cmd'[w] = "SEND_RECOVERY_MESSAGE" THEN 1 ELSE 0
                 /\ result'[w] = IF cmd'[w] = "CREATE_PAYMENT_LINK"
                                 THEN IF p \in paymentLinks' THEN "SKIPPED_DUPLICATE"
                                      ELSE "EXECUTED"
                                 ELSE CASE cmd'[w] = "SEND_RECOVERY_MESSAGE" -> "EXECUTED"
                                        [] cmd'[w] \in {"WAIT", "SCHEDULE_FOLLOWUP"}
                                             -> "SCHEDULED"
                                        [] OTHER -> "NO_OP"
  <2> DEFINE p == Subject(w)
  <2>1. p \notin paymentLinks' /\ task'[w] = task[w]
    <3>1. ~Decide(w)
      BY <1>4 DEF Decide, DecideAs, Goto, TypeInv, TypeOK
    <3>2. task'[w] = task[w]
      BY <1>4, <3>1, ActingStep DEF Acting
    <3> QED BY <1>3, <1>4, <3>2 DEF Acting, Subject
  <2>2. CASE Act(w)
    <3>1. /\ p \in Payments /\ links[p] = 0 /\ emails[p] = 0 /\ p \notin paymentLinks
      BY <2>2, MessageType DEF Act, TypeInv, ActionInv, NothingSentYet, ExecutionInv, Acting
    <3>2. /\ links'[p] = IF cmd[w] = "CREATE_PAYMENT_LINK" THEN 1 ELSE 0
          /\ emails'[p] = IF cmd[w] = "SEND_RECOVERY_MESSAGE" THEN 1 ELSE 0
      BY <2>2, <3>1 DEF Act, Effect, TypeInv, TypeOK
    <3>3. result'[w] = StatusOf(w) /\ cmd' = cmd
      BY <2>2 DEF Act, TypeInv, TypeOK
    <3> QED BY <2>1, <3>1, <3>2, <3>3 DEF StatusOf, Subject
  <2>3. CASE pc[w] = "commit_action" /\ result'[w] = result[w]
    <3>1. cmd'[w] = cmd[w]
      BY <1>4, <2>3, ActingStep DEF Acting, Decide
    <3>2. /\ p \in Payments /\ p \notin paymentLinks
          /\ \A v \in Workers : pc[v] = "act" => Subject(v) # p
      BY <2>3, ActingAlone DEF Acting, ExecutionInv
    <3>3. links'[p] = links[p] /\ emails'[p] = emails[p]
      BY <3>2, EffectsOfCommands
    <3>4. /\ links[p] = IF cmd[w] = "CREATE_PAYMENT_LINK" THEN 1 ELSE 0
          /\ emails[p] = IF cmd[w] = "SEND_RECOVERY_MESSAGE" THEN 1 ELSE 0
          /\ result[w] = StatusOf(w)
      BY <2>3 DEF ExecutionInv
    <3> QED BY <2>1, <2>3, <3>1, <3>2, <3>3, <3>4 DEF StatusOf, Subject
  <2>4. ~Moves(w) \/ Act(w)
    BY <1>4 DEF Moves, LoadEvent, Dispatch, LookupCase, InsertCase, Decide, DecideAs,
                RecheckClear, RecheckPaid, CommitAction, FindCase, ConfirmPayment, Goto,
                TypeInv, TypeOK
  <2> QED BY <1>4, <2>1, <2>2, <2>3, <2>4, WorkerChange, NoneIsNoMessage DEF TypeInv, TypeOK
<1>5. LedgerIsBacked'
  BY BackedStep
<1> QED BY <1>1, <1>2, <1>3, <1>4, <1>5 DEF ExecutionInv, Exists, Subject, StatusOf

LEMMA ExecutionInvariant == Spec => []ExecutionInv
  BY CaseInvariant, ExecutionInit, ExecutionStep, PTL DEF Spec

(* Executed interventions had their effect, cancelled, scheduled and no-op   *)
(* ones had none, and the link table lists exactly the executed links.       *)
THEOREM LedgerBacked == Spec => []LedgerIsBacked
<1>1. ExecutionInv => LedgerIsBacked
  BY DEF ExecutionInv
<1> QED BY <1>1, ExecutionInvariant, PTL

-----------------------------------------------------------------------------
(* What the policy did not allow is left to people.                          *)

LEMMA ReviewInit == Init => ReviewHolds
  BY DEF Init, ReviewHolds, Exists, NoRow

LEMMA ReviewStep ==
  /\ TypeInv /\ ActionInv /\ DecisionInv /\ ExecutionInv /\ ReviewHolds
  /\ [Next]_vars
  => ReviewHolds'
<1> SUFFICES ASSUME TypeInv, ActionInv, DecisionInv, ExecutionInv, ReviewHolds,
                    [Next]_vars,
                    NEW p \in Payments,
                    cases'[p].state # "NONE",
                    \/ ~decisions'[p].allowed
                    \/ Amount[p] > DefaultPolicy.max_auto_action_amount_minor
             PROVE  /\ cases'[p].state \in {"NEEDS_REVIEW", "RECOVERED"}
                    /\ interventions'[p] = {} /\ links'[p] = 0 /\ emails'[p] = 0
  BY DEF ReviewHolds, Exists
<1> USE ConstantsAssumption DEF DefaultPolicy
<1>1. CASE Exists(p)
  <2>1. decisions'[p] = decisions[p]
    BY <1>1, DecisionKept
  <2>2. /\ cases[p].state \in {"NEEDS_REVIEW", "RECOVERED"}
        /\ interventions[p] = {} /\ links[p] = 0 /\ emails[p] = 0
    BY <1>1, <2>1 DEF ReviewHolds
  <2>3. \A w \in Workers : pc[w] \in Acting => Subject(w) # p
    <3> SUFFICES ASSUME NEW w \in Workers, pc[w] \in Acting, Subject(w) = p
                 PROVE  FALSE
      OBVIOUS
    <3>1. /\ decisions[p] = [action |-> cmd[w], allowed |-> TRUE]
          /\ Amount[p] <= DefaultPolicy.max_auto_action_amount_minor
      BY DEF DecisionInv, CommandIsDecided
    <3> QED BY <2>1, <3>1
  <2>4. interventions'[p] = {}
    BY <2>2, <2>3, CancelPendingKeeps, RecordChange
  <2>5. links'[p] = 0 /\ emails'[p] = 0
    BY <2>2, <2>3, EffectsOfCommands DEF Acting
  <2>6. cases'[p].state \in {"NEEDS_REVIEW", "RECOVERED"}
    <3>1. cases[p] \in CaseRow
      BY DEF TypeInv, TypeOK
    <3>2. ~RowWaiting(p) /\ ~DecidedNow(p)
      BY <1>1, <2>3 DEF RowWaiting, CommitAction, DecidedNow, Decide, Acting, ActionInv,
                        RowsOfWorkers
    <3>3. RowKept(p) \/ RowPaid(p) \/ RowRecovered(p)
      BY <3>2, CaseChange
    <3> QED BY <2>2, <3>1, <3>3 DEF RowKept, RowPaid, RowRecovered, CaseRow
  <2> QED BY <2>4, <2>5, <2>6
<1>2. CASE ~Exists(p)
  <2>1. DecidedNow(p)
    <3>1. cases[p] \in CaseRow
      BY DEF TypeInv, TypeOK
    <3>2. ~RowPaid(p) /\ ~RowWaiting(p) /\ ~RowRecovered(p)
      BY <1>2 DEF RowPaid, RecheckPaid, RowWaiting, CommitAction, RowRecovered,
                  ConfirmPayment, Acting, ActionInv, RowsOfWorkers
    <3>3. ~RowKept(p)
      BY <1>2 DEF RowKept, Exists
    <3> QED BY <3>2, <3>3, CaseChange
  <2>2. PICK w \in Workers : Decide(w) /\ Subject(w) = p
    BY <2>1 DEF DecidedNow
  <2>3. PICK rec \in Recommendations(p) : DecideAs(w, p, rec, Authorizes(p, rec))
    BY <2>2 DEF Decide
  <2>4. decisions'[p].allowed = Authorizes(p, rec)
    BY <2>3 DEF DecideAs, FinalState, TypeInv, TypeOK
  <2>5. ~Authorizes(p, rec)
    <3>1. Authorizes(p, rec) => Amount[p] <= DefaultPolicy.max_auto_action_amount_minor
      BY AuthorizesImplies
    <3> QED BY <2>4, <3>1
  <2>6. cases'[p].state = "NEEDS_REVIEW"
    BY <2>3, <2>5 DEF DecideAs, FinalState, TypeInv, TypeOK
  <2>7. interventions[p] = {} /\ links[p] = 0 /\ emails[p] = 0
    BY <1>2 DEF ExecutionInv, ActionInv, NothingSentYet
  <2>8. UNCHANGED <<interventions, links, emails>>
    BY <2>2 DEF Decide, provider
  <2> QED BY <2>6, <2>7, <2>8
<1> QED BY <1>1, <1>2

(* A case the policy blocked, or above the amount limit, is moved by a       *)
(* payment only: nothing is executed, recorded or sent for it.               *)
THEOREM BlockedCasesWait == Spec => []ReviewHolds
  BY CaseInvariant, ExecutionInvariant, ReviewInit, ReviewStep, PTL DEF Spec
-----------------------------------------------------------------------------
(* No failed payment is lost between its webhook and its case.               *)

LEMMA MarkedInit == Init => MarkedInv
  BY DEF Init, MarkedInv

LEMMA MarkedStep ==
  TypeInv /\ ActionInv /\ EvidenceInv /\ MarkedInv /\ [Next]_vars => MarkedInv'
<1> SUFFICES ASSUME TypeInv, ActionInv, EvidenceInv, MarkedInv, [Next]_vars,
                    NEW w \in Workers, pc'[w] = "mark_processed",
                    task'[w].event.name = "payment.failed", Amount[task'[w].event.of] # 0
             PROVE  cases'[task'[w].event.of].state # "NONE"
  BY DEF MarkedInv, Exists, Event, Subject
<1>1. pc[w] # "idle" /\ task'[w] = task[w]
  BY WorkerChange DEF Moves, LoadEvent, LookupCase, InsertCase, Decide, RecheckClear,
     RecheckPaid, Act, CommitAction, FindCase, ConfirmPayment
<1>2. Subject(w) \in Payments /\ Event(w).name = "payment.failed" /\ Amount[Subject(w)] # 0
  BY <1>1, MessageType DEF TypeInv, Event, Subject
<1>3. CASE Exists(Subject(w))
  BY <1>1, <1>2, <1>3, DecisionKept DEF Subject
<1>4. CASE Decide(w)
  BY <1>1, <1>2, <1>4 DEF Decide, DecideAs, FinalState, Subject, TypeInv, TypeOK
<1>5. CASE Moves(w) /\ ~Decide(w)
  <2>1. \/ LookupCase(w) \/ RecheckPaid(w) \/ CommitAction(w) \/ ConfirmPayment(w)
        \/ LoadEvent(w) \/ FindCase(w)
    BY <1>5 DEF Moves, InsertCase, RecheckClear, Act, Goto, TypeInv, TypeOK
  <2>2. ~LoadEvent(w)
    BY <1>2 DEF LoadEvent, Dispatch, Goto, Event, Subject, TypeInv, TypeOK
  <2>3. ~FindCase(w)
    BY <1>2 DEF FindCase, EvidenceInv
  <2>4. LookupCase(w) => Exists(Subject(w))
    BY DEF LookupCase, Goto, TypeInv, TypeOK
  <2>5. RecheckPaid(w) \/ CommitAction(w) \/ ConfirmPayment(w) => Exists(Subject(w))
    BY DEF RecheckPaid, CommitAction, ConfirmPayment, ActionInv, RowsOfWorkers, Acting
  <2> QED BY <1>3, <2>1, <2>2, <2>3, <2>4, <2>5
<1>6. CASE pc[w] = "mark_processed"
  BY <1>2, <1>3, <1>6 DEF MarkedInv
<1> QED BY <1>1, <1>4, <1>5, <1>6, WorkerChange

LEMMA ProcessedInit == Init => ProcessedFailureHasCase
  BY DEF Init, ProcessedFailureHasCase

LEMMA ProcessedStep ==
  TypeInv /\ ActionInv /\ MarkedInv /\ ProcessedFailureHasCase /\ [Next]_vars
    => ProcessedFailureHasCase'
<1> SUFFICES ASSUME TypeInv, ActionInv, MarkedInv, ProcessedFailureHasCase, [Next]_vars,
                    NEW e \in Events, e.name = "payment.failed", Amount[e.of] # 0,
                    webhookEvents'[e] = "PROCESSED"
             PROVE  cases'[e.of].state # "NONE"
  BY DEF ProcessedFailureHasCase, Exists
<1>1. e.of \in Payments
  BY ConstantsAssumption DEF WebhookEvent
<1>2. Exists(e.of)
  <2>1. CASE webhookEvents[e] = "PROCESSED"
    BY <2>1 DEF ProcessedFailureHasCase
  <2>2. ASSUME NEW w \in Workers, MarkProcessed(w), Event(w) = e
        PROVE  Exists(e.of)
    BY <2>2 DEF MarkProcessed, MarkedInv, Event, Subject
  <2> QED BY <2>1, <2>2, WebhookChange
<1> QED BY <1>1, <1>2, DecisionKept

(* However tasks are retried, interrupted or refused by a unique key: a      *)
(* failed-payment webhook is only ever PROCESSED once its case exists.       *)
THEOREM NoFailureIsLost == Spec => []ProcessedFailureHasCase
<1>1. Spec => []EvidenceInv
  BY CaseInvariant, EvidenceInit, EvidenceStep, PTL DEF Spec
<1>2. Spec => []MarkedInv
  BY <1>1, CaseInvariant, MarkedInit, MarkedStep, PTL DEF Spec
<1> QED BY <1>2, CaseInvariant, ProcessedInit, ProcessedStep, PTL DEF Spec

-----------------------------------------------------------------------------
(* The audit ledger accounts for every case.                                 *)

(* The audit ledger knows of a case what its row says, knows nothing of a    *)
(* case that does not exist, and knows of an execution once it is committed. *)
AuditInv ==
    /\ \A p \in Payments :
          /\ ~Exists(p) => \A a \in audit : a.case # p
          /\ Exists(p) => \E a \in audit : a.case = p /\ a.after = cases[p].state
    /\ \A w \in Workers :
          pc[w] \in Acting =>
             /\ cases[Subject(w)].state \in {"AUTHORIZED", "RECOVERED"}
             /\ \A a \in audit : a.case = Subject(w) => a.after # "WAITING_FOR_OUTCOME"
             /\ \E a \in audit : a.case = Subject(w) /\ a.after = "AUTHORIZED"

(* Who writes what into it.                                                  *)
LEMMA AuditChange ==
  ASSUME [Next]_vars
  PROVE  /\ audit \subseteq audit'
         /\ \A a \in audit' \ audit : \E w \in Workers :
               /\ a.case = Subject(w)
               /\ \/ /\ Decide(w)
                     /\ \E allowed \in BOOLEAN : a \in DecisionAudit(Subject(w), allowed)
                  \/ /\ RecheckPaid(w) \/ RecheckUnavailable(w)
                     /\ a.before = sess[w].state /\ a.after = sess[w].state
                  \/ /\ CommitAction(w)
                     /\ a.before = "AUTHORIZED" /\ a.after = "WAITING_FOR_OUTCOME"
                  \/ ActionFails(w) /\ a.before = None /\ a.after = None
                  \/ /\ ConfirmPayment(w)
                     /\ a.type \in {"PAYMENT_CONFIRMED", "CASE_RECOVERED"}
                     /\ a.after = "RECOVERED"
<1>1. CASE UNCHANGED audit
  BY <1>1
<1>2. ASSUME NEW w \in Workers, Act(w)
      PROVE  UNCHANGED audit
  BY <1>2 DEF Act, database
<1>3. ASSUME NEW w \in Workers, Decide(w)
      PROVE  \E allowed \in BOOLEAN : audit' = audit \cup DecisionAudit(Subject(w), allowed)
  <2>1. PICK rec \in Recommendations(Subject(w)) :
               DecideAs(w, Subject(w), rec, Authorizes(Subject(w), rec))
    BY <1>3 DEF Decide
  <2>2. Authorizes(Subject(w), rec) \in BOOLEAN
    BY DEF Authorizes, Evaluate
  <2> QED BY <2>1, <2>2 DEF DecideAs
<1>4. ASSUME NEW p, NEW allowed, NEW a \in DecisionAudit(p, allowed)
      PROVE  a.case = p
  BY <1>4 DEF DecisionAudit, record
<1>5. ASSUME NEW w \in Workers, RecheckPaid(w) \/ RecheckUnavailable(w)
      PROVE  /\ audit \subseteq audit'
             /\ \A a \in audit' \ audit : /\ a.case = Subject(w)
                                          /\ a.before = sess[w].state
                                          /\ a.after = sess[w].state
  BY <1>5 DEF RecheckPaid, RecheckUnavailable, record
<1>6. ASSUME NEW w \in Workers, CommitAction(w)
      PROVE  /\ audit \subseteq audit'
             /\ \A a \in audit' \ audit : /\ a.case = Subject(w)
                                          /\ a.before = "AUTHORIZED"
                                          /\ a.after = "WAITING_FOR_OUTCOME"
  BY <1>6 DEF CommitAction, ExecutionAudit, EffectAudit, record
<1>7. ASSUME NEW w \in Workers, ActionFails(w)
      PROVE  /\ audit \subseteq audit'
             /\ \A a \in audit' \ audit : /\ a.case = Subject(w)
                                          /\ a.before = None /\ a.after = None
  BY <1>7 DEF ActionFails, record
<1>8. ASSUME NEW w \in Workers, ConfirmPayment(w)
      PROVE  /\ audit \subseteq audit'
             /\ \A a \in audit' \ audit :
                   /\ a.case = Subject(w) /\ a.after = "RECOVERED"
                   /\ a.type \in {"PAYMENT_CONFIRMED", "CASE_RECOVERED"}
  BY <1>8 DEF ConfirmPayment, record
<1> QED BY <1>1, <1>2, <1>3, <1>4, <1>5, <1>6, <1>7, <1>8, LedgerStep

LEMMA DecisionIsRecorded ==
  ASSUME NEW p, NEW allowed \in BOOLEAN
  PROVE  \E a \in DecisionAudit(p, allowed) :
            a.case = p /\ a.after = IF allowed THEN "AUTHORIZED" ELSE "NEEDS_REVIEW"
<1>1. allowed => record(p, "POLICY_ALLOWED", "ACTION_PROPOSED", "AUTHORIZED")
                    \in DecisionAudit(p, allowed)
  BY DEF DecisionAudit
<1>2. ~allowed => record(p, "POLICY_BLOCKED", "ACTION_PROPOSED", "NEEDS_REVIEW")
                     \in DecisionAudit(p, allowed)
  BY DEF DecisionAudit
<1> QED BY <1>1, <1>2 DEF record

(* Only an existing case gets a record, unless it is created now.            *)
LEMMA RecordsOfCases ==
  ASSUME TypeInv, ActionInv, NEW w \in Workers,
         \/ RecheckPaid(w) \/ RecheckUnavailable(w) \/ CommitAction(w) \/ ActionFails(w)
         \/ ConfirmPayment(w)
  PROVE  Exists(Subject(w))
  BY DEF RecheckPaid, RecheckUnavailable, CommitAction, ActionFails, ConfirmPayment,
         ActionInv, RowsOfWorkers, Acting

LEMMA AuditInit == Init => AuditInv
  BY DEF Init, AuditInv, Exists, NoRow, Acting

LEMMA AuditStep ==
  TypeInv /\ TypeInv' /\ ActionInv /\ AuditInv /\ [Next]_vars => AuditInv'
<1> SUFFICES ASSUME TypeInv, TypeInv', ActionInv, AuditInv, [Next]_vars PROVE AuditInv'
  OBVIOUS
<1> USE ConstantsAssumption
<1>1. ASSUME NEW p \in Payments, cases'[p].state = "NONE", NEW a \in audit'
      PROVE  a.case # p
  <2>1. ~Exists(p)
    BY <1>1, DecisionKept
  <2>2. ASSUME NEW w \in Workers, Decide(w)
        PROVE  cases'[Subject(w)].state # "NONE"
    BY <2>2, MessageType DEF Decide, DecideAs, FinalState, TypeInv, TypeOK
  <2> QED BY <1>1, <2>1, <2>2, AuditChange, RecordsOfCases DEF AuditInv
<1>2. ASSUME NEW p \in Payments, cases'[p].state # "NONE"
      PROVE  \E a \in audit' : a.case = p /\ a.after = cases'[p].state
  <2>1. cases[p] \in CaseRow
    BY DEF TypeInv, TypeOK
  <2>2. CASE RowKept(p) \/ RowPaid(p)
    <3>1. cases'[p].state = cases[p].state
      BY <2>1, <2>2 DEF RowKept, RowPaid, CaseRow
    <3> QED BY <1>2, <3>1, AuditChange DEF AuditInv, Exists
  <2>3. CASE RowWaiting(p)
    <3>1. record(p, "ACTION_EXECUTED", "AUTHORIZED", "WAITING_FOR_OUTCOME") \in audit'
      BY <2>3 DEF RowWaiting, CommitAction, ExecutionAudit
    <3>2. cases'[p].state = "WAITING_FOR_OUTCOME"
      BY <2>1, <2>3 DEF RowWaiting, CaseRow
    <3> QED BY <3>1, <3>2 DEF record
  <2>4. CASE RowRecovered(p)
    <3>1. record(p, "CASE_RECOVERED", "WAITING_FOR_OUTCOME", "RECOVERED") \in audit'
      BY <2>4 DEF RowRecovered, ConfirmPayment
    <3> QED BY <2>4, <3>1 DEF RowRecovered, record
  <2>5. CASE DecidedNow(p)
    <3>1. PICK w \in Workers : Decide(w) /\ Subject(w) = p
      BY <2>5 DEF DecidedNow
    <3>2. PICK rec \in Recommendations(p) : DecideAs(w, p, rec, Authorizes(p, rec))
      BY <3>1 DEF Decide
    <3>3. cases'[p].state = IF Authorizes(p, rec) THEN "AUTHORIZED" ELSE "NEEDS_REVIEW"
      BY <3>2 DEF DecideAs, FinalState, TypeInv, TypeOK
    <3>4. Authorizes(p, rec) \in BOOLEAN
      BY DEF Authorizes, Evaluate
    <3> QED BY <3>2, <3>3, <3>4, DecisionIsRecorded DEF DecideAs, FinalState
  <2> QED BY <2>2, <2>3, <2>4, <2>5, CaseChange
<1>3. ASSUME NEW w \in Workers, pc'[w] \in Acting
      PROVE  LET p == task'[w].event.of
             IN  /\ cases'[p].state \in {"AUTHORIZED", "RECOVERED"}
                 /\ \A a \in audit' : a.case = p => a.after # "WAITING_FOR_OUTCOME"
                 /\ \E a \in audit' : a.case = p /\ a.after = "AUTHORIZED"
  <2> DEFINE p == Subject(w)
  <2>1. CASE pc[w] \in Acting /\ task'[w] = task[w]
    <3>1. /\ p \in Payments /\ Exists(p)
          /\ \A v \in Workers : pc[v] \in Acting /\ Subject(v) = p => v = w
      BY <2>1, ActingAlone
    <3>2. ~CommitAction(w)
      BY <1>3 DEF CommitAction, Goto, TypeInv, TypeOK, Acting
    <3>3. \A v \in Workers : Subject(v) = p => ~CommitAction(v) /\ ~Decide(v)
      BY <3>1, <3>2 DEF CommitAction, Decide, Acting, ActionInv, RowsOfWorkers
    <3>4. cases'[p].state \in {"AUTHORIZED", "RECOVERED"}
      <4>1. RowKept(p) \/ RowPaid(p) \/ RowRecovered(p)
        BY <3>1, <3>3, CaseChange DEF RowWaiting, DecidedNow
      <4>2. cases[p].state \in {"AUTHORIZED", "RECOVERED"} /\ cases[p] \in CaseRow
        BY <2>1, <3>1 DEF AuditInv, TypeInv, TypeOK
      <4> QED BY <4>1, <4>2 DEF RowKept, RowPaid, RowRecovered, CaseRow
    <3>5. ASSUME NEW a \in audit', a.case = p
          PROVE  a.after # "WAITING_FOR_OUTCOME"
      <4>1. CASE a \in audit
        BY <2>1, <3>5, <4>1 DEF AuditInv
      <4>2. ASSUME NEW v \in Workers, RecheckPaid(v) \/ RecheckUnavailable(v)
            PROVE  sess[v].state = "AUTHORIZED"
        BY <4>2 DEF RecheckPaid, RecheckUnavailable, TypeInv, SessionOK, Acting
      <4>3. None # "WAITING_FOR_OUTCOME"
        BY DEF CaseState
      <4> QED BY <3>3, <3>5, <4>1, <4>2, <4>3, AuditChange
    <3>6. \E a \in audit' : a.case = p /\ a.after = "AUTHORIZED"
      BY <2>1, AuditChange DEF AuditInv
    <3> QED BY <2>1, <3>4, <3>5, <3>6 DEF Subject
  <2>2. CASE Decide(w)
    <3>1. p \in Payments /\ ~Exists(p) /\ task' = task
      BY <2>2, MessageType DEF Decide, TypeInv, ActionInv, RowsOfWorkers
    <3>2. PICK rec \in Recommendations(p) : DecideAs(w, p, rec, Authorizes(p, rec))
      BY <2>2 DEF Decide
    <3>3. Authorizes(p, rec)
      BY <1>3, <3>2 DEF DecideAs, FinalState, Executes, Goto, Acting, TypeInv, TypeOK
    <3>4. cases'[p].state = "AUTHORIZED"
      BY <3>1, <3>2, <3>3 DEF DecideAs, FinalState, TypeInv, TypeOK
    <3>5. \A a \in DecisionAudit(p, TRUE) : a.after # "WAITING_FOR_OUTCOME"
      BY DEF DecisionAudit, record
    <3>6. \E a \in DecisionAudit(p, TRUE) : a.case = p /\ a.after = "AUTHORIZED"
      BY DEF DecisionAudit, record
    <3>7. \A a \in audit : a.case # p
      BY <3>1 DEF AuditInv
    <3>8. audit' = audit \cup DecisionAudit(p, TRUE)
      BY <3>2, <3>3 DEF DecideAs, FinalState, DecisionAudit
    <3> QED BY <3>1, <3>4, <3>5, <3>6, <3>7, <3>8 DEF Subject
  <2> QED BY <1>3, <2>1, <2>2, ActingStep
<1> QED BY <1>1, <1>2, <1>3 DEF AuditInv, Exists, Subject

LEMMA AuditInvariant == Spec => []AuditInv
  BY CaseInvariant, AuditInit, AuditStep, PTL DEF Spec

(* After every step, whoever makes it, the ledger has a record of the state  *)
(* each case is in.                                                          *)
THEOREM AuditExplains == Spec => []AuditExplainsState
<1>1. AuditInv => AuditExplainsState
  BY DEF AuditInv, AuditExplainsState
<1> QED BY <1>1, AuditInvariant, PTL

(* A record of what the policy decided is written with that of the proposal  *)
(* it decided on, one of an execution while the case is AUTHORIZED, or has   *)
(* been recovered meanwhile: no worker writes the ledger from a session that *)
(* is behind the case.                                                       *)
THEOREM AuditFollowsCases == Spec => AuditBeforeHolds
<1> DEFINE Tells ==
       \A a \in audit' \ audit :
          /\ a.before # None /\ a.type \notin {"PAYMENT_CONFIRMED", "CASE_RECOVERED"}
          /\ cases[a.case].state # "RECOVERED"
          => IF Exists(a.case) THEN a.before = cases[a.case].state
             ELSE \E b \in audit' : b.case = a.case /\ b.after = a.before
<1>1. ASSUME TypeInv, ActionInv, AuditInv, [Next]_vars, NEW a \in audit' \ audit,
             a.before # None, a.type \notin {"PAYMENT_CONFIRMED", "CASE_RECOVERED"},
             cases[a.case].state # "RECOVERED"
      PROVE  IF Exists(a.case) THEN a.before = cases[a.case].state
             ELSE \E b \in audit' : b.case = a.case /\ b.after = a.before
  <2>1. ASSUME NEW w \in Workers, a.case = Subject(w),
               \/ /\ RecheckPaid(w) \/ RecheckUnavailable(w)
                  /\ a.before = sess[w].state
               \/ CommitAction(w) /\ a.before = "AUTHORIZED"
        PROVE  Exists(a.case) /\ a.before = cases[a.case].state
    <3>1. pc[w] \in Acting
      BY <2>1 DEF RecheckPaid, RecheckUnavailable, CommitAction, Acting
    <3>2. sess[w].state = "AUTHORIZED"
      BY <1>1, <3>1 DEF TypeInv, SessionOK
    <3> QED BY <1>1, <2>1, <3>1, <3>2, RecordsOfCases DEF AuditInv
  <2>2. ASSUME NEW w \in Workers, a.case = Subject(w), Decide(w), NEW allowed \in BOOLEAN,
               a \in DecisionAudit(Subject(w), allowed)
        PROVE  ~Exists(a.case) /\ \E b \in audit' : b.case = a.case /\ b.after = a.before
    <3>1. ~Exists(a.case)
      BY <1>1, <2>2 DEF Decide, ActionInv, RowsOfWorkers
    <3>2. a.before = "ACTION_PROPOSED"
      BY <1>1, <2>2 DEF DecisionAudit, record
    <3>3. record(Subject(w), "AGENT_RECOMMENDATION_CREATED", None, "ACTION_PROPOSED") \in audit'
      BY <2>2 DEF Decide, DecideAs, DecisionAudit
    <3> QED BY <2>2, <3>1, <3>2, <3>3 DEF record
  <2> QED BY <1>1, <2>1, <2>2, AuditChange
<1>2. TypeInv /\ ActionInv /\ AuditInv /\ [Next]_vars => [Tells]_vars
  BY <1>1
<1> HIDE DEF Tells
<1>3. Spec => [][Tells]_vars
  BY <1>2, CaseInvariant, AuditInvariant, PTL DEF Spec
<1> QED BY <1>3 DEF AuditBeforeHolds, Tells

-----------------------------------------------------------------------------
(* The state machine, with a verifier that does not consult it.              *)

(* The states in which the program leaves a case; it only passes through     *)
(* those before, and sets none of the others.                                *)
RestingState == {"NEEDS_REVIEW", "AUTHORIZED", "WAITING_FOR_OUTCOME", "RECOVERED"}

CasesRest == \A p \in Payments : Exists(p) => cases[p].state \in RestingState

LEMMA RestInit == Init => CasesRest
  BY DEF Init, CasesRest, Exists, NoRow

LEMMA RestStep == TypeInv /\ ActionInv /\ CasesRest /\ [Next]_vars => CasesRest'
<1> SUFFICES ASSUME TypeInv, ActionInv, CasesRest, [Next]_vars,
                    NEW p \in Payments, cases'[p].state # "NONE"
             PROVE  cases'[p].state \in RestingState
  BY DEF CasesRest, Exists
<1>1. cases[p] \in CaseRow
  BY DEF TypeInv, TypeOK
<1>2. CASE RowPaid(p)
  <2>1. Exists(p)
    BY <1>2, MessageType DEF RowPaid, RecheckPaid, ActionInv, RowsOfWorkers, Acting
  <2> QED BY <1>1, <1>2, <2>1 DEF RowPaid, CaseRow, CasesRest
<1>3. CASE RowKept(p) \/ RowWaiting(p) \/ RowRecovered(p) \/ DecidedNow(p)
  BY <1>1, <1>3 DEF RowKept, RowWaiting, RowRecovered, DecidedNow, CaseRow, CasesRest,
                    Exists, RestingState
<1> QED BY <1>2, <1>3, CaseChange

LEMMA RestInvariant == Spec => []CasesRest
  BY CaseInvariant, RestInit, RestStep, PTL DEF Spec

(* What the table says of the steps between resting states, and of the walks *)
(* a transaction takes through the others.                                   *)
LEMMA TableOfRest ==
  /\ \A s \in {"NEEDS_REVIEW", "AUTHORIZED"} : AssertWalk(Walk(s))
  /\ AssertWalk(<<"AUTHORIZED", "ACTION_EXECUTED", "WAITING_FOR_OUTCOME">>)
  /\ \A s \in RestingState \ {"RECOVERED"} : AssertTransition(s, "RECOVERED")
<1>1. ASSUME NEW s \in {"NEEDS_REVIEW", "AUTHORIZED"}
      PROVE  AssertWalk(Walk(s))
  <2>1. /\ Len(Walk(s)) = 4
        /\ Walk(s)[1] = "DETECTED" /\ Walk(s)[2] = "DIAGNOSING"
        /\ Walk(s)[3] = "ACTION_PROPOSED" /\ Walk(s)[4] = s
    BY DEF Walk
  <2>2. /\ AssertTransition("DETECTED", "DIAGNOSING")
        /\ AssertTransition("DIAGNOSING", "ACTION_PROPOSED")
        /\ AssertTransition("ACTION_PROPOSED", s)
    BY DEF AssertTransition, AllowedTransitions, CaseState
  <2>3. ASSUME NEW i \in 1 .. 3
        PROVE  AssertTransition(Walk(s)[i], Walk(s)[i + 1])
    <3>1. i = 1 \/ i = 2 \/ i = 3
      BY <2>3
    <3> QED BY <2>1, <2>2, <3>1
  <2> QED BY <2>1, <2>3 DEF AssertWalk
<1>2. AssertWalk(<<"AUTHORIZED", "ACTION_EXECUTED", "WAITING_FOR_OUTCOME">>)
  <2> DEFINE walk == <<"AUTHORIZED", "ACTION_EXECUTED", "WAITING_FOR_OUTCOME">>
  <2>1. /\ AssertTransition("AUTHORIZED", "ACTION_EXECUTED")
        /\ AssertTransition("ACTION_EXECUTED", "WAITING_FOR_OUTCOME")
    BY DEF AssertTransition, AllowedTransitions, CaseState
  <2>2. ASSUME NEW i \in 1 .. 2
        PROVE  AssertTransition(walk[i], walk[i + 1])
    <3>1. i = 1 \/ i = 2
      BY <2>2
    <3> QED BY <2>1, <3>1
  <2> QED BY <2>2 DEF AssertWalk
<1>3. ASSUME NEW s \in RestingState \ {"RECOVERED"}
      PROVE  AssertTransition(s, "RECOVERED")
  BY <1>3 DEF RestingState, AssertTransition, AllowedTransitions, CaseState
<1> QED BY <1>1, <1>2, <1>3

(* For any number of workers and faults, the states of a case follow the     *)
(* table: a confirmation finds the case in a state RECOVERED may follow, and *)
(* an executor that commits finds it AUTHORIZED, or recovered meanwhile.     *)
THEOREM TableIsFollowed == Spec => CasesFollowTable
<1> DEFINE CaseSteps == \A p \in Payments : Follows(cases[p].state, cases'[p].state)
<1>1. ASSUME TypeInv, ActionInv, AuditInv, CasesRest, [Next]_vars, NEW p \in Payments
      PROVE  Follows(cases[p].state, cases'[p].state)
  <2>1. cases[p] \in CaseRow
    BY <1>1 DEF TypeInv, TypeOK
  <2>2. CASE RowKept(p) \/ RowPaid(p)
    <3>1. cases'[p].state = cases[p].state
      BY <2>1, <2>2 DEF RowKept, RowPaid, CaseRow
    <3> QED BY <3>1 DEF Follows
  <2>3. CASE RowWaiting(p)
    <3>1. PICK w \in Workers : CommitAction(w) /\ Subject(w) = p
      BY <2>3 DEF RowWaiting
    <3>2. cases[p].state \in {"AUTHORIZED", "RECOVERED"}
      BY <1>1, <3>1 DEF CommitAction, Acting, AuditInv
    <3>3. cases'[p].state = "WAITING_FOR_OUTCOME"
      BY <2>1, <2>3 DEF RowWaiting, CaseRow
    <3> QED BY <3>2, <3>3, TableOfRest DEF Follows
  <2>4. CASE RowRecovered(p)
    <3>1. PICK w \in Workers : ConfirmPayment(w) /\ Subject(w) = p
      BY <2>4 DEF RowRecovered
    <3>2. cases[p].state \in RestingState
      BY <1>1, <3>1 DEF ConfirmPayment, ActionInv, RowsOfWorkers, CasesRest, Acting
    <3>3. cases'[p].state = "RECOVERED"
      BY <2>4 DEF RowRecovered
    <3> QED BY <3>2, <3>3, TableOfRest DEF Follows, RestingState
  <2>5. CASE DecidedNow(p)
    <3>1. cases[p].state = "NONE"
      BY <1>1, <2>5 DEF DecidedNow, Decide, ActionInv, RowsOfWorkers, Exists
    <3>2. cases'[p].state \in {"NEEDS_REVIEW", "AUTHORIZED"}
      BY <2>5 DEF DecidedNow
    <3> QED BY <3>1, <3>2, TableOfRest DEF Follows
  <2> QED BY <1>1, <2>2, <2>3, <2>4, <2>5, CaseChange
<1>2. TypeInv /\ ActionInv /\ AuditInv /\ CasesRest /\ [Next]_vars => [CaseSteps]_vars
  BY <1>1
<1> HIDE DEF CaseSteps
<1>3. Spec => [][CaseSteps]_vars
  BY <1>2, CaseInvariant, AuditInvariant, RestInvariant, PTL DEF Spec
<1> QED BY <1>3 DEF CasesFollowTable, CaseSteps

-----------------------------------------------------------------------------
(* What can leave an authorized action undone.                               *)

(* An executor goes on, cancels or commits its action, or is interrupted: no *)
(* step of another process takes it out of execute.                          *)
LEMMA ExecutorProceeds ==
  ASSUME TypeInv, [Next]_vars, NEW w \in Workers, pc[w] \in Acting
  PROVE  \/ pc'[w] \in Acting /\ task'[w] = task[w]
         \/ RecheckPaid(w)
         \/ CommitAction(w)
         \/ Interrupted(w)
<1> USE DEF provider, database, session, vars
<1>1. CASE UNCHANGED <<pc, task>>
  BY <1>1
<1>2. ASSUME NEW v \in Workers, Deliver(v) \/ WorkerStep(v) \/ WorkerFault(v), v # w
      PROVE  pc'[w] = pc[w] /\ task'[w] = task[w]
  BY <1>2
  DEF WorkerStep, WorkerFault, Deliver, LoadEvent, SkipProcessed, MarkProcessed,
      LookupCase, InsertCase, InsertConflicts, Decide, DecideAs, RecheckClear,
      RecheckPaid, Act, CommitAction, FindCase, ConfirmPayment, OutcomeConflicts,
      RecheckUnavailable, ActionFails, DatabaseFails, WorkerKilled, TaskLost,
      Redelivered, Retry, EndSession, Goto, TypeInv, TypeOK
<1>3. CASE RecheckClear(w) \/ Act(w)
  BY <1>3 DEF RecheckClear, Act, Goto, Acting, TypeInv, TypeOK
<1>4. CASE Deliver(w) \/ WorkerStep(w)
  BY <1>3, <1>4
  DEF WorkerStep, Deliver, LoadEvent, SkipProcessed, MarkProcessed, LookupCase,
      InsertCase, InsertConflicts, Decide, FindCase, ConfirmPayment, OutcomeConflicts,
      Acting
<1>5. CASE WorkerFault(w)
  BY <1>1, <1>5 DEF WorkerFault, Interrupted, Redelivered
<1>6. CASE Provider \/ Api
  BY <1>1, <1>6 DEF Provider, Api, AuthorizePayment, CapturePayment, ReceiveWebhook,
                    QueueUnavailable
<1> QED BY <1>1, <1>2, <1>4, <1>5, <1>6 DEF Next

(* For any number of payments, workers and faults: the step that leaves an   *)
(* authorized, unpaid case in nobody's hand is an interruption of the very   *)
(* executor that had it in hand - not the decision, whose idempotency key is *)
(* always free, not a duplicate task, an insert conflict or a recovery.      *)
THEOREM InterruptionStrands == Spec => OnlyInterruptionStrands
<1> DEFINE Strands ==
       \A p \in Payments :
          Stranded(p)' =>
             \/ Stranded(p)
             \/ \E w \in Workers : pc[w] \in Acting /\ Subject(w) = p /\ Interrupted(w)
<1>1. ASSUME TypeInv, ActionInv, ExecutionInv, [Next]_vars, NEW p \in Payments,
             Stranded(p)', ~Stranded(p)
      PROVE  \E w \in Workers : pc[w] \in Acting /\ Subject(w) = p /\ Interrupted(w)
  <2>1. cases \in [Payments -> CaseRow]
    BY <1>1 DEF TypeInv, TypeOK
  <2>2. /\ cases'[p].state = "AUTHORIZED" /\ ~cases'[p].already_paid
        /\ \A w \in Workers : ~(pc'[w] \in Acting /\ task'[w].event.of = p)
    BY <1>1 DEF Stranded, Unexecuted, InHand, Subject
  <2>3. RowKept(p) \/ DecidedNow(p)
    <3>1. ~RowPaid(p) /\ ~RowWaiting(p)
      BY <2>1, <2>2 DEF RowPaid, RowWaiting, CaseRow
    <3>2. ~RowRecovered(p)
      BY <2>2 DEF RowRecovered
    <3> QED BY <1>1, <3>1, <3>2, CaseChange
  <2>4. CASE RowKept(p)
    <3>1. PICK w \in Workers : pc[w] \in Acting /\ Subject(w) = p
      BY <1>1, <2>2, <2>4 DEF RowKept, Stranded, Unexecuted, InHand
    <3>2. ~RecheckPaid(w) /\ ~CommitAction(w)
      BY <2>1, <2>2, <3>1 DEF RecheckPaid, PaidRow, CommitAction, UpdatedRow, CaseRow
    <3> QED BY <1>1, <2>2, <3>1, <3>2, ExecutorProceeds DEF Subject
  <2>5. CASE DecidedNow(p)
    <3>1. PICK w \in Workers : Decide(w) /\ Subject(w) = p
      BY <2>5 DEF DecidedNow
    <3>2. PICK rec \in Recommendations(p) : DecideAs(w, p, rec, Authorizes(p, rec))
      BY <3>1 DEF Decide
    <3>3. Authorizes(p, rec)
      BY <2>1, <2>2, <3>2 DEF DecideAs, FinalState
    <3>4. ~KeyUsed(p, rec.action)
      BY <1>1, <3>1 DEF Decide, ActionInv, RowsOfWorkers, ExecutionInv, KeyUsed
    <3>5. pc'[w] = "recheck" /\ task' = task
      BY <1>1, <3>1, <3>2, <3>3, <3>4
      DEF Decide, DecideAs, Executes, Goto, TypeInv, TypeOK
    <3> QED BY <2>2, <3>1, <3>5 DEF Acting, Subject
  <2> QED BY <2>3, <2>4, <2>5
<1>2. TypeInv /\ ActionInv /\ ExecutionInv /\ [Next]_vars => [Strands]_vars
  BY <1>1
<1> HIDE DEF Strands
<1>3. Spec => [][Strands]_vars
  BY <1>2, CaseInvariant, ExecutionInvariant, PTL DEF Spec
<1> QED BY <1>3 DEF OnlyInterruptionStrands, Strands

-----------------------------------------------------------------------------
(* What a failure between an action and its record leaves behind.            *)

LEMMA UnrecordedInit == Init => UnrecordedEffectShows
  BY DEF Init, UnrecordedEffectShows

(* The commit that moves a case on records the effect its executor had.      *)
LEMMA CommitRecordsEffect ==
  ASSUME TypeInv, ActionInv, ExecutionInv, NEW w \in Workers, CommitAction(w),
         links[Subject(w)] + emails[Subject(w)] > 0
  PROVE  \E i \in interventions'[Subject(w)] : i.status = "EXECUTED"
<1> DEFINE p == Subject(w)
<1>1. pc[w] = "commit_action" /\ p \in Payments
  BY ActingAlone DEF CommitAction, Acting
<1>2. cmd[w] \in {"CREATE_PAYMENT_LINK", "SEND_RECOVERY_MESSAGE"}
  BY <1>1 DEF ExecutionInv
<1>3. result[w] = "EXECUTED"
  BY <1>1, <1>2 DEF ExecutionInv, StatusOf, Acting
<1>4. interventions' = [interventions EXCEPT ![p] =
                           @ \cup {[action |-> cmd[w], status |-> result[w]]}]
  BY DEF CommitAction
<1>5. [action |-> cmd[w], status |-> result[w]] \in interventions'[p]
  BY <1>1, <1>4 DEF TypeInv, TypeOK
<1> QED BY <1>3, <1>5

LEMMA UnrecordedStep ==
  TypeInv /\ ActionInv /\ ExecutionInv /\ AuditInv /\ UnrecordedEffectShows /\ [Next]_vars
     => UnrecordedEffectShows'
<1> SUFFICES ASSUME TypeInv, ActionInv, ExecutionInv, AuditInv, UnrecordedEffectShows,
                    [Next]_vars, NEW p \in Payments, links'[p] + emails'[p] > 0
             PROVE  \/ \E i \in interventions'[p] : i.status = "EXECUTED"
                    \/ cases'[p].state \in {"AUTHORIZED", "RECOVERED"}
  BY DEF UnrecordedEffectShows, Executed
<1>1. cases[p] \in CaseRow
  BY DEF TypeInv, TypeOK
<1>2. \/ Executed(p)
      \/ cases[p].state \in {"AUTHORIZED", "RECOVERED"}
  <2>1. CASE links'[p] = links[p] /\ emails'[p] = emails[p]
    BY <2>1 DEF UnrecordedEffectShows
  <2>2. CASE \E w \in Workers : pc[w] = "act" /\ Subject(w) = p
    BY <2>2 DEF AuditInv, Acting
  <2> QED BY <2>1, <2>2, EffectsOfCommands
<1>3. Exists(p)
  <2>1. CASE links'[p] = links[p] /\ emails'[p] = emails[p]
    BY <2>1 DEF ActionInv, NothingSentYet
  <2>2. CASE \E w \in Workers : pc[w] = "act" /\ Subject(w) = p
    BY <2>2, ActingAlone DEF Acting
  <2> QED BY <2>1, <2>2, EffectsOfCommands
<1>4. ~DecidedNow(p)
  BY <1>3 DEF DecidedNow, Decide, ActionInv, RowsOfWorkers
<1>5. CASE RowKept(p) \/ RowPaid(p) \/ RowRecovered(p)
  <2>1. cases'[p].state = cases[p].state \/ cases'[p].state = "RECOVERED"
    BY <1>1, <1>5 DEF RowKept, RowPaid, RowRecovered, CaseRow
  <2> QED BY <1>2, <2>1, ExecutedStays
<1>6. CASE RowWaiting(p)
  <2>1. PICK w \in Workers : CommitAction(w) /\ Subject(w) = p
    BY <1>6 DEF RowWaiting
  <2>2. links[p] + emails[p] > 0
    BY <2>1 DEF CommitAction, provider
  <2> QED BY <2>1, <2>2, CommitRecordsEffect
<1> QED BY <1>4, <1>5, <1>6, CaseChange

(* A link or message the ledger does not know of belongs to a case that is   *)
(* still AUTHORIZED, or was recovered: whatever fails between the effect and *)
(* its commit, no case waits for the outcome of an unrecorded action.        *)
THEOREM EffectsShow == Spec => []UnrecordedEffectShows
  BY CaseInvariant, ExecutionInvariant, AuditInvariant, UnrecordedInit, UnrecordedStep, PTL
  DEF Spec

LEMMA PendingInit == Init => RecoveredHasNothingPending
  BY DEF Init, RecoveredHasNothingPending

LEMMA PendingStep ==
  TypeInv /\ ActionInv /\ ExecutionInv /\ RecoveredHasNothingPending /\ [Next]_vars
     => RecoveredHasNothingPending'
<1> SUFFICES ASSUME TypeInv, ActionInv, ExecutionInv, RecoveredHasNothingPending,
                    [Next]_vars, NEW p \in Payments, cases'[p].state = "RECOVERED",
                    NEW i \in interventions'[p]
             PROVE  i.status \notin {"PENDING", "SCHEDULED", "EXECUTING"}
  BY DEF RecoveredHasNothingPending
<1>1. interventions[p] \in SUBSET Intervention /\ cases \in [Payments -> CaseRow]
  BY DEF TypeInv, TypeOK
<1>2. CASE interventions'[p] = CancelPending(interventions[p])
  BY <1>1, <1>2, CancelPendingKeeps
<1>3. CASE interventions'[p] = interventions[p] /\ cases[p].state = "RECOVERED"
  BY <1>3 DEF RecoveredHasNothingPending
<1>4. ASSUME NEW w \in Workers, ConfirmPayment(w), Subject(w) = p
      PROVE  interventions'[p] = CancelPending(interventions[p])
  BY <1>4 DEF ConfirmPayment, TypeInv, TypeOK
<1>5. ASSUME NEW w \in Workers, Subject(w) = p
      PROVE  ~CommitAction(w)
  BY <1>1, <1>5 DEF CommitAction, UpdatedRow, CaseRow
<1>6. ASSUME NEW a, NEW s \in {"CANCELLED_ALREADY_PAID", "FAILED"},
             interventions'[p] = {[action |-> a, status |-> s]}
      PROVE  i.status \notin {"PENDING", "SCHEDULED", "EXECUTING"}
  BY <1>6
<1> QED BY <1>2, <1>3, <1>4, <1>5, <1>6, RecordChange, RecoveredBy

(* A recovered case has nothing scheduled, pending or executing, however the *)
(* verifier and the executor overtake each other.                            *)
THEOREM NothingPendingOnRecovered == Spec => []RecoveredHasNothingPending
  BY CaseInvariant, ExecutionInvariant, PendingInit, PendingStep, PTL DEF Spec
=============================================================================
