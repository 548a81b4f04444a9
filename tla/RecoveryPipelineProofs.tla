----------------------- MODULE RecoveryPipelineProofs -----------------------
(***************************************************************************)
(* Proofs about RecoveryPipeline, for every set of payments, workers and   *)
(* events, every number of retries and faults and every language model.    *)
(***************************************************************************)
EXTENDS RecoveryPipeline, TLAPS

LEMMA NoneIsNoMessage == None \notin Message
  BY ConstantsAssumption DEF Message

(* A recommendation is one, whichever backend made it. *)
LEMMA RecommendationType ==
  ASSUME NEW p \in Payments, NEW rec \in Recommendations(p)
  PROVE  rec.action \in RecoveryAction /\ rec.confidence \in Percent
<1>1. CASE rec \in ModelOutputs
  BY <1>1, ConstantsAssumption
<1>2. CASE rec = DeterministicRecommendation(CaseFacts(p), RecoveryCustomer)
  BY <1>2 DEF DeterministicRecommendation, DeterministicAction, Diagnose,
              DiagnosisConfidence, RecoveryAction, Percent
<1> QED BY <1>1, <1>2 DEF Recommendations

(* The event a worker works on and the failed payment it is about. *)
LEMMA MessageType ==
  ASSUME TypeOK, NEW w \in Workers, pc[w] # "idle"
  PROVE  /\ task[w] \in Message
         /\ Event(w) \in Events
         /\ Subject(w) \in Payments
         /\ PaymentOf(Event(w)) \in PaymentId
<1>1. task[w] \in Message
  BY DEF TypeOK
<1>2. Event(w) \in Events
  BY <1>1 DEF Message, Event
<1>3. Event(w) \in WebhookEvent
  BY <1>2, ConstantsAssumption
<1> QED BY <1>1, <1>2, <1>3 DEF WebhookEvent, Event, Subject, PaymentOf, PaymentId

TypeInv == TypeOK /\ SessionOK

(* The part of it that is about the workers, and what ending a session or    *)
(* retrying a task does to it.                                               *)
WorkersOK ==
    /\ pc \in [Workers -> Steps]
    /\ task \in [Workers -> Message \cup {None}]
    /\ \A w \in Workers : pc[w] = "idle" <=> task[w] = None
    /\ need \in [Workers -> SUBSET Parent]
    /\ sess \in [Workers -> CaseRow]
    /\ cmd \in [Workers -> RecoveryAction \cup {"NONE"}]
    /\ result \in [Workers -> InterventionStatus \cup {"NONE"}]
    /\ SessionOK

LEMMA EndSessionType ==
  ASSUME WorkersOK, NEW w \in Workers, EndSession(w)
  PROVE  WorkersOK'
  BY DEF WorkersOK, EndSession, SessionOK, Acting, Steps, CaseRow, NoRow

LEMMA RetryType ==
  ASSUME TypeInv, NEW w \in Workers, pc[w] # "idle", Retry(w)
  PROVE  WorkersOK' /\ queue' \subseteq Message
<1>1. WorkersOK
  BY DEF TypeInv, TypeOK, WorkersOK
<1>2. task[w].n < MaxRetries => [event |-> Event(w), n |-> task[w].n + 1] \in Message
  BY MessageType, ConstantsAssumption DEF TypeInv, Message
<1>3. queue' \subseteq Message
  BY <1>2 DEF Retry, TypeInv, TypeOK
<1> QED BY <1>1, <1>3, EndSessionType DEF Retry

LEMMA TypeInit == Init => TypeInv
  BY ConstantsAssumption
  DEF Init, TypeInv, TypeOK, SessionOK, Acting, PaymentId, CaseRow, NoRow, Decision,
      NoDecision, RecoveryAction, Parent, Steps

LEMMA TypeStep == TypeInv /\ [Next]_vars => TypeInv'
<1> SUFFICES ASSUME TypeInv, [Next]_vars PROVE TypeInv'
  OBVIOUS
<1> USE DEF provider, database, session, vars
<1>1. CASE UNCHANGED vars
  BY <1>1 DEF TypeInv, TypeOK, SessionOK, Subject, Acting
<1>2. ASSUME NEW p \in Payments, AuthorizePayment(p)
      PROVE  TypeInv'
  BY <1>2 DEF TypeInv, TypeOK, SessionOK, AuthorizePayment, Original, PaymentId
<1>3. ASSUME NEW id \in Paying, CapturePayment(id)
      PROVE  TypeInv'
  BY <1>3 DEF TypeInv, TypeOK, SessionOK, CapturePayment
<1>4. ASSUME NEW e \in Events
      PROVE  [event |-> e, n |-> 0] \in Message
  BY ConstantsAssumption DEF Message
<1>5. ASSUME NEW e \in Events, ReceiveWebhook(e)
      PROVE  TypeInv'
  BY <1>4, <1>5 DEF TypeInv, TypeOK, SessionOK, ReceiveWebhook
<1>6. ASSUME NEW e \in Events, QueueUnavailable(e)
      PROVE  TypeInv'
  BY <1>6 DEF TypeInv, TypeOK, SessionOK, QueueUnavailable, Fault
<1>7. ASSUME NEW w \in Workers, Deliver(w)
      PROVE  TypeInv'
  BY <1>7, NoneIsNoMessage
  DEF TypeInv, TypeOK, SessionOK, Acting, Deliver, Goto, Steps
<1>w. WorkersOK
  BY DEF TypeInv, TypeOK, WorkersOK
<1>8. ASSUME NEW w \in Workers, LoadEvent(w)
      PROVE  TypeInv'
  BY <1>8 DEF TypeInv, TypeOK, SessionOK, Acting, LoadEvent, Goto, Dispatch, Steps
<1>9. ASSUME NEW w \in Workers, SkipProcessed(w)
      PROVE  TypeInv'
  BY <1>w, <1>9, EndSessionType DEF TypeInv, TypeOK, WorkersOK, SkipProcessed
<1>10. ASSUME NEW w \in Workers, MarkProcessed(w)
       PROVE  TypeInv'
  BY <1>w, <1>10, EndSessionType DEF TypeInv, TypeOK, WorkersOK, MarkProcessed
<1>11. ASSUME NEW w \in Workers, LookupCase(w)
       PROVE  TypeInv'
  <2>1. {Merchant, CustomerOf[Subject(w)]} \subseteq Parent
    BY <1>11, MessageType, ConstantsAssumption DEF LookupCase, TypeInv, Parent
  <2> QED BY <1>11, <2>1
    DEF TypeInv, TypeOK, SessionOK, Acting, LookupCase, Goto, Steps
<1>12. ASSUME NEW w \in Workers, InsertCase(w)
       PROVE  TypeInv'
  BY <1>12 DEF TypeInv, TypeOK, SessionOK, Acting, InsertCase, Goto, Steps, CaseRow,
               CaseState
<1>13. ASSUME NEW w \in Workers, InsertConflicts(w)
       PROVE  TypeInv'
  BY <1>13, RetryType DEF TypeInv, TypeOK, WorkersOK, InsertConflicts
<1>14. ASSUME NEW w \in Workers, Decide(w)
       PROVE  TypeInv'
  <2>1. PICK rec \in Recommendations(Subject(w)) :
               DecideAs(w, Subject(w), rec, Authorizes(Subject(w), rec))
    BY <1>14 DEF Decide
  <2>2. Subject(w) \in Payments /\ pc[w] = "decide" /\ rec.action \in RecoveryAction
    BY <1>14, MessageType, RecommendationType DEF Decide, TypeInv
  <2> DEFINE allowed == Authorizes(Subject(w), rec)
             row == [state |-> IF allowed THEN "AUTHORIZED" ELSE "NEEDS_REVIEW",
                     already_paid |-> FALSE]
             dec == [action |-> rec.action, allowed |-> allowed]
  <2>3. allowed \in BOOLEAN
    BY DEF Authorizes, Evaluate
  <2>4. row \in CaseRow /\ dec \in Decision
    BY <2>2, <2>3 DEF CaseRow, CaseState, Decision
  <2>5. DecisionAudit(Subject(w), allowed) \subseteq AuditEvent
    BY <2>2, <2>3 DEF DecisionAudit, record, AuditEvent, AuditType, CaseState
  <2> HIDE DEF allowed, row, dec
  <2>6. /\ parents' = parents \cup need[w]
        /\ cases' = [cases EXCEPT ![Subject(w)] = row]
        /\ decisions' = [decisions EXCEPT ![Subject(w)] = dec]
        /\ audit' = audit \cup DecisionAudit(Subject(w), allowed)
        /\ sess' = [sess EXCEPT ![w] = row]
        /\ cmd' = [cmd EXCEPT ![w] = rec.action]
        /\ need' = [need EXCEPT ![w] = {}]
        /\ pc' = [pc EXCEPT ![w] = IF Executes(Subject(w), rec.action, allowed)
                                   THEN "recheck" ELSE "mark_processed"]
    BY <2>1 DEF DecideAs, Goto, FinalState, allowed, row, dec
  <2>7. UNCHANGED <<payments, links, emails, webhookEvents, interventions, paymentLinks,
                    outcomes, queue, task, result, faults>>
    BY <1>14 DEF Decide
  <2>8. TypeOK'
    BY <2>2, <2>4, <2>5, <2>6, <2>7 DEF TypeInv, TypeOK, Steps
  <2>9. Executes(Subject(w), rec.action, allowed)
           => row = [state |-> "AUTHORIZED", already_paid |-> FALSE]
    BY DEF Executes, row
  <2>10. SessionOK'
    BY <2>2, <2>6, <2>7, <2>9 DEF TypeInv, TypeOK, SessionOK, Acting
  <2> QED BY <2>8, <2>10 DEF TypeInv
<1>15. ASSUME NEW w \in Workers, RecheckClear(w)
       PROVE  TypeInv'
  BY <1>15 DEF TypeInv, TypeOK, SessionOK, Acting, RecheckClear, Goto, Steps
<1>16. ASSUME NEW w \in Workers, RecheckPaid(w)
       PROVE  TypeInv'
  <2>1. /\ Subject(w) \in Payments
        /\ sess[w].state = "AUTHORIZED" /\ cmd[w] \in RecoveryAction
    BY <1>16, MessageType DEF RecheckPaid, TypeInv, SessionOK, Acting
  <2>2. [action |-> cmd[w], status |-> "CANCELLED_ALREADY_PAID"] \in Intervention
    BY <2>1 DEF Intervention, InterventionStatus
  <2>3. record(Subject(w), "ACTION_CANCELLED_ALREADY_PAID", sess[w].state, sess[w].state)
           \in AuditEvent
    BY <2>1 DEF record, AuditEvent, AuditType, CaseState
  <2>4. cases' \in [Payments -> CaseRow] /\ sess' \in [Workers -> CaseRow]
    <3>1. \A row \in CaseRow : [row EXCEPT !.already_paid = TRUE] \in CaseRow
      BY DEF CaseRow
    <3>2. cases[Subject(w)] \in CaseRow /\ sess[w] \in CaseRow
      BY <2>1 DEF TypeInv, TypeOK
    <3>3. /\ cases' = [cases EXCEPT ![Subject(w)] =
                          [cases[Subject(w)] EXCEPT !.already_paid = TRUE]]
          /\ sess' = [sess EXCEPT ![w] = [sess[w] EXCEPT !.already_paid = TRUE]]
      BY <1>16 DEF RecheckPaid, PaidRow
    <3>4. cases \in [Payments -> CaseRow] /\ sess \in [Workers -> CaseRow]
      BY DEF TypeInv, TypeOK
    <3> QED BY <3>1, <3>2, <3>3, <3>4
  <2>5. interventions' \in [Payments -> SUBSET Intervention] /\ audit' \subseteq AuditEvent
    BY <1>16, <2>1, <2>2, <2>3 DEF RecheckPaid, TypeInv, TypeOK
  <2>6. TypeOK'
    BY <1>16, <2>4, <2>5 DEF TypeInv, TypeOK, RecheckPaid, Goto, Steps
  <2>7. SessionOK'
    BY <1>16 DEF TypeInv, TypeOK, SessionOK, Acting, RecheckPaid, Goto
  <2> QED BY <2>6, <2>7 DEF TypeInv
<1>17. ASSUME NEW w \in Workers, RecheckUnavailable(w)
       PROVE  TypeInv'
  <2>1. Subject(w) \in Payments /\ pc[w] = "recheck" /\ sess[w].state = "AUTHORIZED"
    BY <1>17, MessageType DEF RecheckUnavailable, TypeInv, SessionOK, Acting
  <2>2. record(Subject(w), "ACTION_FAILED", sess[w].state, sess[w].state) \in AuditEvent
    BY <2>1 DEF record, AuditEvent, AuditType, CaseState
  <2> QED BY <1>17, <2>1, <2>2, RetryType
    DEF TypeInv, TypeOK, WorkersOK, RecheckUnavailable, Fault
<1>18. ASSUME NEW w \in Workers, Act(w)
       PROVE  TypeInv'
  <2>1. links' \in [Payments -> Nat] /\ emails' \in [Payments -> Nat]
    BY <1>18, MessageType DEF Act, Effect, TypeInv, TypeOK
  <2>2. StatusOf(w) \in InterventionStatus
    BY DEF StatusOf, InterventionStatus
  <2> QED BY <1>18, <2>1, <2>2
    DEF TypeInv, TypeOK, SessionOK, Acting, Act, Goto, Steps
<1>19. ASSUME NEW w \in Workers, CommitAction(w)
       PROVE  TypeInv'
  <2>1. /\ Subject(w) \in Payments /\ sess[w].state = "AUTHORIZED"
        /\ cmd[w] \in RecoveryAction /\ result[w] \in InterventionStatus
    BY <1>19, MessageType DEF CommitAction, TypeInv, SessionOK, Acting
  <2>2. [action |-> cmd[w], status |-> result[w]] \in Intervention
    BY <2>1 DEF Intervention
  <2>3. ExecutionAudit(w) \subseteq AuditEvent
    BY <2>1 DEF ExecutionAudit, EffectAudit, record, AuditEvent, AuditType, CaseState
  <2>4. UpdatedRow(w) \in CaseRow
    BY <2>1 DEF UpdatedRow, TypeInv, TypeOK, CaseRow, CaseState
  <2>5. cases' \in [Payments -> CaseRow] /\ sess' \in [Workers -> CaseRow]
    <3>1. \A row \in CaseRow : [row EXCEPT !.state = "WAITING_FOR_OUTCOME"] \in CaseRow
      BY DEF CaseRow, CaseState
    <3>2. sess[w] \in CaseRow
      BY DEF TypeInv, TypeOK
    <3>3. /\ cases' = [cases EXCEPT ![Subject(w)] = UpdatedRow(w)]
          /\ sess' = [sess EXCEPT ![w] = [sess[w] EXCEPT !.state = "WAITING_FOR_OUTCOME"]]
      BY <1>19 DEF CommitAction
    <3>4. cases \in [Payments -> CaseRow] /\ sess \in [Workers -> CaseRow]
      BY DEF TypeInv, TypeOK
    <3> QED BY <2>4, <3>1, <3>2, <3>3, <3>4
  <2>6. interventions' \in [Payments -> SUBSET Intervention] /\ audit' \subseteq AuditEvent
    BY <1>19, <2>1, <2>2, <2>3 DEF CommitAction, TypeInv, TypeOK
  <2>7. paymentLinks' \subseteq Payments
    BY <1>19, <2>1 DEF CommitAction, TypeInv, TypeOK
  <2>8. TypeOK'
    BY <1>19, <2>5, <2>6, <2>7 DEF TypeInv, TypeOK, CommitAction, Goto, Steps
  <2>9. SessionOK'
    BY <1>19 DEF TypeInv, TypeOK, SessionOK, Acting, CommitAction, Goto
  <2> QED BY <2>8, <2>9 DEF TypeInv
<1>20. ASSUME NEW w \in Workers, ActionFails(w)
       PROVE  TypeInv'
  <2>1. /\ pc[w] # "idle" /\ Subject(w) \in Payments /\ cmd[w] \in RecoveryAction
    BY <1>20, MessageType DEF ActionFails, TypeInv, SessionOK, Acting
  <2>2. links' \in [Payments -> Nat] /\ emails' \in [Payments -> Nat]
    BY <1>20, <2>1 DEF ActionFails, Effect, TypeInv, TypeOK
  <2>3. [action |-> cmd[w], status |-> "FAILED"] \in Intervention
    BY <2>1 DEF Intervention, InterventionStatus
  <2>4. record(Subject(w), "ACTION_FAILED", None, None) \in AuditEvent
    BY <2>1 DEF record, AuditEvent, AuditType
  <2>5. interventions' \in [Payments -> SUBSET Intervention] /\ audit' \subseteq AuditEvent
    BY <1>20, <2>1, <2>3, <2>4 DEF ActionFails, TypeInv, TypeOK
  <2>6. WorkersOK' /\ queue' \subseteq Message
    BY <1>20, <2>1, RetryType DEF ActionFails
  <2> QED BY <1>20, <2>2, <2>5, <2>6
    DEF TypeInv, TypeOK, WorkersOK, ActionFails, Fault
<1>21. ASSUME NEW w \in Workers, FindCase(w)
       PROVE  TypeInv'
  <2>1. Subject(w) \in Payments
    BY <1>21, MessageType DEF FindCase, TypeInv
  <2>2. sess' \in [Workers -> CaseRow]
    BY <1>21, <2>1 DEF FindCase, TypeInv, TypeOK
  <2>3. TypeOK'
    BY <1>21, <2>2 DEF TypeInv, TypeOK, FindCase, Goto, Steps
  <2>4. SessionOK'
    <3>1. pc'[w] \in {"confirm", "mark_processed"}
      BY <1>21 DEF FindCase, Goto, TypeInv, TypeOK
    <3>2. \A v \in Workers \ {w} : pc'[v] = pc[v] /\ sess'[v] = sess[v]
      BY <1>21 DEF FindCase, Goto, TypeInv, TypeOK
    <3>3. cmd' = cmd /\ result' = result
      BY <1>21 DEF FindCase
    <3> QED BY <3>1, <3>2, <3>3 DEF TypeInv, SessionOK, Acting
  <2> QED BY <2>3, <2>4 DEF TypeInv
<1>22. ASSUME NEW w \in Workers, ConfirmPayment(w)
       PROVE  TypeInv'
  <2> DEFINE p == Subject(w)
             id == PaymentOf(Event(w))
             row == [state |-> "RECOVERED", already_paid |-> TRUE]
  <2>1. p \in Payments /\ id \in PaymentId
    BY <1>22, MessageType DEF ConfirmPayment, TypeInv
  <2>2. row \in CaseRow
    BY DEF CaseRow, CaseState
  <2>3. [case |-> p, payment |-> id, attributed |-> Executed(p)] \in Outcome
    BY <2>1 DEF Outcome, Executed
  <2>4. CancelPending(interventions[p]) \subseteq Intervention
    BY <2>1 DEF CancelPending, Intervention, InterventionStatus, TypeInv, TypeOK
  <2>5. /\ record(p, "PAYMENT_CONFIRMED", "WAITING_FOR_OUTCOME", "RECOVERED") \in AuditEvent
        /\ record(p, "CASE_RECOVERED", "WAITING_FOR_OUTCOME", "RECOVERED") \in AuditEvent
    BY <2>1 DEF record, AuditEvent, AuditType, CaseState
  <2> QED BY <1>22, <2>1, <2>2, <2>3, <2>4, <2>5
    DEF TypeInv, TypeOK, SessionOK, Acting, ConfirmPayment, Goto, Steps
<1>23. ASSUME NEW w \in Workers, OutcomeConflicts(w)
       PROVE  TypeInv'
  BY <1>23, RetryType DEF TypeInv, TypeOK, WorkersOK, OutcomeConflicts
<1>24. ASSUME NEW w \in Workers, DatabaseFails(w)
       PROVE  TypeInv'
  BY <1>24, RetryType DEF TypeInv, TypeOK, WorkersOK, DatabaseFails, Fault
<1>25. ASSUME NEW w \in Workers, WorkerKilled(w)
       PROVE  TypeInv'
  BY <1>w, <1>25, EndSessionType, MessageType
  DEF TypeInv, TypeOK, WorkersOK, WorkerKilled, Fault
<1>26. ASSUME NEW w \in Workers, TaskLost(w)
       PROVE  TypeInv'
  BY <1>w, <1>26, EndSessionType DEF TypeInv, TypeOK, WorkersOK, TaskLost, Fault
<1>27. ASSUME NEW w \in Workers, Redelivered(w)
       PROVE  TypeInv'
  BY <1>27, MessageType DEF TypeInv, TypeOK, SessionOK, Redelivered, Fault
<1> QED
  BY <1>1, <1>2, <1>3, <1>5, <1>6, <1>7, <1>8, <1>9, <1>10, <1>11, <1>12, <1>13, <1>14,
     <1>15, <1>16, <1>17, <1>18, <1>19, <1>20, <1>21, <1>22, <1>23, <1>24, <1>25, <1>26,
     <1>27
  DEF Next, Provider, Api, WorkerStep, WorkerFault

(* Every variable stays in its range, and the session of an executor always  *)
(* holds the authorized, unpaid case its process committed.                  *)
THEOREM TypeCorrect == Spec => []TypeOK
<1>1. Spec => []TypeInv
  BY TypeInit, TypeStep, PTL DEF Spec
<1>2. TypeInv => TypeOK
  BY DEF TypeInv
<1> QED BY <1>1, <1>2, PTL
-----------------------------------------------------------------------------
(* At most one action per payment.                                           *)

(* The steps at which a worker holds something ActionInv speaks of.          *)
Busy == Acting \cup {"decide", "confirm"}

(* A step sends nothing, creates no case, and moves workers out of Busy only. *)
Quiet ==
    /\ UNCHANGED <<links, emails>>
    /\ \A p \in Payments : Exists(p)' <=> Exists(p)
    /\ \A p \in paymentLinks' : Exists(p)'
    /\ \A w \in Workers : \/ pc'[w] = pc[w] /\ task'[w] = task[w]
                          \/ pc'[w] \notin Busy

LEMMA QuietStep ==
  ASSUME TypeInv, TypeInv', ActionInv, Quiet
  PROVE  ActionInv'
<1> USE DEF TypeInv, ActionInv
<1>1. \A w \in Workers :
         pc'[w] \in Busy => /\ pc'[w] = pc[w] /\ task'[w] = task[w] /\ pc[w] # "idle"
                            /\ Subject(w)' = Subject(w) /\ Subject(w) \in Payments
  BY MessageType DEF Quiet, Busy, Acting, Subject
<1>2. RowsOfWorkers'
  BY <1>1 DEF RowsOfWorkers, Quiet, Busy
<1>3. SingleFlight'
  BY <1>1 DEF SingleFlight, Busy, Acting
<1>4. NothingSentYet'
  BY <1>1 DEF NothingSentYet, Quiet, Busy, Acting
<1>5. AtMostOneRecoveryAction'
  BY DEF AtMostOneRecoveryAction, Quiet
<1> QED BY <1>2, <1>3, <1>4, <1>5

LEMMA ActionInit == Init => ActionInv
  BY DEF Init, ActionInv, RowsOfWorkers, SingleFlight, NothingSentYet,
         AtMostOneRecoveryAction, Acting, Exists, NoRow

LEMMA ActionStep == TypeInv /\ TypeInv' /\ ActionInv /\ [Next]_vars => ActionInv'
<1> SUFFICES ASSUME TypeInv, TypeInv', ActionInv, [Next]_vars PROVE ActionInv'
  OBVIOUS
<1> USE DEF provider, database, session, vars
<1>1. CASE UNCHANGED vars
  <2>1. Quiet
    BY <1>1 DEF Quiet, Exists, ActionInv, RowsOfWorkers
  <2> QED BY <2>1, QuietStep
<1>2. CASE Provider \/ Api
  <2>1. UNCHANGED <<links, emails, cases, paymentLinks, pc, task>>
    BY <1>2 DEF Provider, Api, AuthorizePayment, CapturePayment, ReceiveWebhook,
                QueueUnavailable
  <2>2. Quiet
    BY <2>1 DEF Quiet, Exists, ActionInv, RowsOfWorkers
  <2> QED BY <2>2, QuietStep
<1>3. ASSUME NEW w \in Workers,
             \/ Deliver(w) \/ LoadEvent(w) \/ SkipProcessed(w) \/ MarkProcessed(w)
             \/ LookupCase(w) \/ InsertConflicts(w) \/ OutcomeConflicts(w)
             \/ RecheckUnavailable(w) \/ DatabaseFails(w) \/ WorkerKilled(w)
             \/ TaskLost(w) \/ Redelivered(w)
      PROVE  ActionInv'
  <2>1. UNCHANGED <<links, emails, cases, paymentLinks>>
    BY <1>3 DEF Deliver, LoadEvent, SkipProcessed, MarkProcessed, LookupCase,
                InsertConflicts, OutcomeConflicts, RecheckUnavailable, DatabaseFails,
                WorkerKilled, TaskLost, Redelivered
  <2>2. \A v \in Workers : \/ pc'[v] = pc[v] /\ task'[v] = task[v]
                           \/ pc'[v] \notin Busy
    BY <1>3 DEF Deliver, LoadEvent, SkipProcessed, MarkProcessed, LookupCase,
                InsertConflicts, OutcomeConflicts, RecheckUnavailable, DatabaseFails,
                WorkerKilled, TaskLost, Redelivered, Retry, EndSession, Goto, Dispatch,
                Busy, Acting, TypeInv, TypeOK
  <2>3. Quiet
    BY <2>1, <2>2 DEF Quiet, Exists, ActionInv, RowsOfWorkers
  <2> QED BY <2>3, QuietStep
<1>4. ASSUME NEW w \in Workers, RecheckPaid(w) \/ CommitAction(w) \/ ConfirmPayment(w)
      PROVE  ActionInv'
  <2>1. PICK p \in Payments : p = Subject(w)
    BY <1>4, MessageType DEF RecheckPaid, CommitAction, ConfirmPayment, TypeInv
  <2>2. Exists(p)
    BY <1>4, <2>1 DEF RecheckPaid, CommitAction, ConfirmPayment, ActionInv, RowsOfWorkers,
                      Acting
  <2>3. PICK row : cases' = [cases EXCEPT ![p] = row] /\ row.state # "NONE"
    <3>1. CASE RecheckPaid(w)
      <4>1. cases' = [cases EXCEPT ![p] = [cases[p] EXCEPT !.already_paid = TRUE]]
        BY <2>1, <3>1 DEF RecheckPaid, PaidRow
      <4>2. [cases[p] EXCEPT !.already_paid = TRUE].state = cases[p].state
        BY DEF TypeInv, TypeOK, CaseRow
      <4> QED BY <2>2, <4>1, <4>2 DEF Exists
    <3>2. CASE CommitAction(w)
      <4>1. cases' = [cases EXCEPT ![p] = UpdatedRow(w)]
        BY <2>1, <3>2 DEF CommitAction
      <4>2. UpdatedRow(w).state = "WAITING_FOR_OUTCOME"
        BY <2>1 DEF UpdatedRow, TypeInv, TypeOK, CaseRow
      <4> QED BY <4>1, <4>2
    <3>3. CASE ConfirmPayment(w)
      <4> DEFINE recovered == [state |-> "RECOVERED", already_paid |-> TRUE]
      <4>1. cases' = [cases EXCEPT ![p] = recovered]
        BY <2>1, <3>3 DEF ConfirmPayment
      <4>2. recovered.state # "NONE"
        OBVIOUS
      <4> HIDE DEF recovered
      <4> QED BY <4>1, <4>2
    <3> QED BY <1>4, <3>1, <3>2, <3>3
  <2>4. \A q \in paymentLinks' : q \in paymentLinks \/ q = p
    BY <1>4, <2>1 DEF RecheckPaid, CommitAction, ConfirmPayment
  <2>5. \A v \in Workers : \/ pc'[v] = pc[v] /\ task'[v] = task[v]
                           \/ pc'[v] \notin Busy
    BY <1>4 DEF RecheckPaid, CommitAction, ConfirmPayment, Goto, Busy, Acting, TypeInv,
                TypeOK
  <2>6. UNCHANGED <<links, emails>>
    BY <1>4 DEF RecheckPaid, CommitAction, ConfirmPayment
  <2>7. Quiet
    <3>1. \A q \in Payments : Exists(q)' <=> Exists(q)
      BY <2>2, <2>3 DEF Exists, TypeInv, TypeOK
    <3>2. \A q \in paymentLinks' : Exists(q)'
      BY <2>2, <2>4, <3>1 DEF ActionInv, RowsOfWorkers, TypeInv, TypeOK
    <3> QED BY <2>5, <2>6, <3>1, <3>2 DEF Quiet
  <2> QED BY <2>7, QuietStep
<1>5. ASSUME NEW w \in Workers, InsertCase(w)
      PROVE  ActionInv'
  <2>1. pc[w] = "insert_case" /\ ~Exists(Subject(w)) /\ ~Blocked(w)
    BY <1>5 DEF InsertCase, KeyTaken
  <2>2. /\ pc' = [pc EXCEPT ![w] = "decide"]
        /\ UNCHANGED <<links, emails, cases, paymentLinks, task>>
    BY <1>5 DEF InsertCase, Goto
  <2>3. \A v \in Workers : Subject(v)' = Subject(v)
    BY <2>2 DEF Subject
  <2>4. \A p \in Payments : Exists(p)' = Exists(p)
    BY <2>2 DEF Exists
  <2>5. \A v \in Workers \ {w} : pc[v] = "decide" => Subject(v) # Subject(w)
    BY <2>1 DEF Blocked
  <2>6. Subject(w) \in Payments
    BY <2>1, MessageType DEF TypeInv
  <2>7. RowsOfWorkers'
    BY <2>1, <2>2, <2>3 DEF ActionInv, RowsOfWorkers, Exists, Acting, TypeInv, TypeOK
  <2>8. SingleFlight'
    BY <2>2, <2>3, <2>5 DEF ActionInv, SingleFlight, Acting, TypeInv, TypeOK
  <2>9. NothingSentYet' /\ AtMostOneRecoveryAction'
    BY <2>2, <2>3, <2>4 DEF ActionInv, NothingSentYet, AtMostOneRecoveryAction, TypeInv,
       TypeOK
  <2> QED BY <2>7, <2>8, <2>9 DEF ActionInv
<1>6. ASSUME NEW w \in Workers, Decide(w)
      PROVE  ActionInv'
  <2>1. PICK rec \in Recommendations(Subject(w)) :
               DecideAs(w, Subject(w), rec, Authorizes(Subject(w), rec))
    BY <1>6 DEF Decide
  <2>p. PICK p \in Payments : p = Subject(w)
    BY <1>6, MessageType DEF Decide, TypeInv
  <2>2. pc[w] = "decide" /\ ~Exists(p)
    BY <1>6, <2>p DEF Decide, ActionInv, RowsOfWorkers
  <2>3. /\ UNCHANGED <<links, emails, paymentLinks, task>>
        /\ pc'[w] \in {"recheck", "mark_processed"}
        /\ \A v \in Workers \ {w} : pc'[v] = pc[v]
        /\ Exists(p)'
        /\ \A q \in Payments \ {p} : cases'[q] = cases[q]
    <3>1. UNCHANGED <<links, emails, paymentLinks, task>>
      BY <1>6 DEF Decide
    <3>2. \E row : row.state # "NONE" /\ cases' = [cases EXCEPT ![p] = row]
      BY <2>1, <2>p DEF DecideAs, FinalState
    <3>3. /\ pc'[w] \in {"recheck", "mark_processed"}
          /\ \A v \in Workers \ {w} : pc'[v] = pc[v]
      BY <2>1 DEF DecideAs, Goto, TypeInv, TypeOK
    <3> QED BY <3>1, <3>2, <3>3 DEF Exists, TypeInv, TypeOK
  <2>4. \A v \in Workers : Subject(v)' = Subject(v)
    BY <2>3 DEF Subject
  <2>5. \A v \in Workers \ {w} :
           pc[v] \in Busy => /\ Subject(v) \in Payments
                             /\ Subject(v) # p
    <3> SUFFICES ASSUME NEW v \in Workers \ {w}, pc[v] \in Busy
                 PROVE  Subject(v) \in Payments /\ Subject(v) # p
      OBVIOUS
    <3>1. Subject(v) \in Payments
      BY MessageType DEF Busy, Acting, TypeInv
    <3>2. CASE pc[v] = "decide"
      BY <2>p, <2>2, <3>1, <3>2, NoneIsNoMessage DEF ActionInv, SingleFlight, TypeInv, TypeOK
    <3>3. CASE pc[v] # "decide"
      BY <2>2, <3>1, <3>3 DEF ActionInv, RowsOfWorkers, Busy
    <3> QED BY <3>1, <3>2, <3>3
  <2>6. RowsOfWorkers'
    <3>1. \A q \in paymentLinks' : Exists(q)'
      BY <2>2, <2>3 DEF ActionInv, RowsOfWorkers, Exists, TypeInv, TypeOK
    <3>2. /\ pc'[w] # "decide" /\ pc'[w] # "confirm"
          /\ Subject(w)' = p
      BY <2>p, <2>3, <2>4
    <3>3. ASSUME NEW v \in Workers \ {w}
          PROVE  /\ pc'[v] = "decide" => ~Exists(Subject(v))'
                 /\ pc'[v] \in Acting \cup {"confirm"} => Exists(Subject(v))'
      <4>1. Subject(v)' = Subject(v) /\ pc'[v] = pc[v]
        BY <2>3, <2>4
      <4>2. pc[v] \in Busy => cases'[Subject(v)] = cases[Subject(v)]
        BY <2>3, <2>5
      <4> QED BY <4>1, <4>2 DEF ActionInv, RowsOfWorkers, Exists, Busy
    <3>4. pc'[w] \in Acting \cup {"confirm"} => Exists(Subject(w))'
      BY <2>3, <3>2 DEF Exists
    <3> QED BY <3>1, <3>2, <3>3, <3>4 DEF RowsOfWorkers
  <2>7. SingleFlight'
    BY <2>p, <2>2, <2>3, <2>4, <2>5 DEF ActionInv, SingleFlight, Busy, Acting
  <2>8. NothingSentYet'
    BY <2>p, <2>2, <2>3, <2>4, <2>5 DEF ActionInv, NothingSentYet, Exists, Busy, Acting
  <2>9. AtMostOneRecoveryAction'
    BY <2>3 DEF ActionInv, AtMostOneRecoveryAction
  <2> QED BY <2>6, <2>7, <2>8, <2>9 DEF ActionInv
<1>7. ASSUME NEW w \in Workers, RecheckClear(w) \/ FindCase(w)
      PROVE  ActionInv'
  <2>1. pc[w] \in {"recheck", "find_case"} /\ Subject(w) \in Payments
    BY <1>7, MessageType DEF RecheckClear, FindCase, TypeInv
  <2>2. /\ UNCHANGED <<links, emails, cases, paymentLinks, task>>
        /\ \A v \in Workers \ {w} : pc'[v] = pc[v]
        /\ pc[w] = "recheck" => pc'[w] = "act"
        /\ pc[w] = "find_case" =>
              \/ pc'[w] = "mark_processed"
              \/ pc'[w] = "confirm" /\ Resolves(Event(w))
    BY <1>7 DEF RecheckClear, FindCase, Goto, TypeInv, TypeOK
  <2>3. \A v \in Workers : Subject(v)' = Subject(v)
    BY <2>2 DEF Subject
  <2>4. Resolves(Event(w)) => Exists(Subject(w))
    BY DEF Resolves, Event, Subject, ActionInv, RowsOfWorkers
  <2>5. RowsOfWorkers'
    BY <2>1, <2>2, <2>3, <2>4 DEF ActionInv, RowsOfWorkers, Exists, Acting
  <2>6. SingleFlight'
    BY <2>1, <2>2, <2>3 DEF ActionInv, SingleFlight, Acting
  <2>7. NothingSentYet' /\ AtMostOneRecoveryAction'
    BY <2>1, <2>2, <2>3 DEF ActionInv, NothingSentYet, AtMostOneRecoveryAction, Exists
  <2> QED BY <2>5, <2>6, <2>7 DEF ActionInv
<1>8. ASSUME NEW w \in Workers, Act(w) \/ ActionFails(w)
      PROVE  ActionInv'
  <2> DEFINE p == Subject(w)
  <2>1. pc[w] \in {"act", "commit_action"} /\ p \in Payments /\ Exists(p)
    BY <1>8, MessageType DEF Act, ActionFails, TypeInv, ActionInv, RowsOfWorkers, Acting
  <2>2. /\ UNCHANGED <<cases, paymentLinks>>
        /\ \A v \in Workers \ {w} : pc'[v] = pc[v] /\ task'[v] = task[v]
        /\ \/ pc'[w] = "commit_action" /\ task'[w] = task[w]
           \/ pc'[w] = "idle"
    BY <1>8 DEF Act, ActionFails, Goto, Retry, EndSession, TypeInv, TypeOK
  <2>3. /\ \A q \in Payments \ {p} : links'[q] = links[q] /\ emails'[q] = emails[q]
        /\ links'[p] + emails'[p] <= 1
    <3>1. CASE UNCHANGED <<links, emails>>
      BY <2>1, <3>1 DEF ActionInv, AtMostOneRecoveryAction
    <3>2. CASE pc[w] = "act" /\ Effect(w)
      <4>1. links[p] = 0 /\ emails[p] = 0
        BY <3>2 DEF ActionInv, NothingSentYet
      <4> QED BY <2>1, <3>2, <4>1 DEF Effect, TypeInv, TypeOK
    <3> QED BY <1>8, <3>1, <3>2 DEF Act, ActionFails
  <2>4. \A v \in Workers \ {w} :
           Subject(v)' = Subject(v) /\ (pc[v] \in Acting => Subject(v) # p)
    BY <2>1, <2>2 DEF Subject, ActionInv, SingleFlight, Acting, TypeInv, TypeOK
  <2>5. pc'[w] = "commit_action" => Subject(w)' = p
    BY <2>2 DEF Subject
  <2>6. \A v \in Workers \ {w} : pc[v] \in Acting => Subject(v) \in Payments
    BY MessageType DEF Acting, TypeInv
  <2>7. RowsOfWorkers'
    BY <2>1, <2>2, <2>4, <2>5 DEF ActionInv, RowsOfWorkers, Exists, Acting
  <2>8. SingleFlight'
    <3>1. \A v \in Workers \ {w} : pc'[v] \in Acting => Subject(v)' # p
      BY <2>2, <2>4
    <3>2. pc'[w] # "decide"
      BY <2>2
    <3>3. pc'[w] \in Acting => Subject(w)' = p
      BY <2>2, <2>5 DEF Acting
    <3>4. \A v \in Workers \ {w} :
             /\ pc'[v] = pc[v] /\ task'[v] = task[v] /\ Subject(v)' = Subject(v)
      BY <2>2, <2>4
    <3> QED BY <3>1, <3>2, <3>3, <3>4 DEF ActionInv, SingleFlight
  <2>9. NothingSentYet'
    BY <2>1, <2>2, <2>3, <2>4, <2>6 DEF ActionInv, NothingSentYet, Exists, Acting
  <2>10. AtMostOneRecoveryAction'
    BY <2>3 DEF ActionInv, AtMostOneRecoveryAction
  <2> QED BY <2>7, <2>8, <2>9, <2>10 DEF ActionInv
<1> QED
  BY <1>1, <1>2, <1>3, <1>4, <1>5, <1>6, <1>7, <1>8 DEF Next, WorkerStep, WorkerFault

(* Every customer gets at most one link or message for a failed payment.     *)
THEOREM OneActionPerPayment == Spec => []AtMostOneRecoveryAction
<1>1. Spec => [](TypeInv /\ ActionInv)
  BY TypeInit, TypeStep, ActionInit, ActionStep, PTL DEF Spec
<1>2. ActionInv => AtMostOneRecoveryAction
  BY DEF ActionInv
<1> QED BY <1>1, <1>2, PTL
-----------------------------------------------------------------------------
(* Every action is the one a committed decision authorizes.                  *)

(* What an allowing policy evaluation establishes.                           *)
LEMMA AuthorizesImplies ==
  ASSUME NEW p \in Payments, NEW rec, Authorizes(p, rec)
  PROVE  /\ Amount[p] <= DefaultPolicy.max_auto_action_amount_minor
         /\ rec.action = "SEND_RECOVERY_MESSAGE" => SmtpAvailable
<1> DEFINE checks == PolicyChecks(CaseFacts(p), RecoveryCustomer, rec, DefaultPolicy,
                                  PaymentLinkCount(p), SmtpAvailable)
<1>1. \A name \in DOMAIN checks : checks[name]
  BY DEF Authorizes, Evaluate
<1>2. checks.AMOUNT_WITHIN_LIMIT /\ checks.CHANNEL_AVAILABLE
  BY <1>1 DEF PolicyChecks
<1> QED BY <1>2 DEF PolicyChecks, CaseFacts

DecisionInv == CommandIsDecided /\ ActionWasAuthorized

LEMMA DecisionInit == Init => DecisionInv
  BY DEF Init, DecisionInv, CommandIsDecided, ActionWasAuthorized, Acting

(* How the row and the decision of a case may change in a step.              *)
RowKept(p)      == cases'[p] = cases[p]
RowPaid(p)      == /\ \E w \in Workers : RecheckPaid(w) /\ Subject(w) = p
                   /\ cases'[p] = [cases[p] EXCEPT !.already_paid = TRUE]
RowWaiting(p)   == /\ \E w \in Workers : CommitAction(w) /\ Subject(w) = p
                   /\ cases'[p] = [cases[p] EXCEPT !.state = "WAITING_FOR_OUTCOME"]
RowRecovered(p) == /\ \E w \in Workers : ConfirmPayment(w) /\ Subject(w) = p
                   /\ cases'[p] = [state |-> "RECOVERED", already_paid |-> TRUE]
DecidedNow(p)   == /\ \E w \in Workers : Decide(w) /\ Subject(w) = p
                   /\ \E s \in {"AUTHORIZED", "NEEDS_REVIEW"} :
                         cases'[p] = [state |-> s, already_paid |-> FALSE]

LEMMA CaseChange ==
  ASSUME TypeInv, [Next]_vars, NEW p \in Payments
  PROVE  \/ /\ decisions'[p] = decisions[p]
            /\ RowKept(p) \/ RowPaid(p) \/ RowWaiting(p) \/ RowRecovered(p)
         \/ DecidedNow(p)
<1> USE DEF provider, database, session, vars
<1>1. cases \in [Payments -> CaseRow] /\ decisions \in [Payments -> Decision]
  BY DEF TypeInv, TypeOK
<1>2. ASSUME NEW w \in Workers, Decide(w)
      PROVE  (RowKept(p) /\ decisions'[p] = decisions[p]) \/ DecidedNow(p)
  <2>1. PICK rec \in Recommendations(Subject(w)) :
               DecideAs(w, Subject(w), rec, Authorizes(Subject(w), rec))
    BY <1>2 DEF Decide
  <2>2. PICK s \in {"AUTHORIZED", "NEEDS_REVIEW"} :
               cases' = [cases EXCEPT ![Subject(w)] = [state |-> s, already_paid |-> FALSE]]
    BY <2>1 DEF DecideAs, FinalState
  <2>3. CASE Subject(w) = p
    BY <1>1, <1>2, <2>2, <2>3 DEF DecidedNow
  <2>4. CASE Subject(w) # p
    BY <1>1, <2>1, <2>4 DEF DecideAs, RowKept
  <2> QED BY <2>3, <2>4
<1>3. ASSUME NEW w \in Workers, RecheckPaid(w)
      PROVE  (RowKept(p) \/ RowPaid(p)) /\ decisions' = decisions
  BY <1>1, <1>3 DEF RecheckPaid, PaidRow, RowKept, RowPaid
<1>4. ASSUME NEW w \in Workers, CommitAction(w)
      PROVE  (RowKept(p) \/ RowWaiting(p)) /\ decisions' = decisions
  BY <1>1, <1>4 DEF CommitAction, UpdatedRow, RowKept, RowWaiting
<1>5. ASSUME NEW w \in Workers, ConfirmPayment(w)
      PROVE  (RowKept(p) \/ RowRecovered(p)) /\ decisions' = decisions
  BY <1>1, <1>5 DEF ConfirmPayment, RowKept, RowRecovered
<1>6. CASE UNCHANGED <<cases, decisions>>
  BY <1>6 DEF RowKept
<1> QED
  BY <1>2, <1>3, <1>4, <1>5, <1>6
  DEF Next, Provider, Api, WorkerStep, WorkerFault, AuthorizePayment, CapturePayment,
      ReceiveWebhook, QueueUnavailable, Deliver, LoadEvent, SkipProcessed, MarkProcessed,
      LookupCase, InsertCase, InsertConflicts, RecheckClear, RecheckUnavailable, Act,
      ActionFails, FindCase, OutcomeConflicts, DatabaseFails, WorkerKilled, TaskLost,
      Redelivered

(* Once decided, a case keeps its row and its decision.                      *)
LEMMA DecisionKept ==
  ASSUME TypeInv, ActionInv, [Next]_vars, NEW p \in Payments, Exists(p)
  PROVE  cases'[p].state # "NONE" /\ decisions'[p] = decisions[p]
<1>1. ~DecidedNow(p)
  BY DEF DecidedNow, Decide, ActionInv, RowsOfWorkers
<1>2. cases[p] \in CaseRow
  BY DEF TypeInv, TypeOK
<1>3. CASE RowKept(p) \/ RowRecovered(p)
  BY <1>1, <1>3, CaseChange DEF RowKept, RowRecovered, Exists
<1>4. CASE RowPaid(p) \/ RowWaiting(p)
  BY <1>1, <1>2, <1>4, CaseChange DEF RowPaid, RowWaiting, Exists, CaseRow
<1> QED BY <1>1, <1>3, <1>4, CaseChange

(* A link or message is new only where the command of an executor asks for it. *)
LEMMA EffectsOfCommands ==
  ASSUME TypeInv, [Next]_vars, NEW p \in Payments
  PROVE  \/ links'[p] = links[p] /\ emails'[p] = emails[p]
         \/ \E w \in Workers :
               /\ pc[w] = "act" /\ Subject(w) = p
               /\ links'[p] # links[p] => cmd[w] = "CREATE_PAYMENT_LINK"
               /\ emails'[p] # emails[p] => cmd[w] = "SEND_RECOVERY_MESSAGE"
<1> USE DEF provider, database, session, vars
<1>1. ASSUME NEW w \in Workers, pc[w] = "act", Effect(w)
      PROVE  \/ links'[p] = links[p] /\ emails'[p] = emails[p]
             \/ /\ Subject(w) = p
                /\ links'[p] # links[p] => cmd[w] = "CREATE_PAYMENT_LINK"
                /\ emails'[p] # emails[p] => cmd[w] = "SEND_RECOVERY_MESSAGE"
  BY <1>1 DEF Effect, TypeInv, TypeOK
<1>2. CASE UNCHANGED <<links, emails>>
  BY <1>2
<1>3. ASSUME NEW w \in Workers, Act(w) \/ ActionFails(w)
      PROVE  (pc[w] = "act" /\ Effect(w)) \/ UNCHANGED <<links, emails>>
  BY <1>3 DEF Act, ActionFails
<1>4. (\E w \in Workers : Act(w) \/ ActionFails(w)) \/ UNCHANGED <<links, emails>>
  BY DEF Next, Provider, Api, WorkerStep, WorkerFault, AuthorizePayment, CapturePayment,
      ReceiveWebhook, QueueUnavailable, Deliver, LoadEvent, SkipProcessed, MarkProcessed,
      LookupCase, InsertCase, InsertConflicts, Decide, RecheckClear, RecheckPaid,
      RecheckUnavailable, CommitAction, FindCase, ConfirmPayment, OutcomeConflicts,
      DatabaseFails, WorkerKilled, TaskLost, Redelivered
<1> QED BY <1>1, <1>2, <1>3, <1>4

(* A worker inside execute got there with the command it has, or has just    *)
(* committed the decision.                                                   *)
LEMMA ActingStep ==
  ASSUME TypeInv, [Next]_vars, NEW w \in Workers, pc'[w] \in Acting
  PROVE  \/ pc[w] \in Acting /\ task'[w] = task[w] /\ cmd'[w] = cmd[w]
         \/ Decide(w)
<1> USE DEF provider, database, session, vars
<1>1. CASE UNCHANGED <<pc, task, cmd>>
  BY <1>1
<1>2. ASSUME NEW v \in Workers,
             \/ Deliver(v) \/ LoadEvent(v) \/ SkipProcessed(v) \/ MarkProcessed(v)
             \/ LookupCase(v) \/ InsertCase(v) \/ InsertConflicts(v)
             \/ RecheckClear(v) \/ RecheckPaid(v) \/ Act(v) \/ CommitAction(v)
             \/ FindCase(v) \/ ConfirmPayment(v) \/ OutcomeConflicts(v)
             \/ WorkerFault(v)
      PROVE  pc[w] \in Acting /\ task'[w] = task[w] /\ cmd'[w] = cmd[w]
  BY <1>2
  DEF Deliver, LoadEvent, SkipProcessed, MarkProcessed, LookupCase, InsertCase,
      InsertConflicts, RecheckClear, RecheckPaid, RecheckUnavailable, Act, CommitAction,
      ActionFails, FindCase, ConfirmPayment, OutcomeConflicts, DatabaseFails,
      WorkerKilled, TaskLost, Redelivered, Retry, EndSession, Goto, Dispatch, WorkerFault,
      Acting, TypeInv, TypeOK
<1>3. ASSUME NEW v \in Workers \ {w}, Decide(v)
      PROVE  pc[w] \in Acting /\ task'[w] = task[w] /\ cmd'[w] = cmd[w]
  BY <1>3 DEF Decide, DecideAs, Goto, TypeInv, TypeOK
<1>4. CASE Provider \/ Api
  BY <1>1, <1>4 DEF Provider, Api, AuthorizePayment, CapturePayment, ReceiveWebhook,
                    QueueUnavailable
<1> QED BY <1>1, <1>2, <1>3, <1>4 DEF Next, WorkerStep

LEMMA DecisionStep ==
  TypeInv /\ TypeInv' /\ ActionInv /\ DecisionInv /\ [Next]_vars => DecisionInv'
<1> SUFFICES ASSUME TypeInv, TypeInv', ActionInv, DecisionInv, [Next]_vars
             PROVE  DecisionInv'
  OBVIOUS
<1>1. CommandIsDecided'
  <2> SUFFICES ASSUME NEW w \in Workers, pc'[w] \in Acting
               PROVE  /\ decisions'[task'[w].event.of] = [action |-> cmd'[w], allowed |-> TRUE]
                      /\ Amount[task'[w].event.of]
                            <= DefaultPolicy.max_auto_action_amount_minor
                      /\ cmd'[w] = "SEND_RECOVERY_MESSAGE" => SmtpAvailable
    BY DEF CommandIsDecided, Subject
  <2>1. CASE pc[w] \in Acting /\ task'[w] = task[w] /\ cmd'[w] = cmd[w]
    <3>1. Subject(w) \in Payments /\ Exists(Subject(w))
      BY <2>1, MessageType DEF TypeInv, Acting, ActionInv, RowsOfWorkers
    <3> QED BY <2>1, <3>1, DecisionKept DEF DecisionInv, CommandIsDecided, Subject
  <2>2. CASE Decide(w)
    <3>1. PICK rec \in Recommendations(Subject(w)) :
                 DecideAs(w, Subject(w), rec, Authorizes(Subject(w), rec))
      BY <2>2 DEF Decide
    <3>2. Subject(w) \in Payments /\ task'[w].event.of = Subject(w)
      BY <2>2, MessageType DEF Decide, TypeInv, Subject
    <3>3. Executes(Subject(w), rec.action, Authorizes(Subject(w), rec))
      BY <3>1 DEF DecideAs, Goto, TypeInv, TypeOK, Acting
    <3>4. Authorizes(Subject(w), rec)
      BY <3>3 DEF Executes
    <3>5. /\ decisions'[Subject(w)] =
                [action |-> rec.action, allowed |-> Authorizes(Subject(w), rec)]
          /\ cmd'[w] = rec.action
      BY <3>1, <3>2 DEF DecideAs, FinalState, TypeInv, TypeOK
    <3>6. decisions'[Subject(w)] = [action |-> rec.action, allowed |-> TRUE]
      BY <3>4, <3>5
    <3> QED BY <3>2, <3>4, <3>5, <3>6, AuthorizesImplies
  <2> QED BY <2>1, <2>2, ActingStep
<1>2. ActionWasAuthorized'
  <2> SUFFICES ASSUME NEW p \in Payments
               PROVE  /\ links'[p] + emails'[p] > 0 =>
                            /\ cases'[p].state # "NONE" /\ decisions'[p].allowed
                            /\ Amount[p] <= DefaultPolicy.max_auto_action_amount_minor
                      /\ links'[p] > 0 => decisions'[p].action = "CREATE_PAYMENT_LINK"
                      /\ emails'[p] > 0 => /\ decisions'[p].action = "SEND_RECOVERY_MESSAGE"
                                           /\ SmtpAvailable
    BY DEF ActionWasAuthorized, Exists
  <2>1. CASE links'[p] = links[p] /\ emails'[p] = emails[p]
    <3>1. CASE Exists(p)
      BY <2>1, <3>1, DecisionKept DEF DecisionInv, ActionWasAuthorized
    <3>2. CASE ~Exists(p)
      BY <2>1, <3>2 DEF ActionInv, NothingSentYet
    <3> QED BY <3>1, <3>2
  <2>2. ASSUME NEW w \in Workers, pc[w] = "act", Subject(w) = p,
               links'[p] # links[p] => cmd[w] = "CREATE_PAYMENT_LINK",
               emails'[p] # emails[p] => cmd[w] = "SEND_RECOVERY_MESSAGE"
        PROVE  /\ cases'[p].state # "NONE" /\ decisions'[p].allowed
               /\ Amount[p] <= DefaultPolicy.max_auto_action_amount_minor
               /\ links'[p] > 0 => decisions'[p].action = "CREATE_PAYMENT_LINK"
               /\ emails'[p] > 0 => /\ decisions'[p].action = "SEND_RECOVERY_MESSAGE"
                                    /\ SmtpAvailable
    <3>1. Exists(p) /\ links[p] = 0 /\ emails[p] = 0
      BY <2>2 DEF ActionInv, RowsOfWorkers, NothingSentYet, Acting
    <3>2. decisions'[p] = [action |-> cmd[w], allowed |-> TRUE]
      BY <2>2, <3>1, DecisionKept DEF DecisionInv, CommandIsDecided, Acting
    <3> QED BY <2>2, <3>1, <3>2, DecisionKept
      DEF DecisionInv, CommandIsDecided, Acting
  <2> QED BY <2>1, <2>2, EffectsOfCommands
<1> QED BY <1>1, <1>2 DEF DecisionInv

(* Every link and message is explained by a committed, allowing decision for *)
(* that very action, within the amount limit and over an available channel.  *)
THEOREM ActionsAreAuthorized == Spec => []ActionWasAuthorized
<1>1. Spec => [](TypeInv /\ ActionInv /\ DecisionInv)
  BY TypeInit, TypeStep, ActionInit, ActionStep, DecisionInit, DecisionStep, PTL DEF Spec
<1>2. DecisionInv => ActionWasAuthorized
  BY DEF DecisionInv
<1> QED BY <1>1, <1>2, PTL
-----------------------------------------------------------------------------
(* What is known to be paid.                                                 *)

LEMMA AbsentInit == Init => AbsentRows
  BY DEF Init, AbsentRows, NoRow

LEMMA AbsentStep == TypeInv /\ ActionInv /\ AbsentRows /\ [Next]_vars => AbsentRows'
<1> SUFFICES ASSUME TypeInv, ActionInv, AbsentRows, [Next]_vars,
                    NEW p \in Payments, cases'[p].state = "NONE"
             PROVE  ~cases'[p].already_paid
  BY DEF AbsentRows, Exists
<1>1. ~Exists(p) /\ cases[p] \in CaseRow
  BY DecisionKept DEF TypeInv, TypeOK
<1>2. ~RowPaid(p)
  BY <1>1 DEF RowPaid, RecheckPaid, ActionInv, RowsOfWorkers, Acting
<1>3. ~RowRecovered(p) /\ ~DecidedNow(p)
  BY DEF RowRecovered, DecidedNow
<1>4. CASE RowKept(p) \/ RowWaiting(p)
  BY <1>1, <1>4 DEF RowKept, RowWaiting, AbsentRows, CaseRow
<1> QED BY <1>2, <1>3, <1>4, CaseChange

LEMMA PaidStep ==
  ASSUME TypeInv, ActionInv, AbsentRows, [Next]_vars,
         NEW p \in Payments, cases[p].already_paid
  PROVE  cases'[p].already_paid
<1>1. Exists(p) /\ cases[p] \in CaseRow
  BY DEF AbsentRows, TypeInv, TypeOK
<1>2. ~DecidedNow(p)
  BY <1>1 DEF DecidedNow, Decide, ActionInv, RowsOfWorkers
<1>3. RowKept(p) \/ RowPaid(p) \/ RowWaiting(p) \/ RowRecovered(p)
  BY <1>2, CaseChange
<1>4. CASE RowKept(p) \/ RowRecovered(p)
  BY <1>4 DEF RowKept, RowRecovered
<1>5. CASE RowPaid(p) \/ RowWaiting(p)
  BY <1>1, <1>5 DEF RowPaid, RowWaiting, CaseRow
<1> QED BY <1>3, <1>4, <1>5

(* No step, not even the commit of a session that read the case before it    *)
(* was paid, takes the paid flag back.                                       *)
THEOREM PaidIsKept == Spec => PaidStaysPaid
<1>1. TypeInv /\ ActionInv /\ AbsentRows /\ [Next]_vars
         => [\A p \in Payments : cases[p].already_paid => cases'[p].already_paid]_vars
  BY PaidStep
<1>2. Spec => [](TypeInv /\ ActionInv /\ AbsentRows)
  BY TypeInit, TypeStep, ActionInit, ActionStep, AbsentInit, AbsentStep, PTL DEF Spec
<1>3. Spec => [][\A p \in Payments : cases[p].already_paid => cases'[p].already_paid]_vars
  BY <1>1, <1>2, PTL DEF Spec
<1> QED BY <1>3 DEF PaidStaysPaid

(* The recheck is the only way to the action.                                *)
LEMMA ActStep ==
  ASSUME TypeInv, [Next]_vars, NEW w \in Workers, pc'[w] = "act"
  PROVE  task'[w] = task[w] /\ (pc[w] = "act" \/ RecheckClear(w))
<1> USE DEF provider, database, session, vars
<1>1. CASE UNCHANGED <<pc, task>>
  BY <1>1
<1>2. ASSUME NEW v \in Workers,
             \/ Deliver(v) \/ LoadEvent(v) \/ SkipProcessed(v) \/ MarkProcessed(v)
             \/ LookupCase(v) \/ InsertCase(v) \/ InsertConflicts(v)
             \/ RecheckClear(v) \/ RecheckPaid(v) \/ Act(v) \/ CommitAction(v)
             \/ FindCase(v) \/ ConfirmPayment(v) \/ OutcomeConflicts(v)
             \/ WorkerFault(v)
      PROVE  task'[w] = task[w] /\ (pc[w] = "act" \/ RecheckClear(w))
  BY <1>2
  DEF Deliver, LoadEvent, SkipProcessed, MarkProcessed, LookupCase, InsertCase,
      InsertConflicts, RecheckClear, RecheckPaid, RecheckUnavailable, Act, CommitAction,
      ActionFails, FindCase, ConfirmPayment, OutcomeConflicts, DatabaseFails,
      WorkerKilled, TaskLost, Redelivered, Retry, EndSession, Goto, Dispatch, WorkerFault,
      TypeInv, TypeOK
<1>3. ASSUME NEW v \in Workers, Decide(v)
      PROVE  task'[w] = task[w] /\ pc[w] = "act"
  BY <1>3 DEF Decide, DecideAs, Goto, TypeInv, TypeOK
<1>4. CASE Provider \/ Api
  BY <1>1, <1>4 DEF Provider, Api, AuthorizePayment, CapturePayment, ReceiveWebhook,
                    QueueUnavailable
<1> QED BY <1>1, <1>2, <1>3, <1>4 DEF Next, WorkerStep

(* Once the failed payment is paid at the provider and no executor is past   *)
(* its recheck, no link or message follows.                                  *)
THEOREM PaidIsNotChased == Spec => PaidPaymentIsNotChased
<1>1. ASSUME TypeInv, [Next]_vars, NEW p \in Payments,
             payments[Original(p)] \in Paid, ~PastRecheck(p)
      PROVE  links'[p] = links[p] /\ emails'[p] = emails[p] /\ ~PastRecheck(p)'
  <2>1. links'[p] = links[p] /\ emails'[p] = emails[p]
    BY <1>1, EffectsOfCommands DEF PastRecheck
  <2>2. ASSUME NEW w \in Workers, pc'[w] = "act", task'[w].event.of = p
        PROVE  FALSE
    <3>1. Subject(w) = p /\ (pc[w] = "act" \/ RecheckClear(w))
      BY <1>1, <2>2, ActStep DEF Subject
    <3>2. ~RecheckClear(w)
      BY <1>1, <3>1 DEF RecheckClear, KnownPaid
    <3> QED BY <1>1, <3>1, <3>2 DEF PastRecheck
  <2> QED BY <2>1, <2>2 DEF PastRecheck, Subject
<1>2. TypeInv /\ [Next]_vars
         => [\A p \in Payments :
                payments[Original(p)] \in Paid /\ ~PastRecheck(p)
                   => links'[p] = links[p] /\ emails'[p] = emails[p] /\ ~PastRecheck(p)']_vars
  BY <1>1
<1>3. Spec => []TypeInv
  BY TypeInit, TypeStep, PTL DEF Spec
<1>4. Spec => [][\A p \in Payments :
                payments[Original(p)] \in Paid /\ ~PastRecheck(p)
                   => links'[p] = links[p] /\ emails'[p] = emails[p] /\ ~PastRecheck(p)']_vars
  BY <1>2, <1>3, PTL DEF Spec
<1> QED BY <1>4 DEF PaidPaymentIsNotChased
=============================================================================
