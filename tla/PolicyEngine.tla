---------------------------- MODULE PolicyEngine ----------------------------
(***************************************************************************)
(* The pure functions a case runs through between its detection and its    *)
(* authorization: failure classification (services/normalization), the     *)
(* diagnosis (services/diagnosis), the deterministic recommendation that   *)
(* stands in for the language model (services/agent) and the policy check  *)
(* (services/policy/engine.py).                                            *)
(*                                                                         *)
(* Confidences are percentages (0.65 is 65); amounts are minor units.      *)
(*                                                                         *)
(* A case is a record [state, already_paid, disputed, amount_minor,        *)
(* previous_attempts, failure_category, case_type], a customer a record    *)
(* [opted_out, prior_success_count], a recommendation a record             *)
(* [action, confidence].                                                   *)
(***************************************************************************)
EXTENDS CaseStateMachine

Percent == 0 .. 100

(* ERROR_MAP, then the UPI rule, then UNKNOWN_FAILURE. *)
ErrorMap ==
    [BAD_REQUEST_ERROR            |-> "AUTHORIZATION_FAILURE",
     GATEWAY_ERROR                |-> "TRANSIENT_PROVIDER_FAILURE",
     NETWORK_ERROR                |-> "NETWORK_FAILURE",
     PAYMENT_CANCELLED            |-> "CUSTOMER_ACTION_REQUIRED",
     PAYMENT_METHOD_NOT_SUPPORTED |-> "PAYMENT_METHOD_FAILURE"]

ClassifyFailure(error, status, method) ==
    IF error \in DOMAIN ErrorMap THEN ErrorMap[error]
    ELSE IF status = "failed" /\ method = "upi" THEN "AUTHORIZATION_FAILURE"
    ELSE "UNKNOWN_FAILURE"

(* diagnose: how sure the diagnosis is, and whether a fact is missing. *)
DiagnosisConfidence(case, customer) ==
    CASE case.failure_category = "TRANSIENT_PROVIDER_FAILURE" -> 76
      [] case.failure_category = "AUTHORIZATION_FAILURE"
         /\ customer.prior_success_count > 0                  -> 91
      [] case.failure_category \in {"DATA_INCONSISTENCY", "UNKNOWN_FAILURE"} -> 45
      [] OTHER                                                -> 68

Diagnose(case, customer) ==
    [classification |-> case.failure_category,
     confidence     |-> DiagnosisConfidence(case, customer),
     missing_data   |-> case.amount_minor = 0]

(* deterministic_recommendation: the first rule that applies decides. *)
DeterministicAction(case, customer, diagnosis) ==
    IF case.already_paid THEN "NO_ACTION"
    ELSE IF case.disputed \/ customer.opted_out THEN "ESCALATE_TO_HUMAN"
    ELSE IF diagnosis.missing_data \/ diagnosis.confidence < 65 THEN "ESCALATE_TO_HUMAN"
    ELSE IF diagnosis.classification = "TRANSIENT_PROVIDER_FAILURE" THEN "WAIT"
    ELSE IF case.case_type = "OVERDUE_RECEIVABLE" THEN "SEND_RECOVERY_MESSAGE"
    ELSE IF diagnosis.classification = "AUTHORIZATION_FAILURE"
            /\ case.previous_attempts = 0 THEN "CREATE_PAYMENT_LINK"
    ELSE "ESCALATE_TO_HUMAN"

DeterministicRecommendation(case, customer) ==
    LET diagnosis == Diagnose(case, customer)
    IN  [action     |-> DeterministicAction(case, customer, diagnosis),
         confidence |-> diagnosis.confidence]

(* DEFAULT_POLICY, the policy the orchestrator evaluates every case with. *)
DefaultPolicy ==
    [max_auto_action_amount_minor |-> 2500000,
     max_recovery_actions_per_case |-> 3,
     max_payment_links_per_case |-> 1,
     confidence_below |-> 65]

(* The named checks of evaluate, all of which it computes. *)
PolicyChecks(case, customer, rec, policy, links, channel) ==
    [CASE_OPEN            |-> case.state \notin {"RECOVERED", "CLOSED", "FAILED"},
     NOT_ALREADY_PAID     |-> ~case.already_paid,
     NOT_DISPUTED         |-> ~case.disputed,
     CONTACT_ALLOWED      |-> ~customer.opted_out,
     AMOUNT_WITHIN_LIMIT  |-> case.amount_minor <= policy.max_auto_action_amount_minor,
     ATTEMPT_WITHIN_LIMIT |-> case.previous_attempts < policy.max_recovery_actions_per_case,
     PAYMENT_LINK_LIMIT   |-> \/ rec.action # "CREATE_PAYMENT_LINK"
                              \/ links < policy.max_payment_links_per_case,
     CHANNEL_AVAILABLE    |-> rec.action # "SEND_RECOVERY_MESSAGE" \/ channel,
     CONFIDENCE_THRESHOLD |-> rec.confidence >= policy.confidence_below]

(* evaluate(...).allowed *)
EvaluateAny(case, customer, rec, policy, links, channel) ==  \* mutant: any for all
    LET checks == PolicyChecks(case, customer, rec, policy, links, channel)
    IN  /\ \E name \in DOMAIN checks : checks[name]
        /\ rec.action \notin {"ESCALATE_TO_HUMAN", "NO_ACTION"}

Evaluate(case, customer, rec, policy, links, channel) ==
    LET checks == PolicyChecks(case, customer, rec, policy, links, channel)
    IN  /\ \A name \in DOMAIN checks : checks[name]
        /\ rec.action \notin {"ESCALATE_TO_HUMAN", "NO_ACTION"}

=============================================================================
