-------------------------- MODULE CaseStateMachine --------------------------
(***************************************************************************)
(* The life cycle of a RecoveryCase: the states of domain/enums and the    *)
(* transition table of services/recovery_cases/state_machine.py, which the *)
(* orchestrator and the executor consult before every assignment to        *)
(* case.state.  (The outcome verifier assigns "RECOVERED" directly.)       *)
(***************************************************************************)
EXTENDS Sequences, Naturals

CaseState ==
    {"DETECTED", "DIAGNOSING", "ACTION_PROPOSED", "POLICY_BLOCKED",
     "AUTHORIZED", "ACTION_EXECUTED", "WAITING_FOR_OUTCOME",
     "NEXT_ACTION_DUE", "NEEDS_REVIEW", "RECOVERED", "FAILED", "CLOSED"}

RecoveryAction ==
    {"NO_ACTION", "WAIT", "CREATE_PAYMENT_LINK", "SEND_RECOVERY_MESSAGE",
     "SUGGEST_ALTERNATE_METHOD", "RECORD_PROMISE_TO_PAY",
     "SCHEDULE_FOLLOWUP", "ESCALATE_TO_HUMAN"}

FailureCategory ==
    {"AUTHORIZATION_FAILURE", "TRANSIENT_PROVIDER_FAILURE",
     "CUSTOMER_ACTION_REQUIRED", "PAYMENT_METHOD_FAILURE", "NETWORK_FAILURE",
     "EXPIRED_PAYMENT_REQUEST", "REPEATED_FAILURE", "UNKNOWN_FAILURE",
     "DATA_INCONSISTENCY"}

(* ALLOWED_TRANSITIONS: the states each state may be followed by. *)
AllowedTransitions ==
    [s \in CaseState |->
       CASE s = "DETECTED"            -> {"DIAGNOSING", "NEEDS_REVIEW", "RECOVERED"}
         [] s = "DIAGNOSING"          -> {"ACTION_PROPOSED", "NEEDS_REVIEW", "RECOVERED"}
         [] s = "ACTION_PROPOSED"     -> {"AUTHORIZED", "POLICY_BLOCKED",
                                          "NEEDS_REVIEW", "RECOVERED"}
         [] s = "AUTHORIZED"          -> {"ACTION_EXECUTED", "NEEDS_REVIEW", "RECOVERED"}
         [] s = "ACTION_EXECUTED"     -> {"WAITING_FOR_OUTCOME", "NEXT_ACTION_DUE",
                                          "RECOVERED"}
         [] s = "WAITING_FOR_OUTCOME" -> {"NEXT_ACTION_DUE", "RECOVERED", "FAILED"}
         [] s = "NEXT_ACTION_DUE"     -> {"DIAGNOSING", "NEEDS_REVIEW", "CLOSED",
                                          "RECOVERED"}
         [] s = "POLICY_BLOCKED"      -> {"NEEDS_REVIEW", "CLOSED"}
         [] s = "NEEDS_REVIEW"        -> {"AUTHORIZED", "CLOSED", "RECOVERED"}
         [] s = "RECOVERED"           -> {"CLOSED"}
         [] s = "FAILED"              -> {"CLOSED", "NEEDS_REVIEW"}
         [] s = "CLOSED"              -> {}]

(* assert_transition(current, target) returns instead of raising. *)
AssertTransition(current, target) == target \in AllowedTransitions[current]

(* A walk of case.state through the given states, each step asserted. *)
AssertWalk(walk) ==
    \A i \in 1 .. Len(walk) - 1 : AssertTransition(walk[i], walk[i + 1])

=============================================================================
