-------------------------- MODULE RecoveryContract --------------------------
(***************************************************************************)
(* What the recovery pipeline promises to those who read its tables: the   *)
(* committed rows of every failed payment, what left the system for it and *)
(* what the provider captured, without workers, queue, retries or faults.  *)
(* RecoveryRefinement shows that the pipeline keeps this contract; Reports *)
(* puts the read endpoints beside it.                                      *)
(***************************************************************************)
EXTENDS CaseStateMachine

CONSTANT Payments   \* the failed payments a case may be opened for

VARIABLES
    captured,   \* payments captured at the provider
    sent,       \* what was sent for each failed payment
    cases,      \* recovery_cases, by source payment
    decisions,  \* the decision committed with each case
    outcomes,   \* outcomes
    trail       \* states the audit ledger attests for each case

contractVars == <<captured, sent, cases, decisions, outcomes, trail>>

PaymentId == [via : {"original", "retry", "link"}, of : Payments]
CaseRow   == [state : CaseState \cup {"NONE"}, already_paid : BOOLEAN]
NoRow     == [state |-> "NONE", already_paid |-> FALSE]
Decision  == [action : RecoveryAction \cup {"NONE"}, allowed : BOOLEAN]
Outcome   == [case : Payments, payment : PaymentId, attributed : BOOLEAN]

Exists(p) == cases[p].state # "NONE"

(* What carrying out an action sends. *)
EffectOf(action) ==
    CASE action = "CREATE_PAYMENT_LINK"   -> "link"
      [] action = "SEND_RECOVERY_MESSAGE" -> "message"
      [] OTHER                            -> "nothing"

ContractTypeOK ==
    /\ captured \subseteq PaymentId
    /\ sent \in [Payments -> {"nothing", "link", "message"}]
    /\ cases \in [Payments -> CaseRow]
    /\ decisions \in [Payments -> Decision]
    /\ outcomes \subseteq Outcome
    /\ trail \in [Payments -> SUBSET CaseState]

Init ==
    /\ captured = {}
    /\ sent = [p \in Payments |-> "nothing"]
    /\ cases = [p \in Payments |-> NoRow]
    /\ decisions = [p \in Payments |-> [action |-> "NONE", allowed |-> FALSE]]
    /\ outcomes = {}
    /\ trail = [p \in Payments |-> {}]

(* The provider captures a payment; only a link that exists can be paid. *)
Capture(id) ==
    /\ id.via = "link" => sent[id.of] = "link"
    /\ captured' = captured \cup {id}
    /\ UNCHANGED <<sent, cases, decisions, outcomes, trail>>

(* One transaction opens the case, decides it and accounts for it. *)
Open(p, d) ==
    LET final == IF d.allowed THEN "AUTHORIZED" ELSE "NEEDS_REVIEW"
    IN  /\ ~Exists(p)
        /\ cases' = [cases EXCEPT ![p].state = final]
        /\ decisions' = [decisions EXCEPT ![p] = d]
        /\ trail' = [trail EXCEPT ![p] =
                        {"DETECTED", "DIAGNOSING", "ACTION_PROPOSED", final}]
        /\ UNCHANGED <<captured, sent, outcomes>>

(* The effect that was decided happens, once, before it is recorded. *)
Send(p) ==
    /\ decisions[p].allowed
    /\ EffectOf(decisions[p].action) # "nothing"
    /\ sent[p] = "nothing"
    /\ "WAITING_FOR_OUTCOME" \notin trail[p]
    /\ sent' = [sent EXCEPT ![p] = EffectOf(decisions[p].action)]
    /\ UNCHANGED <<captured, cases, decisions, outcomes, trail>>

(* The execution is recorded, once, whatever state the case is in by then. *)
Record(p) ==
    /\ decisions[p].allowed
    /\ sent[p] = EffectOf(decisions[p].action)
    /\ "WAITING_FOR_OUTCOME" \notin trail[p]
    /\ cases' = [cases EXCEPT ![p].state = "WAITING_FOR_OUTCOME"]
    /\ trail' = [trail EXCEPT ![p] = @ \cup {"WAITING_FOR_OUTCOME"}]
    /\ UNCHANGED <<captured, sent, decisions, outcomes>>

(* The recheck finds the payment paid; nothing is sent for it any more. *)
LearnPaid(p) ==
    /\ decisions[p].allowed
    /\ sent[p] = "nothing"
    /\ cases' = [cases EXCEPT ![p].already_paid = TRUE]
    /\ UNCHANGED <<captured, sent, decisions, outcomes, trail>>

RecoveredAsPaid == [state |-> "PAID", already_paid |-> TRUE]    \* mutant: no such state
Recovered == [state |-> "RECOVERED", already_paid |-> TRUE]

(* A captured payment recovers its case, in one transaction with the        *)
(* outcome; a case has one outcome, however often it is confirmed.          *)
Confirm(p, id, attributed) ==
    /\ Exists(p)
    /\ id \in captured /\ id.of = p
    /\ attributed => sent[p] # "nothing"
    /\ \/ /\ \A o \in outcomes : o.case # p
          /\ outcomes' = outcomes \cup
                 {[case |-> p, payment |-> id, attributed |-> attributed]}
       \/ /\ \E o \in outcomes : o.case = p /\ o.payment = id
          /\ UNCHANGED outcomes
    /\ cases' = [cases EXCEPT ![p] = Recovered]
    /\ trail' = [trail EXCEPT ![p] = @ \cup {"RECOVERED"}]
    /\ UNCHANGED <<captured, sent, decisions>>

ContractNext ==
    \/ \E id \in PaymentId : Capture(id)
    \/ \E p \in Payments :
          \/ \E d \in [action : RecoveryAction, allowed : BOOLEAN] : Open(p, d)
          \/ Send(p) \/ Record(p) \/ LearnPaid(p)
          \/ \E id \in PaymentId, attributed \in BOOLEAN : Confirm(p, id, attributed)

Spec == Init /\ [][ContractNext]_contractVars
=============================================================================
