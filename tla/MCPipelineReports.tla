-------------------------- MODULE MCPipelineReports --------------------------
(* Instances of PipelineReports for TLC. *)
EXTENDS PipelineReports, TLC

CONSTANTS w1, w2

Permuted == Permutations({w1, w2})

(* A payment that is captured late and paid through its link. *)
MCEvents ==
    UNION {{[name |-> "payment.failed", via |-> "original", source |-> "payment", of |-> p],
            [name |-> "payment.captured", via |-> "original", source |-> "payment", of |-> p],
            [name |-> "payment.captured", via |-> "link", source |-> "link", of |-> p]}
           : p \in Payments}
(* Another attempt at its order may succeed as well. *)
MCPaying == {[via |-> via, of |-> p] : via \in {"original", "retry", "link"}, p \in Payments}

MCCustomerOf == [p \in Payments |-> CHOOSE c \in Customers : TRUE]
MCAmount     == [p \in Payments |-> 185000]
MCCategory   == [p \in Payments |-> ClassifyFailure("PAYMENT_FAILED", "failed", "upi")]

(* What the language model may answer: act, act without confidence, wait. *)
MCModel == {[action |-> "CREATE_PAYMENT_LINK", confidence |-> 80],
            [action |-> "SEND_RECOVERY_MESSAGE", confidence |-> 64],
            [action |-> "WAIT", confidence |-> 80]}
=============================================================================
