------------------------- MODULE MCRecoveryPipeline -------------------------
(* Instances of RecoveryPipeline and of its refinement for TLC. *)
EXTENDS RecoveryRefinement, TLC

CONSTANTS w1, w2

Permuted == Permutations({w1, w2})

(* The payments that succeed: those the captured events report. *)
MCPayingReported == {PaymentOf(e) : e \in {f \in Events : f.name # "payment.failed"}}

(* Webhook events of a payment. *)
MCFailed(p)      == [name |-> "payment.failed", via |-> "original",
                     source |-> "payment", of |-> p]
MCAuthorized(p)  == [name |-> "payment.authorized", via |-> "original",
                     source |-> "payment", of |-> p]
MCCaptured(p)    == [name |-> "payment.captured", via |-> "original",
                     source |-> "payment", of |-> p]
MCLinkPaid(p)    == [name |-> "payment.captured", via |-> "link",
                     source |-> "link", of |-> p]

(* One payment, whose case is paid both late and through its link. *)
MCEventsRace  == UNION {{MCFailed(p), MCAuthorized(p), MCCaptured(p),
                           MCLinkPaid(p)} : p \in Payments}
(* Payments of one customer. *)
MCEventsFailed == {MCFailed(p) : p \in Payments}
(* One of them paid through its link. *)
MCEventsPaid   ==
    LET p == CHOOSE q \in Payments : TRUE
    IN  MCEventsFailed \cup {MCLinkPaid(p)}
(* A payment made through a link, whose webhook carries the link's order. *)
MCEventsLink   ==
    UNION {{MCFailed(p), [MCLinkPaid(p) EXCEPT !.source = "order"]} : p \in Payments}
MCEventsLate   == UNION {{MCFailed(p), MCCaptured(p)} : p \in Payments}

MCCustomerOf == [p \in Payments |-> CHOOSE c \in Customers : TRUE]
MCAmount     == [p \in Payments |-> 185000]
MCCategory   == [p \in Payments |-> ClassifyFailure("PAYMENT_FAILED", "failed", "upi")]

(* One payment without an amount, one at the automatic limit, the others *)
(* just above it.                                                        *)
MCAmountLimit ==
    LET limit   == CHOOSE p \in Payments : TRUE
        missing == CHOOSE p \in Payments \ {limit} : TRUE
    IN  [p \in Payments |-> CASE p = limit   -> 2500000
                             [] p = missing -> 0
                             [] OTHER       -> 2500001]

(* What the language model may answer: act, act without confidence, wait. *)
MCModel  == {[action |-> "SEND_RECOVERY_MESSAGE", confidence |-> 65],
             [action |-> "CREATE_PAYMENT_LINK", confidence |-> 64],
             [action |-> "WAIT", confidence |-> 80]}
MCNoModel == {}
=============================================================================
