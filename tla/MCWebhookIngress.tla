-------------------------- MODULE MCWebhookIngress --------------------------
(* Instances of WebhookIngress for TLC. *)
EXTENDS WebhookIngress, TLC

CONSTANTS
    r1, r2,                 \* requests
    failed, captured,       \* events of one payment; the second has an id
    refund1, refund2,       \* events about no payment, in entities of their own
    id1, id2                \* ids of the provider

MCHandled       == {failed, captured} \cap Events

MCId == [e \in Events |-> CASE e = captured -> id1
                            [] e = refund1  -> id2
                            [] OTHER        -> None]

(* "unknown" and the type for what is not about a payment or a link. *)
MCSubject == [e \in Events |-> CASE e = failed   -> <<"pay_1", "payment.failed">>
                                 [] e = captured -> <<"pay_1", "payment.captured">>
                                 [] OTHER        -> <<"unknown", "refund.processed">>]

(* The creation time of the payment, which both its events carry. *)
MCCreatedAt == [e \in Events |-> IF e \in {failed, captured} THEN 0 ELSE None]
=============================================================================
