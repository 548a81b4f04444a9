-------------------------- MODULE WebhookReceipts --------------------------
(***************************************************************************)
(* What the webhook ingress promises the pipeline: every event is received *)
(* at most once, whether or not its task reaches the queue.  These are     *)
(* ReceiveWebhook and QueueUnavailable of RecoveryPipeline, as one step.   *)
(***************************************************************************)
CONSTANT Events     \* webhook events of the provider

VARIABLE receipts   \* what became of each event

Init == receipts = [e \in Events |-> "NONE"]

Receive(e) ==
    /\ receipts[e] = "NONE"
    /\ \E outcome \in {"QUEUED", "UNQUEUED"} :
          receipts' = [receipts EXCEPT ![e] = outcome]

Spec == Init /\ [][\E e \in Events : Receive(e)]_receipts
=============================================================================
