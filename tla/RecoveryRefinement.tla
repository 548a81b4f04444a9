------------------------- MODULE RecoveryRefinement -------------------------
(***************************************************************************)
(* The pipeline, with its workers, retries and faults, keeps the contract  *)
(* of RecoveryContract.                                                    *)
(***************************************************************************)
EXTENDS RecoveryPipeline

(* What of the pipeline's state the contract speaks about. *)
CapturedPayments == {id \in PaymentId : payments[id] = "captured"}

SentFor == [p \in Payments |-> IF links[p] > 0 THEN "link"
                               ELSE IF emails[p] > 0 THEN "message" ELSE "nothing"]

AttestedStates ==
    [p \in Payments |-> {a.after : a \in {b \in audit : b.case = p}} \ {None}]

Contract == INSTANCE RecoveryContract WITH
    captured <- CapturedPayments, sent <- SentFor, trail <- AttestedStates

(* Every step of the pipeline - a retry, a crash, the commit of a stale     *)
(* session, a second verifier - changes the rows of a payment and what was  *)
(* sent for it as the contract says or leaves them alone: a case, its       *)
(* decision and its audit rows appear together, an effect follows its       *)
(* decision once and precedes its record, revenue is attributed to an       *)
(* effect that happened, and an outcome comes with RECOVERED.               *)
ImplementsContract == Contract!Spec
=============================================================================
