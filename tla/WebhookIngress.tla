--------------------------- MODULE WebhookIngress ---------------------------
(***************************************************************************)
(* The raw webhook receiver: requests of the provider, some of them        *)
(* retries, are verified, normalized to two keys, stored under two unique  *)
(* constraints and handed to the queue.  Requests are served concurrently  *)
(* (one asyncio task each); the handler is interleaved at its awaits, the  *)
(* commit and the answer.  The insert of an equal key waits for the open   *)
(* transaction that holds it, so that the commit is one step.              *)
(***************************************************************************)
EXTENDS Naturals, FiniteSets

CONSTANTS
    Events,     \* webhook events of the provider
    Handled,    \* those whose type process_webhook_event handles
    Id,         \* "id" of the payload of each event, or None
    Subject,    \* its entity id and type
    CreatedAt,  \* "created_at" of its entity in seconds, or None
    Requests,   \* requests served at once
    MaxTime,    \* bound of the clock
    MaxFaults,  \* bound on the number of faults
    None        \* absence of a value

Time == 0 .. MaxTime

(* A payment of the provider has its id and creation time in the payload,   *)
(* and no two events about payments agree on entity, type and time.  Which  *)
(* events are handled is decided by their type, which Subject names.  The   *)
(* ids of the provider are its own: none looks like the "rzp_..." ids that  *)
(* normalize_webhook makes up.                                              *)
ASSUME IngressAssumption ==
    /\ MaxTime \in Nat
    /\ MaxFaults \in Nat
    /\ Handled \subseteq Events
    /\ CreatedAt \in [Events -> Time \cup {None}]
    /\ \A e \in Handled :
          /\ CreatedAt[e] # None
          /\ \A f \in Events \ {e} : Subject[f] # Subject[e] \/ CreatedAt[f] # CreatedAt[e]
          /\ \A f \in Events : Subject[f] = Subject[e] => f \in Handled
    /\ \A e, f \in Events : Id[e] # None /\ Id[e] = Id[f] => e = f
    /\ \A e, f \in Events, t \in Time : Id[e] # <<Subject[f], t>>

VARIABLES
    now,            \* the clock, in seconds
    acknowledged,   \* events the provider has a 2xx answer for
    webhookEvents,  \* committed webhook_events rows
    tasks,          \* number of tasks published for each event
    request,        \* the requests that are served
    faults          \* faults so far

vars == <<now, acknowledged, webhookEvents, tasks, request, faults>>

(* The two keys: the payload's id or one made up from the semantic key, and *)
(* the semantic key; without a creation time both take the time of receipt. *)
Key == [id : ({Id[e] : e \in Events} \ {None}) \cup {<<Subject[e], t>> : e \in Events, t \in Time},
        semantic : {<<Subject[e], t>> : e \in Events, t \in Time}]

NormalizeByReceipt(e, t) ==     \* mutant: the time of receipt is always taken
    [id |-> <<Subject[e], t>>, semantic |-> <<Subject[e], t>>]
NormalizeNoFallback(e, t) ==    \* mutant: payload["id"] without its fallback
    LET occurred == IF CreatedAt[e] = None THEN t ELSE CreatedAt[e]
    IN  [id |-> Id[e], semantic |-> <<Subject[e], occurred>>]
Normalize(e, t) ==
    LET occurred == IF CreatedAt[e] = None THEN t ELSE CreatedAt[e]
        semantic == <<Subject[e], occurred>>
    IN  [id |-> IF Id[e] = None THEN semantic ELSE Id[e], semantic |-> semantic]

Row(e, key) == [event |-> e, id |-> key.id, semantic |-> key.semantic]
Rows == {Row(e, key) : e \in Events, key \in Key}
Free == [pc |-> "free", event |-> None, genuine |-> FALSE, key |-> None, code |-> 0]
Received(e, genuine) ==
    [pc |-> "received", event |-> e, genuine |-> genuine, key |-> None, code |-> 0]

Steps == {"free", "received", "commit", "publish", "answer"}
RequestState ==
    [pc : Steps, event : Events \cup {None}, genuine : BOOLEAN,
     key : Key \cup {None}, code : {0, 202, 401, 500, 503}]

TypeOK ==
    /\ now \in Time
    /\ acknowledged \subseteq Events
    /\ webhookEvents \subseteq Rows
    /\ tasks \in [Events -> Nat]
    /\ request \in [Requests -> RequestState]
    /\ \A r \in Requests :
          /\ IF request[r].pc = "free" THEN request[r] = Free ELSE request[r].event \in Events
          /\ request[r].pc \in {"commit", "publish"} => request[r].key \in Key
    /\ faults \in 0 .. MaxFaults

Init ==
    /\ now = 0
    /\ acknowledged = {}
    /\ webhookEvents = {}
    /\ tasks = [e \in Events |-> 0]
    /\ request = [r \in Requests |-> Free]
    /\ faults = 0

Fault == faults < MaxFaults /\ faults' = faults + 1

Tick ==
    /\ now < MaxTime
    /\ now' = now + 1
    /\ UNCHANGED <<acknowledged, webhookEvents, tasks, request, faults>>

(* The provider sends e, and again until it is acknowledged, whether or not *)
(* an earlier request is still being served.                                *)
Send(e) ==
    /\ e \notin acknowledged
    /\ CreatedAt[e] # None => CreatedAt[e] <= now
    /\ \E r \in Requests :
          /\ request[r] = Free
          /\ request' = [request EXCEPT ![r] = Received(e, TRUE)]
    /\ UNCHANGED <<now, acknowledged, webhookEvents, tasks, faults>>

(* A request with the content of e that does not carry its signature, as a  *)
(* body altered on its way.                                                 *)
SendAltered(e) ==
    /\ Fault
    /\ \E r \in Requests :
          /\ request[r] = Free
          /\ request' = [request EXCEPT ![r] = Received(e, FALSE)]
    /\ UNCHANGED <<now, acknowledged, webhookEvents, tasks>>

Reply(r, status) ==
    request' = [request EXCEPT ![r].pc = "answer", ![r].code = status]

(* verify_webhook, json.loads and normalize_webhook, without a side effect. *)
(* (What carries the signature is JSON: the provider sends no other body.)  *)
Verify(r) ==
    /\ request[r].pc = "received"
    /\ \/ /\ request[r].genuine
          /\ request' = [request EXCEPT ![r].pc = "commit",
                                        ![r].key = Normalize(request[r].event, now)]
       \/ ~request[r].genuine /\ Reply(r, 401)
    /\ UNCHANGED <<now, acknowledged, webhookEvents, tasks, faults>>

(* uq_provider_event or uq_webhook_semantic is violated. *)
Duplicate(r) ==
    \E row \in webhookEvents : \/ row.id = request[r].key.id
                               \/ row.semantic = request[r].key.semantic

StoreUncommitted(r) ==      \* mutant: flush() for commit()
    /\ request[r].pc = "commit"
    /\ ~Duplicate(r)
    /\ request' = [request EXCEPT ![r].pc = "publish"]
    /\ UNCHANGED <<now, acknowledged, webhookEvents, tasks, faults>>

Store(r) ==
    /\ request[r].pc = "commit"
    /\ ~Duplicate(r)
    /\ webhookEvents' = webhookEvents \cup {Row(request[r].event, request[r].key)}
    /\ request' = [request EXCEPT ![r].pc = "publish"]
    /\ UNCHANGED <<now, acknowledged, tasks, faults>>

DuplicatePublishes(r) ==    \* mutant: a duplicate is handed to the queue as well
    /\ request[r].pc = "commit"
    /\ Duplicate(r)
    /\ request' = [request EXCEPT ![r].pc = "publish"]
    /\ UNCHANGED <<now, acknowledged, webhookEvents, tasks, faults>>

AnswerDuplicate(r) ==
    /\ request[r].pc = "commit"
    /\ Duplicate(r)
    /\ Reply(r, 202)
    /\ UNCHANGED <<now, acknowledged, webhookEvents, tasks, faults>>

AnyErrorIsDuplicate(r) ==   \* mutant: except Exception for except IntegrityError
    /\ request[r].pc = "commit"
    /\ Fault
    /\ Reply(r, 202)
    /\ UNCHANGED <<now, acknowledged, webhookEvents, tasks>>

(* Any other error of the commit is not caught. *)
StoreFails(r) ==
    /\ request[r].pc = "commit"
    /\ Fault
    /\ Reply(r, 500)
    /\ UNCHANGED <<now, acknowledged, webhookEvents, tasks>>

Publish(r) ==
    /\ request[r].pc = "publish"
    /\ tasks' = [tasks EXCEPT ![request[r].event] = @ + 1]
    /\ Reply(r, 202)
    /\ UNCHANGED <<now, acknowledged, webhookEvents, faults>>

(* delay() raised: "retry safely". *)
PublishFails(r) ==
    /\ request[r].pc = "publish"
    /\ Fault
    /\ Reply(r, 503)
    /\ UNCHANGED <<now, acknowledged, webhookEvents, tasks>>

(* The answer reaches the provider. *)
Answer(r) ==
    /\ request[r].pc = "answer"
    /\ acknowledged' = IF request[r].genuine /\ request[r].code = 202
                       THEN acknowledged \cup {request[r].event} ELSE acknowledged
    /\ request' = [request EXCEPT ![r] = Free]
    /\ UNCHANGED <<now, webhookEvents, tasks, faults>>

(* The server process dies, or the answer is lost or too late. *)
Lost(r) ==
    /\ request[r].pc # "free"
    /\ Fault
    /\ request' = [request EXCEPT ![r] = Free]
    /\ UNCHANGED <<now, acknowledged, webhookEvents, tasks>>

Serve(r) ==
    \/ Verify(r) \/ Store(r) \/ AnswerDuplicate(r) \/ Publish(r) \/ Answer(r)

Next ==
    \/ Tick
    \/ \E e \in Events : Send(e) \/ SendAltered(e)
    \/ \E r \in Requests : Serve(r) \/ StoreFails(r) \/ PublishFails(r) \/ Lost(r)

Spec == Init /\ [][Next]_vars

(* The clock runs, the server serves its requests, and the provider sends   *)
(* what is not acknowledged whenever the server takes requests (SF: other   *)
(* requests may occupy it again and again).                                 *)
Fairness ==
    /\ WF_vars(Tick)
    /\ \A r \in Requests : WF_vars(Serve(r))
    /\ \A e \in Events : SF_vars(Send(e))

FairSpec == Spec /\ Fairness
-----------------------------------------------------------------------------
Stored(e) == \E row \in webhookEvents : row.event = e

(* A 2xx answer - the first, one to a retry, or one to a retry that         *)
(* overtook the first - means that the event is durable: the provider may   *)
(* forget it.  Only events that carry no time of their own (none that the   *)
(* worker handles) can be taken for another one of the same second, even    *)
(* when the provider gave them different ids.                               *)
AcknowledgedIsStored ==
    \A e \in acknowledged :
        \/ Stored(e)
        \/ /\ e \notin Handled
           /\ \E row \in webhookEvents : row.semantic[1] = Subject[e]

(* An event that carries an id or a time of its own is stored once and      *)
(* queued at most once, however often and however concurrently the provider *)
(* sends it; any other is stored again by a retry of a later second.        *)
IdentifiedOnce ==
    \A e \in Events :
        Id[e] # None \/ CreatedAt[e] # None =>
            /\ Cardinality({row \in webhookEvents : row.event = e}) <= 1
            /\ tasks[e] <= 1

(* The worker that takes a task finds its row: tasks follow the commit.     *)
TaskFindsItsRow == \A e \in Events : tasks[e] > 0 => Stored(e)

(* The promise of WebhookReceipts: the row counts as received once its      *)
(* request has left the gap between commit and publication.                 *)
Publishing(e) == \E r \in Requests : request[r].pc = "publish" /\ request[r].event = e

ReceiptOf(e) == IF ~Stored(e) \/ Publishing(e) THEN "NONE"
                ELSE IF tasks[e] > 0 THEN "QUEUED" ELSE "UNQUEUED"

Receipts == INSTANCE WebhookReceipts WITH
    Events   <- Handled,
    receipts <- [e \in Handled |-> ReceiptOf(e)]

(* Retries, concurrent requests, a dead server and a refused task come down *)
(* to what the pipeline takes for granted: one receipt, queued or not.      *)
ImplementsReceipts == Receipts!Spec

(* Every event is stored in the end, through lost requests and answers,     *)
(* database errors and a refusing broker.                                   *)
OccurredIsStored == \A e \in Handled : <>Stored(e)
=============================================================================
