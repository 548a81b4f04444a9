------------------------ MODULE WebhookIngressProofs ------------------------
(***************************************************************************)
(* Proofs about WebhookIngress, for every set of events and concurrent     *)
(* requests, every clock and number of faults.                             *)
(***************************************************************************)
EXTENDS WebhookIngress, FiniteSetTheorems, TLAPS

(* An event is durable when it has a row or shares one (AcknowledgedIsStored *)
(* says which events may).                                                   *)
HasRow(e, rows) == \E row \in rows : row.event = e
Durable(e, rows) ==
    \/ HasRow(e, rows)
    \/ e \notin Handled /\ \E row \in rows : row.semantic[1] = Subject[e]

(* Rows and the requests past verification hold keys of their events, taken  *)
(* at some time; what is published or acknowledged is durable.               *)
ReceiptInv ==
    /\ \A row \in webhookEvents :
          \E t \in Time : row = Row(row.event, Normalize(row.event, t))
    /\ \A r \in Requests :
          /\ request[r].pc \in {"commit", "publish"} =>
                \E t \in Time : request[r].key = Normalize(request[r].event, t)
          /\ request[r].pc = "publish" => HasRow(request[r].event, webhookEvents)
          /\ request[r].pc = "answer" /\ request[r].code = 202 =>
                Durable(request[r].event, webhookEvents)
    /\ AcknowledgedIsStored
    /\ TaskFindsItsRow

(* An event with an id or a time of its own has one row; one request at most *)
(* publishes its task, and has not yet done so.                              *)
Identified(e) == Id[e] # None \/ CreatedAt[e] # None

OnceInv ==
    \A e \in Events :
        Identified(e) =>
            /\ \A row1, row2 \in webhookEvents :
                  row1.event = e /\ row2.event = e => row1 = row2
            /\ tasks[e] <= 1
            /\ \A r \in Requests :
                  request[r].pc = "publish" /\ request[r].event = e =>
                     /\ tasks[e] = 0
                     /\ \A s \in Requests :
                           request[s].pc = "publish" /\ request[s].event = e => s = r
-----------------------------------------------------------------------------
(* Types. *)

LEMMA NormalizeType ==
  ASSUME NEW e \in Events, NEW t \in Time
  PROVE  Normalize(e, t) \in Key
  BY IngressAssumption DEF Normalize, Key

LEMMA TypeInit == Init => TypeOK
  BY IngressAssumption DEF Init, TypeOK, Time, RequestState, Steps, Free

(* A request is in a state it may be in.                                     *)
RequestOK(q) ==
    /\ q \in RequestState
    /\ IF q.pc = "free" THEN q = Free ELSE q.event \in Events
    /\ q.pc \in {"commit", "publish"} => q.key \in Key

LEMMA RequestChange ==
  ASSUME TypeOK, NEW r \in Requests, NEW q, RequestOK(q),
         request' = [request EXCEPT ![r] = q]
  PROVE  /\ request' \in [Requests -> RequestState]
         /\ \A s \in Requests :
               /\ IF request'[s].pc = "free" THEN request'[s] = Free
                  ELSE request'[s].event \in Events
               /\ request'[s].pc \in {"commit", "publish"} => request'[s].key \in Key
  BY DEF TypeOK, RequestOK

(* What each step leaves of the request it is about.                         *)
WithKey(q, key) ==
    [pc |-> "commit", event |-> q.event, genuine |-> q.genuine, key |-> key,
     code |-> q.code]
Publisher(q) ==
    [pc |-> "publish", event |-> q.event, genuine |-> q.genuine, key |-> q.key,
     code |-> q.code]
Answered(q, status) ==
    [pc |-> "answer", event |-> q.event, genuine |-> q.genuine, key |-> q.key,
     code |-> status]

LEMMA RequestsAre ==
  ASSUME NEW q, RequestOK(q), q.pc # "free"
  PROVE  /\ \A key \in Key : RequestOK(WithKey(q, key))
         /\ q.pc = "commit" => RequestOK(Publisher(q))
         /\ \A status \in {202, 401, 500, 503} : RequestOK(Answered(q, status))
  BY DEF RequestOK, RequestState, Steps, WithKey, Publisher, Answered

(* A request with one or two of its fields replaced.                         *)
LEMMA Replaced ==
  ASSUME NEW q \in RequestState, NEW status, NEW key
  PROVE  /\ [q EXCEPT !.pc = "answer", !.code = status] = Answered(q, status)
         /\ [q EXCEPT !.pc = "commit", !.key = key] = WithKey(q, key)
         /\ [q EXCEPT !.pc = "publish"] = Publisher(q)
<1>1. /\ [q EXCEPT !.pc = "answer"] = Answered(q, q.code)
      /\ [q EXCEPT !.pc = "commit"] = WithKey(q, q.key)
      /\ [q EXCEPT !.pc = "publish"] = Publisher(q)
  BY DEF RequestState, Answered, WithKey, Publisher
<1>2. /\ [Answered(q, q.code) EXCEPT !.code = status] = Answered(q, status)
      /\ [WithKey(q, q.key) EXCEPT !.key = key] = WithKey(q, key)
  BY DEF Answered, WithKey
<1> QED BY <1>1, <1>2, Zenon

LEMMA ReplyIs ==
  ASSUME TypeOK, NEW r \in Requests, NEW status, Reply(r, status)
  PROVE  request' = [request EXCEPT ![r] = Answered(request[r], status)]
<1>1. request[r] \in RequestState
  BY DEF TypeOK
<1>2. [request[r] EXCEPT !.pc = "answer", !.code = status] = Answered(request[r], status)
  BY <1>1, Replaced
<1>3. request' = [request EXCEPT ![r] = [request[r] EXCEPT !.pc = "answer", !.code = status]]
  BY Zenon DEF Reply
<1> QED BY <1>2, <1>3, Zenon

(* The steps, by what becomes of a request.                                  *)
Taken(r) ==
    /\ request[r] = Free
    /\ \E e \in Events, genuine \in BOOLEAN :
          request' = [request EXCEPT ![r] = Received(e, genuine)]
    /\ UNCHANGED <<acknowledged, webhookEvents, tasks>>

Verified(r) ==
    /\ request[r].pc = "received"
    /\ \E t \in Time :
          request' = [request EXCEPT ![r] =
                         WithKey(request[r], Normalize(request[r].event, t))]
    /\ UNCHANGED <<acknowledged, webhookEvents, tasks>>

StoredNow(r) ==
    /\ request[r].pc = "commit"
    /\ ~Duplicate(r)
    /\ request' = [request EXCEPT ![r] = Publisher(request[r])]
    /\ webhookEvents' = webhookEvents \cup {Row(request[r].event, request[r].key)}
    /\ UNCHANGED <<acknowledged, tasks>>

Published(r) ==
    /\ request[r].pc = "publish"
    /\ request' = [request EXCEPT ![r] = Answered(request[r], 202)]
    /\ tasks' = [tasks EXCEPT ![request[r].event] = @ + 1]
    /\ UNCHANGED <<acknowledged, webhookEvents>>

Refused(r) ==
    /\ request[r].pc \in {"received", "commit", "publish"}
    /\ \E status \in {202, 401, 500, 503} :
          /\ status = 202 => request[r].pc = "commit" /\ Duplicate(r)
          /\ request' = [request EXCEPT ![r] = Answered(request[r], status)]
    /\ UNCHANGED <<acknowledged, webhookEvents, tasks>>

Released(r) ==
    /\ request[r].pc # "free"
    /\ request' = [request EXCEPT ![r] = Free]
    /\ \/ UNCHANGED acknowledged
       \/ /\ request[r].pc = "answer" /\ request[r].code = 202
          /\ acknowledged' = acknowledged \cup {request[r].event}
    /\ UNCHANGED <<webhookEvents, tasks>>

LEMMA RequestSteps ==
  ASSUME TypeOK, [Next]_vars
  PROVE  \/ UNCHANGED <<acknowledged, webhookEvents, tasks, request>>
         \/ \E r \in Requests :
               \/ Taken(r) \/ Verified(r) \/ StoredNow(r) \/ Published(r) \/ Refused(r)
               \/ Released(r)
<1>t. request \in [Requests -> RequestState]
  BY DEF TypeOK
<1>1. CASE UNCHANGED vars \/ Tick
  BY <1>1 DEF vars, Tick
<1>2. ASSUME NEW e \in Events, Send(e)
      PROVE  \E r \in Requests : Taken(r)
  BY <1>2 DEF Send, Taken
<1>3. ASSUME NEW e \in Events, SendAltered(e)
      PROVE  \E r \in Requests : Taken(r)
  BY <1>3 DEF SendAltered, Taken
<1>4. ASSUME NEW r \in Requests, Verify(r)
      PROVE  Verified(r) \/ Refused(r)
  <2>1. CASE ~request[r].genuine
    BY <1>4, <2>1, ReplyIs DEF Verify, Refused
  <2>2. CASE request[r].genuine
    <3>1. request' = [request EXCEPT ![r].pc = "commit",
                                     ![r].key = Normalize(request[r].event, now)]
      BY <1>4, <2>2 DEF Verify
    <3> DEFINE key == Normalize(request[r].event, now)
    <3>2. request[r] \in RequestState
      BY <1>t
    <3>3. [request[r] EXCEPT !.pc = "commit", !.key = key] = WithKey(request[r], key)
      BY <3>2, Replaced
    <3>4. request' =
             [request EXCEPT ![r] = [request[r] EXCEPT !.pc = "commit", !.key = key]]
      BY <3>1, Zenon
    <3>5. request' = [request EXCEPT ![r] = WithKey(request[r], key)]
      BY <3>3, <3>4, Zenon
    <3> QED BY <1>4, <3>5 DEF Verify, Verified, TypeOK
  <2> QED BY <2>1, <2>2
<1>5. ASSUME NEW r \in Requests, Store(r)
      PROVE  StoredNow(r)
  BY <1>t, <1>5, Replaced DEF Store, StoredNow
<1>6. ASSUME NEW r \in Requests, AnswerDuplicate(r) \/ StoreFails(r) \/ PublishFails(r)
      PROVE  Refused(r)
  BY <1>6, ReplyIs DEF AnswerDuplicate, StoreFails, PublishFails, Refused
<1>7. ASSUME NEW r \in Requests, Publish(r)
      PROVE  Published(r)
  BY <1>7, ReplyIs DEF Publish, Published
<1>8. ASSUME NEW r \in Requests, Answer(r) \/ Lost(r)
      PROVE  Released(r)
  BY <1>8 DEF Answer, Lost, Released
<1> QED BY <1>1, <1>2, <1>3, <1>4, <1>5, <1>6, <1>7, <1>8 DEF Next, Serve

LEMMA TypeStep == TypeOK /\ [Next]_vars => TypeOK'
<1> SUFFICES ASSUME TypeOK, [Next]_vars PROVE TypeOK'
  OBVIOUS
<1>1. now' \in Time /\ faults' \in 0 .. MaxFaults
  <2>1. \/ UNCHANGED now /\ (UNCHANGED faults \/ Fault)
        \/ Tick
    BY DEF Next, vars, Send, SendAltered, Serve, Verify, Store, AnswerDuplicate,
           StoreFails, Publish, PublishFails, Answer, Lost
  <2> QED BY <2>1, IngressAssumption DEF TypeOK, Tick, Time, Fault
<1>2. ASSUME NEW r \in Requests
      PROVE  /\ RequestOK(request[r]) /\ RequestOK(Free)
             /\ request[r].pc # "free" => request[r].event \in Events
  BY DEF TypeOK, RequestOK, RequestState, Steps, Free
<1>3. ASSUME NEW r \in Requests, NEW q, RequestOK(q),
             request' = [request EXCEPT ![r] = q],
             acknowledged' \subseteq Events, webhookEvents' \subseteq Rows,
             tasks' \in [Events -> Nat]
      PROVE  TypeOK'
  BY <1>1, <1>3, RequestChange DEF TypeOK
<1>4. CASE UNCHANGED <<acknowledged, webhookEvents, tasks, request>>
  BY <1>1, <1>4 DEF TypeOK
<1>5. ASSUME NEW r \in Requests, Taken(r)
      PROVE  TypeOK'
  <2>1. \A e \in Events, genuine \in BOOLEAN : RequestOK(Received(e, genuine))
    BY DEF RequestOK, Received, RequestState, Steps
  <2> QED BY <1>3, <1>5, <2>1 DEF Taken, TypeOK
<1>6. ASSUME NEW r \in Requests, Verified(r)
      PROVE  TypeOK'
  <2>1. PICK t \in Time : request' = [request EXCEPT ![r] =
                                WithKey(request[r], Normalize(request[r].event, t))]
    BY <1>6 DEF Verified
  <2>2. RequestOK(WithKey(request[r], Normalize(request[r].event, t)))
    BY <1>2, <1>6, RequestsAre, NormalizeType DEF Verified
  <2> QED BY <1>3, <1>6, <2>1, <2>2 DEF Verified, TypeOK
<1>7. ASSUME NEW r \in Requests, StoredNow(r)
      PROVE  TypeOK'
  <2>1. Row(request[r].event, request[r].key) \in Rows
    <3>1. request[r].key \in Key
      BY <1>7 DEF StoredNow, TypeOK
    <3> QED BY <1>2, <1>7, <3>1 DEF StoredNow, Rows
  <2>2. RequestOK(Publisher(request[r]))
    BY <1>2, <1>7, RequestsAre DEF StoredNow
  <2> QED BY <1>3, <1>7, <2>1, <2>2 DEF StoredNow, TypeOK
<1>8. ASSUME NEW r \in Requests, Published(r)
      PROVE  TypeOK'
  <2>1. RequestOK(Answered(request[r], 202))
    BY <1>2, <1>8, RequestsAre DEF Published
  <2>2. /\ request' = [request EXCEPT ![r] = Answered(request[r], 202)]
        /\ tasks' \in [Events -> Nat] /\ webhookEvents' \subseteq Rows
        /\ acknowledged' \subseteq Events
    BY <1>8 DEF Published, TypeOK
  <2> QED BY <1>3, <2>1, <2>2
<1>9. ASSUME NEW r \in Requests, Refused(r)
      PROVE  TypeOK'
  <2>1. PICK status \in {202, 401, 500, 503} :
               /\ status = 202 => request[r].pc = "commit" /\ Duplicate(r)
               /\ request' = [request EXCEPT ![r] = Answered(request[r], status)]
    BY <1>9, Zenon DEF Refused
  <2>2. RequestOK(Answered(request[r], status))
    BY <1>2, <1>9, RequestsAre DEF Refused
  <2>3. /\ tasks' \in [Events -> Nat] /\ webhookEvents' \subseteq Rows
        /\ acknowledged' \subseteq Events
    BY <1>9 DEF Refused, TypeOK
  <2> QED BY <1>3, <2>1, <2>2, <2>3
<1>10. ASSUME NEW r \in Requests, Released(r)
       PROVE  TypeOK'
  <2>1. /\ request' = [request EXCEPT ![r] = Free]
        /\ acknowledged' \subseteq Events /\ webhookEvents' \subseteq Rows
        /\ tasks' \in [Events -> Nat]
    BY <1>2, <1>10 DEF Released, TypeOK
  <2> QED BY <1>2, <1>3, <2>1
<1> QED BY <1>4, <1>5, <1>6, <1>7, <1>8, <1>9, <1>10, RequestSteps

(* The types of the ingress: keys are a provider's id or made up, never      *)
(* absent, whatever the payload carries.                                     *)
THEOREM TypeCorrect == Spec => []TypeOK
  BY TypeInit, TypeStep, PTL DEF Spec

-----------------------------------------------------------------------------
(* What is acknowledged is durable. *)

LEMMA ReceiptInit == Init => ReceiptInv
  BY DEF Init, ReceiptInv, AcknowledgedIsStored, TaskFindsItsRow, Free

(* Rows are never deleted.                                                   *)
LEMMA RowsStay ==
  ASSUME TypeOK, [Next]_vars
  PROVE  /\ webhookEvents \subseteq webhookEvents'
         /\ \A e \in Events :
               /\ HasRow(e, webhookEvents) => HasRow(e, webhookEvents')
               /\ Durable(e, webhookEvents) => Durable(e, webhookEvents')
<1>1. webhookEvents \subseteq webhookEvents'
  BY RequestSteps DEF Taken, Verified, StoredNow, Published, Refused, Released
<1> QED BY <1>1 DEF HasRow, Durable

(* An event is a duplicate of a row when it has that row itself, or when it  *)
(* is not handled and has no time of its own.                                *)
LEMMA DuplicateIsDurable ==
  ASSUME TypeOK, ReceiptInv, NEW r \in Requests, request[r].pc = "commit", Duplicate(r)
  PROVE  Durable(request[r].event, webhookEvents)
<1> DEFINE e == request[r].event
<1>1. e \in Events
  BY DEF TypeOK
<1>2. PICK t \in Time : request[r].key = Normalize(e, t)
  BY DEF ReceiptInv
<1>3. PICK row \in webhookEvents : \/ row.id = request[r].key.id
                                   \/ row.semantic = request[r].key.semantic
  BY DEF Duplicate
<1> DEFINE f == row.event
<1>4. f \in Events
  BY <1>3 DEF TypeOK, Rows, Row
<1>5. PICK u \in Time : row = Row(f, Normalize(f, u))
  BY <1>3 DEF ReceiptInv
<1> DEFINE time(g, v) == IF CreatedAt[g] = None THEN v ELSE CreatedAt[g]
           semantic(g, v) == <<Subject[g], time(g, v)>>
           id(g, v) == IF Id[g] = None THEN semantic(g, v) ELSE Id[g]
<1>6. /\ row.semantic = semantic(f, u) /\ row.id = id(f, u)
      /\ request[r].key.semantic = semantic(e, t) /\ request[r].key.id = id(e, t)
  BY <1>2, <1>5 DEF Row, Normalize
<1>7. ASSUME NEW g \in Events, NEW v \in Time
      PROVE  time(g, v) \in Time
  BY IngressAssumption
<1>8. CASE f = e
  BY <1>3, <1>8 DEF Durable, HasRow
<1>9. CASE f # e
  <2>1. semantic(f, u) = semantic(e, t)
    <3>1. CASE Id[f] # None /\ Id[e] # None
      BY <1>1, <1>3, <1>4, <1>6, <1>9, <3>1, IngressAssumption
    <3>2. CASE Id[f] = None /\ Id[e] = None
      BY <1>3, <1>6, <3>2
    <3>3. CASE Id[f] = None /\ Id[e] # None
      BY <1>1, <1>3, <1>4, <1>6, <1>7, <3>3, IngressAssumption
    <3>4. CASE Id[f] # None /\ Id[e] = None
      BY <1>1, <1>3, <1>4, <1>6, <1>7, <3>4, IngressAssumption
    <3> QED BY <3>1, <3>2, <3>3, <3>4
  <2>2. Subject[f] = Subject[e] /\ time(f, u) = time(e, t)
    BY <2>1
  <2>3. e \notin Handled
    BY <1>1, <1>4, <1>9, <2>2, IngressAssumption
  <2>4. row.semantic[1] = Subject[e]
    BY <1>6, <2>2
  <2> QED BY <1>3, <2>3, <2>4 DEF Durable
<1> QED BY <1>8, <1>9

LEMMA ReceiptStep == TypeOK /\ ReceiptInv /\ [Next]_vars => ReceiptInv'
<1> SUFFICES ASSUME TypeOK, ReceiptInv, [Next]_vars PROVE ReceiptInv'
  OBVIOUS
<1> DEFINE RowsAre == \A row \in webhookEvents :
                         \E t \in Time : row = Row(row.event, Normalize(row.event, t))
           KeyIs(q) == q.pc \in {"commit", "publish"} =>
                          \E t \in Time : q.key = Normalize(q.event, t)
           QueueIs(q, rows) == q.pc = "publish" => HasRow(q.event, rows)
           AnswerIs(q, rows) == q.pc = "answer" /\ q.code = 202 => Durable(q.event, rows)
<1>t. /\ request \in [Requests -> RequestState] /\ tasks \in [Events -> Nat]
      /\ acknowledged \subseteq Events
      /\ \A r \in Requests : request[r].pc # "free" => request[r].event \in Events
  BY DEF TypeOK
<1>i. /\ RowsAre
      /\ \A r \in Requests : KeyIs(request[r]) /\ QueueIs(request[r], webhookEvents)
                             /\ AnswerIs(request[r], webhookEvents)
      /\ \A e \in acknowledged : Durable(e, webhookEvents)
      /\ \A e \in Events : tasks[e] > 0 => HasRow(e, webhookEvents)
  BY DEF ReceiptInv, AcknowledgedIsStored, TaskFindsItsRow, Durable, HasRow, Stored
<1>s. /\ RowsAre'
      /\ \A r \in Requests :
            KeyIs(request'[r]) /\ QueueIs(request'[r], webhookEvents')
            /\ AnswerIs(request'[r], webhookEvents')
      /\ \A e \in acknowledged' : Durable(e, webhookEvents')
      /\ \A e \in Events : tasks'[e] > 0 => HasRow(e, webhookEvents')
      => ReceiptInv'
  BY DEF ReceiptInv, AcknowledgedIsStored, TaskFindsItsRow, Durable, HasRow, Stored
<1> HIDE DEF RowsAre, KeyIs
<1>k. ASSUME NEW r \in Requests, request[r].pc # "free"
      PROVE  /\ HasRow(request[r].event, webhookEvents) => HasRow(request[r].event, webhookEvents')
             /\ Durable(request[r].event, webhookEvents) => Durable(request[r].event, webhookEvents')
  BY <1>t, <1>k, RowsStay
<1>1. RowsAre'
  <2>1. CASE UNCHANGED webhookEvents
    BY <1>i, <2>1 DEF RowsAre
  <2>2. ASSUME NEW r \in Requests, StoredNow(r)
        PROVE  RowsAre'
    <3>1. PICK t \in Time : request[r].key = Normalize(request[r].event, t)
      BY <1>i, <2>2 DEF StoredNow, KeyIs
    <3>2. Row(request[r].event, request[r].key).event = request[r].event
      BY DEF Row
    <3> QED BY <1>i, <2>2, <3>1, <3>2 DEF StoredNow, RowsAre
  <2> QED BY <2>1, <2>2, RequestSteps DEF Taken, Verified, Published, Refused, Released
<1>2. ASSUME NEW r \in Requests
      PROVE  KeyIs(request'[r])
  <2>1. ASSUME NEW e, NEW genuine, NEW q, NEW status
        PROVE  KeyIs(Received(e, genuine)) /\ KeyIs(Free) /\ KeyIs(Answered(q, status))
    BY DEF KeyIs, Received, Free, Answered
  <2>2. ASSUME NEW q, NEW t \in Time
        PROVE  KeyIs(WithKey(q, Normalize(q.event, t)))
    BY DEF KeyIs, WithKey
  <2>3. ASSUME NEW q, KeyIs(q), q.pc = "commit"
        PROVE  KeyIs(Publisher(q))
    BY <2>3 DEF KeyIs, Publisher
  <2> QED BY <1>t, <1>i, <2>1, <2>2, <2>3, RequestSteps
          DEF Taken, Verified, StoredNow, Published, Refused, Released
<1>3. ASSUME NEW r \in Requests, request'[r].pc = "publish"
      PROVE  HasRow(request'[r].event, webhookEvents')
  <2>1. CASE request'[r] = request[r]
    BY <1>3, <1>i, <1>k, <2>1
  <2>2. CASE StoredNow(r)
    <3>1. Row(request[r].event, request[r].key).event = request'[r].event
      BY <1>t, <2>2 DEF StoredNow, Row, Publisher
    <3> QED BY <2>2, <3>1 DEF StoredNow, HasRow
  <2> QED BY <1>3, <1>t, <2>1, <2>2, RequestSteps
          DEF Taken, Verified, StoredNow, Published, Refused, Released, Received, WithKey,
              Answered, Free
<1>4. ASSUME NEW r \in Requests, request'[r].pc = "answer", request'[r].code = 202
      PROVE  Durable(request'[r].event, webhookEvents')
  <2>1. CASE request'[r] = request[r]
    BY <1>4, <1>i, <1>k, <2>1
  <2>2. CASE Published(r)
    <3>1. request'[r].event = request[r].event /\ HasRow(request[r].event, webhookEvents)
      BY <1>t, <1>i, <2>2 DEF Published, Answered
    <3>2. Durable(request[r].event, webhookEvents)
      BY <3>1 DEF Durable
    <3> QED BY <1>k, <2>2, <3>1, <3>2 DEF Published
  <2>3. CASE Refused(r)
    <3>1. /\ request'[r].event = request[r].event
          /\ request[r].pc = "commit" /\ Duplicate(r)
      BY <1>4, <1>t, <2>3 DEF Refused, Answered
    <3> QED BY <1>k, <3>1, DuplicateIsDurable
  <2> QED BY <1>4, <1>t, <2>1, <2>2, <2>3, RequestSteps
          DEF Taken, Verified, StoredNow, Published, Refused, Released, Received, WithKey,
              Publisher, Free
<1>5. ASSUME NEW e \in acknowledged'
      PROVE  Durable(e, webhookEvents')
  <2>1. CASE e \in acknowledged
    BY <1>t, <1>i, <2>1, RowsStay
  <2>2. ASSUME NEW r \in Requests, request[r].pc = "answer", request[r].code = 202,
               e = request[r].event
        PROVE  Durable(e, webhookEvents')
    BY <1>i, <1>k, <2>2
  <2> QED BY <2>1, <2>2, RequestSteps
          DEF Taken, Verified, StoredNow, Published, Refused, Released
<1>6. ASSUME NEW e \in Events, tasks'[e] > 0
      PROVE  HasRow(e, webhookEvents')
  <2>1. CASE tasks'[e] = tasks[e]
    BY <1>6, <1>i, <2>1, RowsStay
  <2>2. ASSUME NEW r \in Requests, Published(r), e = request[r].event
        PROVE  HasRow(e, webhookEvents')
    BY <1>i, <1>k, <2>2 DEF Published
  <2> QED BY <1>t, <2>1, <2>2, RequestSteps
          DEF Taken, Verified, StoredNow, Published, Refused, Released
<1> QED BY <1>s, <1>1, <1>2, <1>3, <1>4, <1>5, <1>6

LEMMA ReceiptInvariant == Spec => [](TypeOK /\ ReceiptInv)
  BY TypeInit, TypeStep, ReceiptInit, ReceiptStep, PTL DEF Spec

(* A 2xx answer means that the event is in the table, whichever of its       *)
(* requests was answered and however they overlapped.                        *)
THEOREM AcknowledgedStored == Spec => []AcknowledgedIsStored
<1>1. ReceiptInv => AcknowledgedIsStored
  BY DEF ReceiptInv
<1> QED BY <1>1, ReceiptInvariant, PTL

(* Every task in the queue has its row.                                      *)
THEOREM TasksHaveRows == Spec => []TaskFindsItsRow
<1>1. ReceiptInv => TaskFindsItsRow
  BY DEF ReceiptInv
<1> QED BY <1>1, ReceiptInvariant, PTL

-----------------------------------------------------------------------------
(* What can be told apart is received once. *)

LEMMA OnceInit == Init => OnceInv
  BY DEF Init, OnceInv, Free

(* Two deliveries of an identified event have a key in common.               *)
LEMMA FirstRow ==
  ASSUME TypeOK, ReceiptInv, NEW r \in Requests, StoredNow(r), Identified(request[r].event)
  PROVE  ~HasRow(request[r].event, webhookEvents)
<1> DEFINE e == request[r].event
<1> SUFFICES ASSUME NEW row \in webhookEvents, row.event = e PROVE FALSE
  BY DEF HasRow
<1>1. PICK t \in Time : request[r].key = Normalize(e, t)
  BY DEF ReceiptInv, StoredNow
<1>2. PICK u \in Time : row = Row(e, Normalize(e, u))
  BY DEF ReceiptInv
<1>3. row.id = request[r].key.id \/ row.semantic = request[r].key.semantic
  BY <1>1, <1>2 DEF Row, Normalize, Identified
<1> QED BY <1>3 DEF StoredNow, Duplicate

(* Which requests publish after a step.                                      *)
LEMMA PublisherChange ==
  ASSUME TypeOK, [Next]_vars, NEW r \in Requests, request'[r].pc = "publish"
  PROVE  request'[r].event = request[r].event /\ (request[r].pc = "publish" \/ StoredNow(r))
<1>1. request \in [Requests -> RequestState]
  BY DEF TypeOK
<1> QED BY <1>1, RequestSteps
        DEF Taken, Verified, StoredNow, Published, Refused, Released, Received, WithKey,
            Publisher, Answered, Free

LEMMA OnceStep == TypeOK /\ ReceiptInv /\ OnceInv /\ [Next]_vars => OnceInv'
<1> SUFFICES ASSUME TypeOK, ReceiptInv, OnceInv, [Next]_vars,
                    NEW e \in Events, Identified(e)
             PROVE  /\ \A row1, row2 \in webhookEvents' :
                          row1.event = e /\ row2.event = e => row1 = row2
                    /\ tasks'[e] <= 1
                    /\ \A r \in Requests :
                          request'[r].pc = "publish" /\ request'[r].event = e =>
                             /\ tasks'[e] = 0
                             /\ \A s \in Requests :
                                   request'[s].pc = "publish" /\ request'[s].event = e
                                      => s = r
  BY DEF OnceInv
<1>t. request \in [Requests -> RequestState] /\ tasks \in [Events -> Nat]
  BY DEF TypeOK
<1>i. /\ \A row1, row2 \in webhookEvents :
            row1.event = e /\ row2.event = e => row1 = row2
      /\ tasks[e] <= 1
      /\ \A r \in Requests :
            request[r].pc = "publish" /\ request[r].event = e =>
               /\ tasks[e] = 0
               /\ \A s \in Requests :
                     request[s].pc = "publish" /\ request[s].event = e => s = r
  BY DEF OnceInv
<1>1. ASSUME NEW r \in Requests, StoredNow(r), request[r].event = e
      PROVE  /\ \A row \in webhookEvents : row.event # e
             /\ tasks[e] = 0
             /\ \A s \in Requests : ~(request[s].pc = "publish" /\ request[s].event = e)
  <2>1. ~HasRow(e, webhookEvents)
    BY <1>1, FirstRow
  <2> QED BY <1>t, <2>1 DEF HasRow, ReceiptInv, TaskFindsItsRow, Stored
<1>2. ASSUME NEW row1 \in webhookEvents', NEW row2 \in webhookEvents',
             row1.event = e, row2.event = e
      PROVE  row1 = row2
  <2>1. CASE UNCHANGED webhookEvents
    BY <1>2, <1>i, <2>1
  <2>2. ASSUME NEW r \in Requests, StoredNow(r)
        PROVE  row1 = row2
    <3>1. Row(request[r].event, request[r].key).event = request[r].event
      BY DEF Row
    <3>2. CASE request[r].event = e
      BY <1>1, <1>2, <2>2, <3>2 DEF StoredNow
    <3>3. CASE request[r].event # e
      BY <1>2, <1>i, <2>2, <3>1, <3>3 DEF StoredNow
    <3> QED BY <3>2, <3>3
  <2> QED BY <2>1, <2>2, RequestSteps DEF Taken, Verified, Published, Refused, Released
<1>3. \/ tasks'[e] = tasks[e]
      \/ /\ tasks'[e] = tasks[e] + 1
         /\ \E r \in Requests : /\ request[r].pc = "publish" /\ request[r].event = e
                                /\ request'[r].pc # "publish"
  BY <1>t, RequestSteps
  DEF Taken, Verified, StoredNow, Published, Refused, Released, Answered
<1>4. tasks'[e] <= 1
  BY <1>t, <1>i, <1>3
<1>5. ASSUME NEW r \in Requests, request'[r].pc = "publish", request'[r].event = e
      PROVE  tasks'[e] = 0
  <2>1. CASE request[r].pc = "publish" /\ request[r].event = e
    BY <1>5, <1>i, <1>3, <2>1
  <2>2. CASE StoredNow(r) /\ request[r].event = e
    BY <1>1, <1>3, <2>2
  <2> QED BY <1>5, <2>1, <2>2, PublisherChange
<1>6. ASSUME NEW r \in Requests, request'[r].pc = "publish", request'[r].event = e,
             NEW s \in Requests, request'[s].pc = "publish", request'[s].event = e
      PROVE  s = r
  <2>1. /\ request[r].event = e /\ (request[r].pc = "publish" \/ StoredNow(r))
        /\ request[s].event = e /\ (request[s].pc = "publish" \/ StoredNow(s))
    BY <1>6, PublisherChange
  <2>2. CASE request[r].pc = "publish" /\ request[s].pc = "publish"
    BY <1>i, <2>1, <2>2
  <2>3. CASE StoredNow(r)
    <3>1. request[s].pc # "publish"
      BY <1>1, <2>1, <2>3
    <3> QED BY <1>t, <1>6, <2>3, <3>1 DEF StoredNow
  <2>4. CASE StoredNow(s)
    <3>1. request[r].pc # "publish"
      BY <1>1, <2>1, <2>4
    <3> QED BY <1>t, <1>6, <2>4, <3>1 DEF StoredNow
  <2> QED BY <2>1, <2>2, <2>3, <2>4
<1> QED BY <1>2, <1>4, <1>5, <1>6

LEMMA OnceInvariant == Spec => [](TypeOK /\ ReceiptInv /\ OnceInv)
  BY ReceiptInvariant, OnceInit, OnceStep, PTL DEF Spec

(* An event with an id or a time of its own has one row and at most one      *)
(* task, through any number of retries and concurrent requests.              *)
THEOREM ReceivedOnce == Spec => []IdentifiedOnce
<1>1. ASSUME OnceInv PROVE IdentifiedOnce
  <2> SUFFICES ASSUME NEW e \in Events, Identified(e)
               PROVE  /\ Cardinality({row \in webhookEvents : row.event = e}) <= 1
                      /\ tasks[e] <= 1
    BY DEF IdentifiedOnce, Identified
  <2> DEFINE mine == {row \in webhookEvents : row.event = e}
  <2>1. \A row1, row2 \in mine : row1 = row2
    BY <1>1 DEF OnceInv
  <2> HIDE DEF mine
  <2>2. mine = {} \/ \E row : mine = {row}
    BY <2>1
  <2>3. Cardinality(mine) <= 1
    <3>1. CASE mine = {}
      BY <3>1, FS_EmptySet
    <3>2. ASSUME NEW row, mine = {row} PROVE Cardinality(mine) = 1
      BY <3>2, FS_Singleton
    <3> QED BY <2>2, <3>1, <3>2
  <2> QED BY <1>1, <2>3 DEF OnceInv, mine
<1> QED BY <1>1, OnceInvariant, PTL

-----------------------------------------------------------------------------
(* The abstract receipt: absent, and then queued or unqueued for good. *)

Publishes(q, e) == q.pc = "publish" /\ q.event = e

(* A step about a request that does not publish e, before or after, and that *)
(* stores no row of e and publishes no task of it, leaves the receipt of e.  *)
LEMMA SameReceipt ==
  ASSUME TypeOK, NEW e \in Events, tasks'[e] = tasks[e],
         HasRow(e, webhookEvents') <=> HasRow(e, webhookEvents),
         NEW r \in Requests, NEW q, request' = [request EXCEPT ![r] = q],
         ~Publishes(request[r], e), ~Publishes(q, e)
  PROVE  ReceiptOf(e)' = ReceiptOf(e)
<1>1. Publishing(e)' <=> Publishing(e)
  BY DEF Publishing, Publishes, TypeOK
<1>2. Stored(e)' <=> Stored(e)
  BY DEF Stored, HasRow
<1> QED BY <1>1, <1>2 DEF ReceiptOf

(* The receipts after a step that publishes no event.                        *)
LEMMA QuietStep ==
  ASSUME TypeOK, NEW r \in Requests, request[r].pc # "publish",
         Taken(r) \/ Verified(r) \/ Refused(r) \/ Released(r), NEW e \in Events
  PROVE  ReceiptOf(e)' = ReceiptOf(e)
<1>1. PICK q : request' = [request EXCEPT ![r] = q] /\ q.pc # "publish"
  BY DEF Taken, Verified, Refused, Released, Received, WithKey, Answered, Free
<1>2. UNCHANGED <<webhookEvents, tasks>>
  BY DEF Taken, Verified, Refused, Released
<1> QED BY <1>1, <1>2, SameReceipt DEF Publishes

(* The receipts of the events a step is not about.                           *)
LEMMA OtherReceipts ==
  ASSUME TypeOK, NEW r \in Requests,
         StoredNow(r) \/ Published(r) \/ Refused(r) \/ Released(r),
         NEW e \in Events, e # request[r].event
  PROVE  ReceiptOf(e)' = ReceiptOf(e)
<1>1. PICK q : /\ request' = [request EXCEPT ![r] = q]
               /\ q.pc = "publish" => q.event = request[r].event
  BY DEF StoredNow, Published, Refused, Released, Publisher, Answered, Free
<1>2. tasks'[e] = tasks[e]
  BY DEF StoredNow, Published, Refused, Released, TypeOK
<1>3. HasRow(e, webhookEvents') <=> HasRow(e, webhookEvents)
  <2>1. Row(request[r].event, request[r].key).event = request[r].event
    BY DEF Row
  <2> QED BY <2>1 DEF StoredNow, Published, Refused, Released, HasRow
<1> QED BY <1>1, <1>2, <1>3, SameReceipt DEF Publishes

(* Committing the row keeps the receipt absent until the task is handed on.  *)
LEMMA StoredIsPublishing ==
  ASSUME TypeOK, ReceiptInv, NEW r \in Requests, StoredNow(r),
         NEW e \in Events, e = request[r].event, Identified(e)
  PROVE  ReceiptOf(e)' = ReceiptOf(e)
<1>1. ReceiptOf(e) = "NONE"
  BY FirstRow DEF ReceiptOf, Stored, HasRow
<1>2. request'[r].pc = "publish" /\ request'[r].event = e
  BY DEF StoredNow, Publisher, TypeOK
<1>3. Publishing(e)'
  BY <1>2 DEF Publishing
<1> QED BY <1>1, <1>3 DEF ReceiptOf

(* The one publisher of an event decides whether its receipt is queued.      *)
LEMMA PublisherDecides ==
  ASSUME TypeOK, ReceiptInv, OnceInv, NEW r \in Requests, request[r].pc = "publish",
         Published(r) \/ Refused(r) \/ Released(r),
         NEW e \in Events, e = request[r].event, Identified(e)
  PROVE  ReceiptOf(e) = "NONE" /\ ReceiptOf(e)' \in {"QUEUED", "UNQUEUED"}
<1>1. Publishing(e)
  BY DEF Publishing
<1>2. Stored(e)'
  <2>1. HasRow(e, webhookEvents)
    BY DEF ReceiptInv
  <2> QED BY <2>1 DEF HasRow, Stored, Published, Refused, Released
<1>3. request'[r].pc # "publish" /\ \A s \in Requests \ {r} : request'[s] = request[s]
  BY DEF Published, Refused, Released, Answered, Free, TypeOK
<1>4. ~Publishing(e)'
  BY <1>3 DEF OnceInv, Publishing
<1> QED BY <1>1, <1>2, <1>4 DEF ReceiptOf

LEMMA ReceiptSteps ==
  ASSUME TypeOK, ReceiptInv, OnceInv, [Next]_vars
  PROVE  \/ \A e \in Handled : ReceiptOf(e)' = ReceiptOf(e)
         \/ \E e \in Handled :
               /\ ReceiptOf(e) = "NONE" /\ ReceiptOf(e)' \in {"QUEUED", "UNQUEUED"}
               /\ \A f \in Handled \ {e} : ReceiptOf(f)' = ReceiptOf(f)
<1>1. \A e \in Handled : e \in Events /\ Identified(e)
  BY IngressAssumption DEF Identified
<1>2. CASE UNCHANGED <<acknowledged, webhookEvents, tasks, request>>
  BY <1>2 DEF ReceiptOf, Stored, Publishing
<1>3. ASSUME NEW r \in Requests, StoredNow(r)
      PROVE  \A e \in Handled : ReceiptOf(e)' = ReceiptOf(e)
  BY <1>1, <1>3, StoredIsPublishing, OtherReceipts
<1>4. ASSUME NEW r \in Requests, Taken(r) \/ Verified(r) \/ Refused(r) \/ Released(r),
             request[r].pc # "publish"
      PROVE  \A e \in Handled : ReceiptOf(e)' = ReceiptOf(e)
  BY <1>1, <1>4, QuietStep
<1>5. ASSUME NEW r \in Requests, Published(r) \/ Refused(r) \/ Released(r),
             request[r].pc = "publish"
      PROVE  \/ \A e \in Handled : ReceiptOf(e)' = ReceiptOf(e)
             \/ \E e \in Handled :
                   /\ ReceiptOf(e) = "NONE" /\ ReceiptOf(e)' \in {"QUEUED", "UNQUEUED"}
                   /\ \A f \in Handled \ {e} : ReceiptOf(f)' = ReceiptOf(f)
  <2>1. \A f \in Handled : f # request[r].event => ReceiptOf(f)' = ReceiptOf(f)
    BY <1>1, <1>5, OtherReceipts
  <2>2. CASE request[r].event \in Handled
    BY <1>1, <1>5, <2>1, <2>2, PublisherDecides
  <2> QED BY <2>1, <2>2
<1>6. \A r \in Requests : /\ Taken(r) \/ Verified(r) => request[r].pc # "publish"
                          /\ Published(r) => request[r].pc = "publish"
  BY DEF Taken, Verified, Published, Free
<1> QED BY <1>2, <1>3, <1>4, <1>5, <1>6, RequestSteps

(* Concurrent requests, retries, lost answers and a refusing broker come     *)
(* down to one receipt of each event, queued or not, for any number of       *)
(* requests: the ingress implements WebhookReceipts.                         *)
THEOREM ReceivesOnce == Spec => ImplementsReceipts
<1>1. Init => Receipts!Init
  BY DEF Init, Receipts!Init, ReceiptOf, Stored
<1>2. TypeOK /\ ReceiptInv /\ OnceInv /\ [Next]_vars
         => [\E e \in Handled : Receipts!Receive(e)]_([e \in Handled |-> ReceiptOf(e)])
  <2> SUFFICES ASSUME TypeOK, ReceiptInv, OnceInv, [Next]_vars
               PROVE  [\E e \in Handled : Receipts!Receive(e)]_([e \in Handled |-> ReceiptOf(e)])
    OBVIOUS
  <2>1. CASE \A e \in Handled : ReceiptOf(e)' = ReceiptOf(e)
    BY <2>1
  <2>2. ASSUME NEW e \in Handled,
               ReceiptOf(e) = "NONE", ReceiptOf(e)' \in {"QUEUED", "UNQUEUED"},
               \A f \in Handled \ {e} : ReceiptOf(f)' = ReceiptOf(f)
        PROVE  Receipts!Receive(e)
    <3> DEFINE before == [f \in Handled |-> ReceiptOf(f)]
               after == [f \in Handled |-> ReceiptOf(f)']
    <3>1. after = [before EXCEPT ![e] = ReceiptOf(e)']
      BY <2>2
    <3> QED BY <2>2, <3>1 DEF Receipts!Receive
  <2> QED BY <2>1, <2>2, ReceiptSteps
<1> QED BY <1>1, <1>2, OnceInvariant, PTL DEF Spec, ImplementsReceipts, Receipts!Spec
=============================================================================
