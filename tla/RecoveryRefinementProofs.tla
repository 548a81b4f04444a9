---------------------- MODULE RecoveryRefinementProofs ----------------------
(***************************************************************************)
(* The proof that the pipeline implements RecoveryContract: initial states *)
(* are mapped to initial states, and every step to a step of the contract  *)
(* or to one that leaves its variables alone.                              *)
(***************************************************************************)
EXTENDS RecoveryRefinement, RecoveryLedgerProofs

(* Everything known of the reachable states that the mapping needs.          *)
PipelineInv ==
    /\ TypeInv
    /\ ActionInv
    /\ DecisionInv
    /\ AbsentRows
    /\ EvidenceInv
    /\ RecoveryIsEvidenced
    /\ ExecutionInv
    /\ AuditInv

LEMMA PipelineInvariant == Spec => []PipelineInv
<1>1. Spec => []EvidenceInv
  BY CaseInvariant, EvidenceInit, EvidenceStep, PTL DEF Spec
<1> QED
  BY <1>1, CaseInvariant, RecoveryEvidenced, ExecutionInvariant, AuditInvariant, PTL
  DEF PipelineInv
-----------------------------------------------------------------------------
(* The mapped variables, each under what changes it.                         *)

LEMMA CapturedUnchanged == UNCHANGED payments => UNCHANGED CapturedPayments
  BY DEF CapturedPayments

LEMMA SentUnchanged == UNCHANGED <<links, emails>> => UNCHANGED SentFor
  BY DEF SentFor

LEMMA TrailUnchanged == UNCHANGED audit => UNCHANGED AttestedStates
  BY DEF AttestedStates

(* Records of one case extend what is attested for it.                       *)
LEMMA TrailExtended ==
  ASSUME NEW p \in Payments, NEW new,
         \A a \in new : a.case = p,
         audit' = audit \cup new
  PROVE  AttestedStates' =
            [AttestedStates EXCEPT ![p] = @ \cup ({a.after : a \in new} \ {None})]
<1> DEFINE Attested(q) == {a.after : a \in {b \in audit : b.case = q}} \ {None}
           Added == {a.after : a \in new} \ {None}
<1>1. Attested(p)' = Attested(p) \cup Added
  OBVIOUS
<1>2. ASSUME NEW q \in Payments, q # p
      PROVE  Attested(q)' = Attested(q)
  BY <1>2
<1>3. /\ AttestedStates = [q \in Payments |-> Attested(q)]
      /\ AttestedStates' = [q \in Payments |-> Attested(q)']
  BY DEF AttestedStates
<1> HIDE DEF Attested, Added
<1>4. AttestedStates' = [AttestedStates EXCEPT ![p] = @ \cup Added]
  BY <1>1, <1>2, <1>3
<1> QED BY <1>4 DEF Added

(* What was sent for a payment, and for the others, after an effect.         *)
LEMMA SentOnce ==
  ASSUME TypeInv, NEW w \in Workers, NEW p \in Payments, p = Subject(w), Effect(w),
         links[p] = 0, emails[p] = 0, p \notin paymentLinks
  PROVE  SentFor' = [SentFor EXCEPT ![p] = Contract!EffectOf(cmd[w])]
<1>1. /\ links' = IF cmd[w] = "CREATE_PAYMENT_LINK"
                  THEN [links EXCEPT ![p] = @ + 1] ELSE links
      /\ emails' = IF cmd[w] = "SEND_RECOVERY_MESSAGE"
                   THEN [emails EXCEPT ![p] = @ + 1] ELSE emails
  BY DEF Effect
<1>2. ASSUME NEW q \in Payments, q # p
      PROVE  links'[q] = links[q] /\ emails'[q] = emails[q]
  BY <1>1, <1>2 DEF TypeInv, TypeOK
<1>3. /\ links'[p] = IF cmd[w] = "CREATE_PAYMENT_LINK" THEN 1 ELSE 0
      /\ emails'[p] = IF cmd[w] = "SEND_RECOVERY_MESSAGE" THEN 1 ELSE 0
  BY <1>1 DEF TypeInv, TypeOK
<1> DEFINE Sent(q) == IF links[q] > 0 THEN "link"
                      ELSE IF emails[q] > 0 THEN "message" ELSE "nothing"
<1>4. Sent(p)' = Contract!EffectOf(cmd[w])
  BY <1>3 DEF Contract!EffectOf
<1>5. ASSUME NEW q \in Payments, q # p
      PROVE  Sent(q)' = Sent(q)
  BY <1>2, <1>5
<1>6. /\ SentFor = [q \in Payments |-> Sent(q)]
      /\ SentFor' = [q \in Payments |-> Sent(q)']
  BY DEF SentFor
<1> HIDE DEF Sent
<1> QED BY <1>4, <1>5, <1>6

-----------------------------------------------------------------------------
(* Each action that changes what the contract speaks about.                  *)

LEMMA InitMaps == Init => Contract!Init
<1> SUFFICES ASSUME Init PROVE Contract!Init
  OBVIOUS
<1>1. CapturedPayments = {}
  BY DEF Init, CapturedPayments
<1>2. SentFor = [p \in Payments |-> "nothing"]
  BY DEF Init, SentFor
<1>3. AttestedStates = [p \in Payments |-> {}]
  BY DEF Init, AttestedStates
<1> QED BY <1>1, <1>2, <1>3 DEF Init, Contract!Init, NoRow, NoDecision, Contract!NoRow

LEMMA AuthorizeMaps ==
  ASSUME TypeInv, NEW p \in Payments, AuthorizePayment(p)
  PROVE  UNCHANGED Contract!contractVars
<1>1. CapturedPayments' = CapturedPayments
  BY DEF AuthorizePayment, CapturedPayments, TypeInv, TypeOK
<1> QED BY <1>1, SentUnchanged, TrailUnchanged
        DEF AuthorizePayment, Contract!contractVars, database

LEMMA CaptureMaps ==
  ASSUME TypeInv, NEW id \in Paying, CapturePayment(id)
  PROVE  id \in PaymentId /\ Contract!Capture(id)
<1>1. id \in PaymentId
  BY ConstantsAssumption
<1>2. CapturedPayments' = CapturedPayments \cup {id}
  BY <1>1 DEF CapturePayment, CapturedPayments, TypeInv, TypeOK
<1>3. id.via = "link" => SentFor[id.of] = "link"
  BY <1>1 DEF CapturePayment, SentFor, PaymentId
<1> QED BY <1>1, <1>2, <1>3, SentUnchanged, TrailUnchanged
        DEF CapturePayment, Contract!Capture, database

(* The states a decision attests.                                            *)
LEMMA DecisionAttests ==
  ASSUME NEW p, NEW allowed \in BOOLEAN
  PROVE  {a.after : a \in DecisionAudit(p, allowed)} =
            {"DETECTED", "DIAGNOSING", "ACTION_PROPOSED",
             IF allowed THEN "AUTHORIZED" ELSE "NEEDS_REVIEW"}
<1> DEFINE r1 == record(p, "CASE_CREATED", None, "DETECTED")
           r2 == record(p, "DIAGNOSIS_CREATED", None, "DIAGNOSING")
           r3 == record(p, "AGENT_RECOMMENDATION_CREATED", None, "ACTION_PROPOSED")
           r4 == record(p, "POLICY_ALLOWED", "ACTION_PROPOSED", "AUTHORIZED")
           r5 == record(p, "POLICY_BLOCKED", "ACTION_PROPOSED", "NEEDS_REVIEW")
           r6 == record(p, "HUMAN_APPROVAL_REQUESTED", None, "NEEDS_REVIEW")
<1>1. /\ r1.after = "DETECTED" /\ r2.after = "DIAGNOSING" /\ r3.after = "ACTION_PROPOSED"
      /\ r4.after = "AUTHORIZED" /\ r5.after = "NEEDS_REVIEW" /\ r6.after = "NEEDS_REVIEW"
  BY DEF record
<1>2. DecisionAudit(p, allowed) =
         {r1, r2, r3} \cup (IF allowed THEN {r4} ELSE {r5, r6})
  BY DEF DecisionAudit
<1> HIDE DEF r1, r2, r3, r4, r5, r6
<1>3. CASE allowed
  BY <1>1, <1>2, <1>3
<1>4. CASE ~allowed
  BY <1>1, <1>2, <1>4
<1> QED BY <1>3, <1>4

LEMMA DecideMaps ==
  ASSUME PipelineInv, NEW w \in Workers, Decide(w)
  PROVE  \E p \in Payments : \E d \in [action : RecoveryAction, allowed : BOOLEAN] :
            Contract!Open(p, d)
<1> DEFINE p == Subject(w)
<1>1. /\ TypeInv /\ p \in Payments /\ ~Exists(p)
      /\ cases[p] \in CaseRow /\ cases[p].already_paid = FALSE
      /\ \A a \in audit : a.case # p
  <2>1. p \in Payments /\ ~Exists(p)
    BY MessageType DEF Decide, PipelineInv, TypeInv, ActionInv, RowsOfWorkers
  <2>2. cases[p] \in CaseRow /\ cases[p].state = "NONE" /\ ~cases[p].already_paid
    BY <2>1 DEF PipelineInv, TypeInv, TypeOK, AbsentRows, Exists
  <2> QED BY <2>1, <2>2 DEF PipelineInv, AuditInv, CaseRow
<1>2. PICK rec \in Recommendations(p) : DecideAs(w, p, rec, Authorizes(p, rec))
  BY DEF Decide
<1> DEFINE d == [action |-> rec.action, allowed |-> Authorizes(p, rec)]
           final == IF d.allowed THEN "AUTHORIZED" ELSE "NEEDS_REVIEW"
<1>3. d \in [action : RecoveryAction, allowed : BOOLEAN]
  BY <1>1, RecommendationType DEF Authorizes, Evaluate
<1>4. /\ cases' = [cases EXCEPT ![p] = [state |-> final, already_paid |-> FALSE]]
      /\ decisions' = [decisions EXCEPT ![p] = d]
      /\ audit' = audit \cup DecisionAudit(p, d.allowed)
      /\ UNCHANGED <<payments, links, emails, outcomes>>
  BY <1>2 DEF DecideAs, FinalState, Decide, provider
<1> HIDE DEF d
<1>5. cases' = [cases EXCEPT ![p].state = final]
  <2> HIDE DEF final
  <2>1. [cases[p] EXCEPT !.state = final]
           = [state |-> final, already_paid |-> cases[p].already_paid]
    BY <1>1 DEF CaseRow
  <2>2. [cases[p] EXCEPT !.state = final] = [state |-> final, already_paid |-> FALSE]
    BY <1>1, <2>1, Zenon
  <2> QED BY <1>4, <2>2
<1>6. AttestedStates' = [AttestedStates EXCEPT ![p] =
                            {"DETECTED", "DIAGNOSING", "ACTION_PROPOSED", final}]
  <2>1. \A a \in DecisionAudit(p, d.allowed) : a.case = p
    BY DEF DecisionAudit, record
  <2>2. {a.after : a \in DecisionAudit(p, d.allowed)}
           = {"DETECTED", "DIAGNOSING", "ACTION_PROPOSED", final}
    BY DecisionAttests, <1>3
  <2>3. None \notin {"DETECTED", "DIAGNOSING", "ACTION_PROPOSED", final}
    BY ConstantsAssumption DEF CaseState
  <2>4. AttestedStates[p] = {}
    BY <1>1 DEF AttestedStates
  <2> DEFINE after == {a.after : a \in DecisionAudit(p, d.allowed)}
  <2>5. AttestedStates' = [AttestedStates EXCEPT ![p] = @ \cup (after \ {None})]
    BY <1>1, <1>4, <2>1, TrailExtended
  <2>6. AttestedStates[p] \cup (after \ {None})
           = {"DETECTED", "DIAGNOSING", "ACTION_PROPOSED", final}
    BY <2>2, <2>3, <2>4
  <2> QED BY <2>5, <2>6
<1> QED BY <1>1, <1>3, <1>4, <1>5, <1>6, CapturedUnchanged, SentUnchanged
        DEF Contract!Open, Contract!Exists, Exists

(* What holds of the payment of a worker inside execute.                     *)
LEMMA ActorFacts ==
  ASSUME PipelineInv, NEW w \in Workers, NEW p, p = Subject(w), pc[w] \in Acting
  PROVE  /\ p \in Payments /\ p \notin paymentLinks
         /\ sess[w].state = "AUTHORIZED"
         /\ decisions[p].allowed /\ decisions[p].action = cmd[w]
         /\ "WAITING_FOR_OUTCOME" \notin AttestedStates[p]
         /\ "AUTHORIZED" \in AttestedStates[p]
         /\ pc[w] \in {"recheck", "act"} =>
               links[p] = 0 /\ emails[p] = 0 /\ SentFor[p] = "nothing"
<1>1. p \in Payments
  BY ActingAlone DEF PipelineInv
<1>2. pc[w] \in {"recheck", "act"} => links[p] = 0 /\ emails[p] = 0
  BY DEF PipelineInv, ActionInv, NothingSentYet
<1>3. decisions[p] = [action |-> cmd[w], allowed |-> TRUE]
  BY DEF PipelineInv, DecisionInv, CommandIsDecided
<1>4. p \notin paymentLinks /\ sess[w].state = "AUTHORIZED"
  BY DEF PipelineInv, ExecutionInv, TypeInv, SessionOK
<1>5. /\ \A a \in audit : a.case = p => a.after # "WAITING_FOR_OUTCOME"
      /\ \E a \in audit : a.case = p /\ a.after = "AUTHORIZED"
  BY DEF PipelineInv, AuditInv
<1>6. "AUTHORIZED" # None
  BY ConstantsAssumption DEF CaseState
<1>7. AttestedStates[p] = {a.after : a \in {b \in audit : b.case = p}} \ {None}
  BY <1>1 DEF AttestedStates
<1>8. /\ "WAITING_FOR_OUTCOME" \notin AttestedStates[p]
      /\ "AUTHORIZED" \in AttestedStates[p]
  BY <1>5, <1>6, <1>7
<1> QED BY <1>1, <1>2, <1>3, <1>4, <1>8 DEF SentFor

(* A record of a state that is attested already adds nothing.                *)
LEMMA TrailKept ==
  ASSUME NEW p \in Payments, NEW r, r.case = p, audit' = audit \cup {r},
         r.after = None \/ r.after \in AttestedStates[p]
  PROVE  UNCHANGED AttestedStates
<1>1. AttestedStates' =
         [AttestedStates EXCEPT ![p] = @ \cup ({a.after : a \in {r}} \ {None})]
  BY TrailExtended
<1>2. AttestedStates[p] \cup ({a.after : a \in {r}} \ {None}) = AttestedStates[p]
  OBVIOUS
<1> QED BY <1>1, <1>2 DEF AttestedStates

LEMMA RecheckPaidMaps ==
  ASSUME PipelineInv, NEW w \in Workers, RecheckPaid(w)
  PROVE  \E p \in Payments : Contract!LearnPaid(p)
<1> DEFINE p == Subject(w)
           r == record(p, "ACTION_CANCELLED_ALREADY_PAID", sess[w].state, sess[w].state)
<1>1. pc[w] = "recheck" /\ pc[w] \in Acting
  BY DEF RecheckPaid, Acting
<1>2. /\ cases' = [cases EXCEPT ![p].already_paid = TRUE]
      /\ audit' = audit \cup {r}
      /\ UNCHANGED <<payments, links, emails, decisions, outcomes>>
  BY DEF RecheckPaid, PaidRow, provider
<1>3. r.case = p /\ r.after = sess[w].state
  BY DEF record
<1> HIDE DEF r
<1>4. UNCHANGED AttestedStates
  BY <1>1, <1>2, <1>3, ActorFacts, TrailKept
<1>5. p \in Payments /\ decisions[p].allowed /\ SentFor[p] = "nothing"
  BY <1>1, ActorFacts
<1> QED BY <1>2, <1>4, <1>5, CapturedUnchanged, SentUnchanged DEF Contract!LearnPaid

LEMMA RecheckUnavailableMaps ==
  ASSUME PipelineInv, NEW w \in Workers, RecheckUnavailable(w)
  PROVE  UNCHANGED Contract!contractVars
<1> DEFINE p == Subject(w)
           r == record(p, "ACTION_FAILED", sess[w].state, sess[w].state)
<1>1. pc[w] \in Acting
  BY DEF RecheckUnavailable, Acting
<1>2. /\ audit' = audit \cup {r}
      /\ UNCHANGED <<payments, links, emails, cases, decisions, outcomes>>
  BY DEF RecheckUnavailable, provider
<1>3. r.case = p /\ r.after = sess[w].state
  BY DEF record
<1> HIDE DEF r
<1>4. UNCHANGED AttestedStates
  BY <1>1, <1>2, <1>3, ActorFacts, TrailKept
<1> QED BY <1>2, <1>4, CapturedUnchanged, SentUnchanged DEF Contract!contractVars

(* An effect is the one decided, and happens while the contract allows it.   *)
LEMMA EffectMaps ==
  ASSUME PipelineInv, NEW w \in Workers, pc[w] = "act", Effect(w),
         UNCHANGED <<payments, cases, decisions, outcomes, AttestedStates>>
  PROVE  \/ UNCHANGED Contract!contractVars
         \/ \E p \in Payments : Contract!Send(p)
<1> DEFINE p == Subject(w)
<1>1. /\ p \in Payments /\ p \notin paymentLinks
      /\ links[p] = 0 /\ emails[p] = 0 /\ SentFor[p] = "nothing"
      /\ decisions[p].allowed /\ decisions[p].action = cmd[w]
      /\ "WAITING_FOR_OUTCOME" \notin AttestedStates[p]
  BY ActorFacts DEF Acting
<1>2. SentFor' = [SentFor EXCEPT ![p] = Contract!EffectOf(cmd[w])]
  BY <1>1, SentOnce DEF PipelineInv
<1>3. CASE Contract!EffectOf(cmd[w]) = "nothing"
  <2>1. UNCHANGED SentFor
    BY <1>1, <1>2, <1>3 DEF SentFor
  <2> QED BY <2>1, CapturedUnchanged DEF Contract!contractVars
<1>4. CASE Contract!EffectOf(cmd[w]) # "nothing"
  BY <1>1, <1>2, <1>4, CapturedUnchanged DEF Contract!Send
<1> QED BY <1>3, <1>4

LEMMA ActMaps ==
  ASSUME PipelineInv, NEW w \in Workers, Act(w)
  PROVE  \/ UNCHANGED Contract!contractVars
         \/ \E p \in Payments : Contract!Send(p)
  BY EffectMaps, TrailUnchanged DEF Act, database

LEMMA ActionFailsMaps ==
  ASSUME PipelineInv, NEW w \in Workers, ActionFails(w)
  PROVE  \/ UNCHANGED Contract!contractVars
         \/ \E p \in Payments : Contract!Send(p)
<1> DEFINE r == record(Subject(w), "ACTION_FAILED", None, None)
<1>1. /\ UNCHANGED <<payments, cases, decisions, outcomes>>
      /\ UNCHANGED audit \/ audit' = audit \cup {r}
      /\ (pc[w] = "act" /\ Effect(w)) \/ UNCHANGED <<links, emails>>
      /\ pc[w] \in Acting
  BY DEF ActionFails, Acting
<1>2. r.case = Subject(w) /\ r.after = None
  BY DEF record
<1> HIDE DEF r
<1>3. UNCHANGED AttestedStates
  BY <1>1, <1>2, ActorFacts, TrailKept, TrailUnchanged
<1>4. CASE UNCHANGED <<links, emails>>
  BY <1>1, <1>3, <1>4, CapturedUnchanged, SentUnchanged DEF Contract!contractVars
<1>5. CASE pc[w] = "act" /\ Effect(w)
  BY <1>1, <1>3, <1>5, EffectMaps
<1> QED BY <1>1, <1>4, <1>5

LEMMA CommitActionMaps ==
  ASSUME PipelineInv, NEW w \in Workers, CommitAction(w)
  PROVE  \E p \in Payments : Contract!Record(p)
<1> DEFINE p == Subject(w)
<1>1. pc[w] = "commit_action" /\ pc[w] \in Acting
  BY DEF CommitAction, Acting
<1>2. /\ cases' = [cases EXCEPT ![p].state = "WAITING_FOR_OUTCOME"]
      /\ audit' = audit \cup ExecutionAudit(w)
      /\ UNCHANGED <<payments, links, emails, decisions, outcomes>>
  BY DEF CommitAction, UpdatedRow, provider
<1>3. /\ p \in Payments
      /\ decisions[p].allowed /\ decisions[p].action = cmd[w]
      /\ "WAITING_FOR_OUTCOME" \notin AttestedStates[p]
  BY <1>1, ActorFacts
<1>4. SentFor[p] = Contract!EffectOf(cmd[w])
  <2>1. /\ links[p] = IF cmd[w] = "CREATE_PAYMENT_LINK" THEN 1 ELSE 0
        /\ emails[p] = IF cmd[w] = "SEND_RECOVERY_MESSAGE" THEN 1 ELSE 0
    BY <1>1 DEF PipelineInv, ExecutionInv
  <2> QED BY <1>3, <2>1 DEF SentFor, Contract!EffectOf
<1>5. AttestedStates' = [AttestedStates EXCEPT ![p] = @ \cup {"WAITING_FOR_OUTCOME"}]
  <2>1. \A a \in ExecutionAudit(w) : a.case = p /\ a.after = "WAITING_FOR_OUTCOME"
    BY DEF ExecutionAudit, EffectAudit, record
  <2>2. ExecutionAudit(w) # {}
    BY DEF ExecutionAudit
  <2>3. None # "WAITING_FOR_OUTCOME"
    BY ConstantsAssumption DEF CaseState
  <2>4. {a.after : a \in ExecutionAudit(w)} \ {None} = {"WAITING_FOR_OUTCOME"}
    BY <2>1, <2>2, <2>3
  <2> QED BY <1>2, <1>3, <2>1, <2>4, TrailExtended
<1> QED BY <1>2, <1>3, <1>4, <1>5, CapturedUnchanged, SentUnchanged DEF Contract!Record

(* A confirmation finds a captured payment of an existing case, attributes   *)
(* it to an effect there was, and finds no outcome of another payment.       *)
LEMMA ConfirmPaymentMaps ==
  ASSUME PipelineInv, NEW w \in Workers, ConfirmPayment(w)
  PROVE  \E p \in Payments : \E id \in PaymentId, attributed \in BOOLEAN :
            Contract!Confirm(p, id, attributed)
<1> DEFINE p == Subject(w)
           id == PaymentOf(Event(w))
           new == {record(p, "PAYMENT_CONFIRMED", "WAITING_FOR_OUTCOME", "RECOVERED"),
                   record(p, "CASE_RECOVERED", "WAITING_FOR_OUTCOME", "RECOVERED")}
<1>1. pc[w] = "confirm" /\ pc[w] # "idle" /\ ~OutcomeTaken(p, id)
  BY DEF ConfirmPayment
<1>2. /\ p \in Payments /\ id \in PaymentId /\ Exists(p) /\ id.of = p
  <2>1. id.of = p
    BY DEF PaymentOf, Event, Subject
  <2>2. p \in Payments /\ id \in PaymentId
    BY <1>1, MessageType DEF PipelineInv, TypeInv
  <2>3. Exists(p)
    BY <1>1 DEF PipelineInv, ActionInv, RowsOfWorkers
  <2> QED BY <2>1, <2>2, <2>3
<1>3. id \in CapturedPayments
  <2>1. Event(w) \in Events /\ task[w] # None
    BY <1>1, MessageType DEF PipelineInv, TypeInv, TypeOK
  <2>2. payments[id] = "captured"
    BY <1>1, <2>1 DEF PipelineInv, EvidenceInv
  <2> QED BY <1>2, <2>2 DEF CapturedPayments
<1>4. /\ cases' = [cases EXCEPT ![p] = [state |-> "RECOVERED", already_paid |-> TRUE]]
      /\ outcomes' = IF Recorded(id) THEN outcomes
                     ELSE outcomes \cup
                          {[case |-> p, payment |-> id, attributed |-> Executed(p)]}
      /\ audit' = audit \cup new
      /\ UNCHANGED <<payments, links, emails, decisions>>
  BY DEF ConfirmPayment, provider
<1>5. AttestedStates' = [AttestedStates EXCEPT ![p] = @ \cup {"RECOVERED"}]
  <2>1. \A a \in new : a.case = p /\ a.after = "RECOVERED"
    BY DEF record
  <2>2. new # {}
    OBVIOUS
  <2> HIDE DEF new
  <2>3. None # "RECOVERED"
    BY ConstantsAssumption DEF CaseState
  <2>4. {a.after : a \in new} \ {None} = {"RECOVERED"}
    BY <2>1, <2>2, <2>3
  <2> QED BY <1>2, <1>4, <2>1, <2>4, TrailExtended
<1>6. CASE Recorded(id)
  <2>1. \E o \in outcomes : o.case = p /\ o.payment = id
    BY <1>2, <1>6 DEF Recorded, PipelineInv, RecoveryIsEvidenced
  <2>2. Contract!Confirm(p, id, FALSE)
    BY <1>2, <1>3, <1>4, <1>5, <1>6, <2>1, CapturedUnchanged, SentUnchanged
    DEF Contract!Confirm, Contract!Exists, Contract!Recovered, Exists
  <2> QED BY <1>2, <2>2
<1>7. CASE ~Recorded(id)
  <2>1. \A o \in outcomes : o.case # p
    BY <1>1, <1>7 DEF OutcomeTaken
  <2>2. Executed(p) => SentFor[p] # "nothing"
    <3>1. ASSUME NEW i \in interventions[p], i.status = "EXECUTED"
          PROVE  links[p] = 1 \/ emails[p] = 1
      BY <1>2, <3>1 DEF PipelineInv, ExecutionInv, LedgerIsBacked
    <3> QED BY <1>2, <3>1 DEF Executed, SentFor
  <2>3. Executed(p) \in BOOLEAN
    BY DEF Executed
  <2> DEFINE attributed == Executed(p)
  <2> HIDE DEF attributed
  <2>4. Contract!Confirm(p, id, attributed)
    BY <1>2, <1>3, <1>4, <1>5, <1>7, <2>1, <2>2, CapturedUnchanged, SentUnchanged
    DEF Contract!Confirm, Contract!Exists, Contract!Recovered, Exists, attributed
  <2> QED BY <1>2, <2>3, <2>4 DEF attributed
<1> QED BY <1>6, <1>7
-----------------------------------------------------------------------------
LEMMA StepMaps ==
  PipelineInv /\ [Next]_vars => [Contract!ContractNext]_(Contract!contractVars)
<1> SUFFICES ASSUME PipelineInv, [Next]_vars
             PROVE  Contract!ContractNext \/ UNCHANGED Contract!contractVars
  OBVIOUS
<1> USE DEF Contract!ContractNext
<1>1. CASE UNCHANGED <<payments, links, emails, cases, decisions, outcomes, audit>>
  BY <1>1, CapturedUnchanged, SentUnchanged, TrailUnchanged DEF Contract!contractVars
<1>2. ASSUME NEW p \in Payments, AuthorizePayment(p)
      PROVE  UNCHANGED Contract!contractVars
  BY <1>2, AuthorizeMaps DEF PipelineInv
<1>3. ASSUME NEW id \in Paying, CapturePayment(id)
      PROVE  Contract!ContractNext
  BY <1>3, CaptureMaps DEF PipelineInv, Contract!PaymentId, PaymentId
<1>4. ASSUME NEW w \in Workers, Decide(w)
      PROVE  Contract!ContractNext
  BY <1>4, DecideMaps DEF Contract!RecoveryAction, RecoveryAction
<1>5. ASSUME NEW w \in Workers, RecheckPaid(w)
      PROVE  Contract!ContractNext
  BY <1>5, RecheckPaidMaps
<1>6. ASSUME NEW w \in Workers, RecheckUnavailable(w)
      PROVE  UNCHANGED Contract!contractVars
  BY <1>6, RecheckUnavailableMaps
<1>7. ASSUME NEW w \in Workers, Act(w) \/ ActionFails(w)
      PROVE  Contract!ContractNext \/ UNCHANGED Contract!contractVars
  BY <1>7, ActMaps, ActionFailsMaps
<1>8. ASSUME NEW w \in Workers, CommitAction(w)
      PROVE  Contract!ContractNext
  BY <1>8, CommitActionMaps
<1>9. ASSUME NEW w \in Workers, ConfirmPayment(w)
      PROVE  Contract!ContractNext
  BY <1>9, ConfirmPaymentMaps DEF Contract!PaymentId, PaymentId
<1>10. \/ UNCHANGED <<payments, links, emails, cases, decisions, outcomes, audit>>
       \/ \E p \in Payments : AuthorizePayment(p)
       \/ \E id \in Paying : CapturePayment(id)
       \/ \E w \in Workers :
             \/ Decide(w) \/ RecheckPaid(w) \/ RecheckUnavailable(w) \/ Act(w)
             \/ CommitAction(w) \/ ActionFails(w) \/ ConfirmPayment(w)
  BY DEF Next, Provider, Api, WorkerStep, WorkerFault, ReceiveWebhook, QueueUnavailable,
      Deliver, LoadEvent, SkipProcessed, MarkProcessed, LookupCase, InsertCase,
      InsertConflicts, RecheckClear, FindCase, OutcomeConflicts, DatabaseFails,
      WorkerKilled, TaskLost, Redelivered, provider, database, session, vars
<1> QED BY <1>1, <1>2, <1>3, <1>4, <1>5, <1>6, <1>7, <1>8, <1>9, <1>10

(* The pipeline - any number of workers, retries, crashes, duplicate and     *)
(* reordered webhooks, failures of the provider and of the actions - is      *)
(* never seen by the readers of its tables to do anything but what the       *)
(* contract allows: to decide a case as it appears, to carry out what was    *)
(* decided once and before it is recorded, and to recover it with one        *)
(* outcome of a captured payment, attributed to an effect that happened.     *)
THEOREM KeepsContract == Spec => ImplementsContract
<1>1. Spec => Contract!Spec
  BY PipelineInvariant, InitMaps, StepMaps, PTL DEF Spec, Contract!Spec
<1> QED BY <1>1 DEF ImplementsContract
=============================================================================
