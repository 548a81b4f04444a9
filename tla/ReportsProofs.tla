---------------------------- MODULE ReportsProofs ----------------------------
(***************************************************************************)
(* Proofs about Reports, for every set of failed payments: what a request  *)
(* answers, read statement by statement while the pipeline keeps its       *)
(* contract.                                                               *)
(***************************************************************************)
EXTENDS Reports, DegradationProofs, FiniteSetTheorems, TLAPS

HasOutcome(p) == \E o \in outcomes : o.case = p

(* The rows of a case agree: it has a decision, is acted on only by one that *)
(* allows it, and is recovered only by an outcome.                           *)
RowsInv ==
    \A p \in Payments :
        /\ cases[p].state \in {"NONE", "NEEDS_REVIEW", "AUTHORIZED", "WAITING_FOR_OUTCOME",
                               "RECOVERED"}
        /\ IF Exists(p) THEN decisions[p].action # "NONE" ELSE ~decisions[p].allowed
        /\ cases[p].state = "RECOVERED" => HasOutcome(p)

(* What has been seen are the first statements of the request, in order.     *)
OrderInv ==
    /\ reader \in Readers
    /\ seen = [s \in DOMAIN seen |-> seen[s]]
    /\ IsFiniteSet(DOMAIN seen)
    /\ Returned \in 0 .. Len(Statements[reader])
    /\ DOMAIN seen = {Statements[reader][i] : i \in 1 .. Returned}

Has(statement) == statement \in DOMAIN seen

(* A case seen on arrival is in the sums that were computed since, or has an *)
(* outcome; what was seen of the cases so far is still in the table.         *)
OverviewInv ==
    /\ \A s \in {"arrival", "at_risk", "total", "blocks"} : Has(s) => seen[s] \subseteq AllCases
    /\ Has("recovered") => seen["recovered"] \subseteq AttributedCases
    /\ Has("at_risk") =>
          \A p \in seen["arrival"] : p \in seen["at_risk"] \/ HasOutcome(p)
    /\ Has("recovered") =>
          \A p \in seen["arrival"] :
             \/ p \in seen["at_risk"] \cup seen["recovered"]
             \/ \E o \in outcomes : o.case = p /\ ~o.attributed
    /\ Has("risk_trend") =>
          seen["at_risk"] \cup seen["total"] \cup seen["blocks"] \subseteq seen["risk_trend"]
    /\ Has("recovered_trend") => seen["recovered"] \subseteq seen["recovered_trend"]

(* A case that was listed is still there, with the decision it was opened    *)
(* with.                                                                     *)
ShownInv ==
    Has("case") =>
        \A p \in Payments :
            seen["case"][p] # "NONE" =>
                /\ Exists(p)
                /\ Has("decision") => seen["decision"][p] = decisions[p]

(* The cases that may be labelled have outcomes.                             *)
LabelsInv ==
    Has("eligible") =>
        /\ \A p \in seen["eligible"] : HasOutcome(p)
        /\ Has("labelled") => seen["eligible"] \subseteq seen["labelled"]

(* The attempts of a method are a history of successes and failures.         *)
AttemptsInv ==
    Has("attempts") => \E n \in 0 .. MaxAttempts : seen["attempts"] \in History(n)

ReportInv == OverviewInv /\ ShownInv /\ LabelsInv

-----------------------------------------------------------------------------
(* The contract: types, the agreement of the rows, and what never vanishes. *)

LEMMA ContractTypeInit == Init => ContractTypeOK
  BY DEF Init, ContractTypeOK, CaseRow, NoRow, Decision

LEMMA ContractTypeStep == ContractTypeOK /\ ContractNext => ContractTypeOK'
<1> SUFFICES ASSUME ContractTypeOK, ContractNext PROVE ContractTypeOK'
  OBVIOUS
<1> USE DEF ContractTypeOK
<1>1. ASSUME NEW id \in PaymentId, Capture(id)
      PROVE  ContractTypeOK'
  BY <1>1 DEF Capture
<1>2. ASSUME NEW p \in Payments, NEW d \in [action : RecoveryAction, allowed : BOOLEAN],
             Open(p, d)
      PROVE  ContractTypeOK'
  <2> DEFINE final == IF d.allowed THEN "AUTHORIZED" ELSE "NEEDS_REVIEW"
  <2>1. final \in CaseState /\ {"DETECTED", "DIAGNOSING", "ACTION_PROPOSED", final} \subseteq CaseState
    BY DEF CaseState
  <2>2. d \in Decision
    BY DEF Decision
  <2> HIDE DEF final
  <2>3. [cases[p] EXCEPT !.state = final] \in CaseRow
    BY <2>1 DEF CaseRow
  <2> QED BY <1>2, <2>1, <2>2, <2>3 DEF Open, final
<1>3. ASSUME NEW p \in Payments, Send(p)
      PROVE  ContractTypeOK'
  BY <1>3 DEF Send, EffectOf
<1>4. ASSUME NEW p \in Payments, Record(p)
      PROVE  ContractTypeOK'
  BY <1>4 DEF Record, CaseRow, CaseState
<1>5. ASSUME NEW p \in Payments, LearnPaid(p)
      PROVE  ContractTypeOK'
  BY <1>5 DEF LearnPaid, CaseRow
<1>6. ASSUME NEW p \in Payments, NEW id \in PaymentId, NEW attributed \in BOOLEAN,
             Confirm(p, id, attributed)
      PROVE  ContractTypeOK'
  <2>1. [case |-> p, payment |-> id, attributed |-> attributed] \in Outcome
    BY DEF Outcome
  <2>2. Recovered \in CaseRow /\ "RECOVERED" \in CaseState
    BY DEF Recovered, CaseRow, CaseState
  <2> QED BY <1>6, <2>1, <2>2 DEF Confirm
<1> QED BY <1>1, <1>2, <1>3, <1>4, <1>5, <1>6 DEF ContractNext

(* A step of the pipeline keeps outcomes, and what is known of a case.       *)
LEMMA Grows ==
  ASSUME ContractTypeOK, RowsInv, ContractNext
  PROVE  /\ outcomes \subseteq outcomes'
         /\ \A p \in Payments :
               cases[p].state # "NONE" =>
                  /\ cases'[p].state # "NONE"
                  /\ decisions'[p] = decisions[p]
<1> USE DEF ContractTypeOK, Exists
<1>1. ASSUME NEW p \in Payments, NEW d, Open(p, d)
      PROVE  /\ outcomes \subseteq outcomes'
             /\ \A q \in Payments : cases[q].state # "NONE" =>
                  /\ cases'[q].state # "NONE" /\ decisions'[q] = decisions[q]
  BY <1>1 DEF Open
<1>2. ASSUME NEW p \in Payments, Send(p) \/ Record(p) \/ LearnPaid(p)
      PROVE  /\ outcomes \subseteq outcomes'
             /\ \A q \in Payments : cases[q].state # "NONE" =>
                  /\ cases'[q].state # "NONE" /\ decisions'[q] = decisions[q]
  <2>1. CASE Send(p)
    BY <2>1 DEF Send
  <2>2. CASE Record(p)
    BY <2>2 DEF Record, CaseRow
  <2>3. CASE LearnPaid(p)
    BY <2>3 DEF LearnPaid, CaseRow
  <2> QED BY <1>2, <2>1, <2>2, <2>3
<1>3. ASSUME NEW p \in Payments, NEW id, NEW attributed, Confirm(p, id, attributed)
      PROVE  /\ outcomes \subseteq outcomes'
             /\ \A q \in Payments : cases[q].state # "NONE" =>
                  /\ cases'[q].state # "NONE" /\ decisions'[q] = decisions[q]
  BY <1>3 DEF Confirm, Recovered
<1> QED BY <1>1, <1>2, <1>3 DEF ContractNext, Capture

LEMMA RowsInit == Init => RowsInv
  BY DEF Init, RowsInv, Exists, NoRow

LEMMA RowsStep == ContractTypeOK /\ RowsInv /\ ContractNext => RowsInv'
<1> SUFFICES ASSUME ContractTypeOK, RowsInv, ContractNext, NEW q \in Payments
             PROVE  /\ cases'[q].state \in {"NONE", "NEEDS_REVIEW", "AUTHORIZED",
                                            "WAITING_FOR_OUTCOME", "RECOVERED"}
                    /\ IF cases'[q].state # "NONE" THEN decisions'[q].action # "NONE"
                       ELSE ~decisions'[q].allowed
                    /\ cases'[q].state = "RECOVERED" => \E o \in outcomes' : o.case = q
  BY DEF RowsInv, Exists, HasOutcome
<1> USE DEF ContractTypeOK, Exists
<1>i. /\ cases[q].state \in {"NONE", "NEEDS_REVIEW", "AUTHORIZED", "WAITING_FOR_OUTCOME",
                             "RECOVERED"}
      /\ IF cases[q].state # "NONE" THEN decisions[q].action # "NONE"
         ELSE ~decisions[q].allowed
      /\ cases[q].state = "RECOVERED" => \E o \in outcomes : o.case = q
  BY DEF RowsInv, HasOutcome
<1> DEFINE Agrees == /\ cases'[q].state \in {"NONE", "NEEDS_REVIEW", "AUTHORIZED",
                                             "WAITING_FOR_OUTCOME", "RECOVERED"}
                     /\ IF cases'[q].state # "NONE" THEN decisions'[q].action # "NONE"
                        ELSE ~decisions'[q].allowed
                     /\ cases'[q].state = "RECOVERED" => \E o \in outcomes' : o.case = q
<1>g. outcomes \subseteq outcomes'
  BY Grows
<1>1. CASE UNCHANGED <<cases, decisions>>
  BY <1>i, <1>g, <1>1
<1>2. ASSUME NEW p \in Payments, NEW d \in [action : RecoveryAction, allowed : BOOLEAN],
             Open(p, d)
      PROVE  Agrees
  <2>1. CASE p = q
    BY <1>2, <2>1 DEF Open, CaseRow, RecoveryAction
  <2>2. CASE p # q
    BY <1>2, <1>i, <2>2 DEF Open
  <2> QED BY <2>1, <2>2
<1>3. ASSUME NEW p \in Payments, Record(p) \/ LearnPaid(p)
      PROVE  Agrees
  <2>1. CASE p = q
    BY <1>3, <1>i, <2>1 DEF Record, LearnPaid, CaseRow
  <2>2. CASE p # q
    BY <1>3, <1>i, <2>2 DEF Record, LearnPaid
  <2> QED BY <2>1, <2>2
<1>4. ASSUME NEW p \in Payments, NEW id, NEW attributed, Confirm(p, id, attributed)
      PROVE  Agrees
  <2>1. CASE p = q
    <3>1. \E o \in outcomes' : o.case = q
      <4> DEFINE new == [case |-> p, payment |-> id, attributed |-> attributed]
      <4>1. CASE outcomes' = outcomes \cup {new}
        <5>1. new \in outcomes' /\ new.case = q
          BY <2>1, <4>1
        <5> QED BY <5>1, Zenon
      <4>2. CASE (\E o \in outcomes : o.case = p /\ o.payment = id) /\ UNCHANGED outcomes
        BY <2>1, <4>2
      <4> QED BY <1>4, <4>1, <4>2 DEF Confirm
    <3> QED BY <1>4, <1>i, <2>1, <3>1 DEF Confirm, Recovered
  <2>2. CASE p # q
    BY <1>4, <1>i, <1>g, <2>2 DEF Confirm
  <2> QED BY <2>1, <2>2
<1> QED BY <1>1, <1>2, <1>3, <1>4 DEF ContractNext, Capture, Send

-----------------------------------------------------------------------------
(* The order of the statements. *)

LEMMA Sequences ==
  /\ Statements["overview"] =
        <<"arrival", "at_risk", "recovered", "total", "open", "blocks", "risk_trend",
          "recovered_trend">>
  /\ Statements["list"] = <<"case", "decision">>
  /\ Statements["training"] = <<"eligible", "labelled">>
  /\ Statements["degradation"] = <<"attempts">>
  BY DEF Statements, InOrder, OverviewStatements, ListStatements, TrainingStatements,
         AttemptStatements

(* No request runs a statement twice.                                        *)
LEMMA Distinct ==
  ASSUME NEW r \in {"overview", "list", "training", "degradation"}
  PROVE  /\ Len(Statements[r]) \in Nat
         /\ \A i, j \in 1 .. Len(Statements[r]) :
               Statements[r][i] = Statements[r][j] => i = j
<1>1. CASE r = "overview"
  BY <1>1, Sequences
<1>2. CASE r = "list"
  BY <1>2, Sequences
<1>3. CASE r = "training"
  BY <1>3, Sequences
<1>4. CASE r = "degradation"
  BY <1>4, Sequences
<1> QED BY <1>1, <1>2, <1>3, <1>4

LEMMA OrderInit == ReportsInit => OrderInv
<1> SUFFICES ASSUME ReportsInit PROVE OrderInv
  OBVIOUS
<1>1. DOMAIN seen = {} /\ seen = [s \in DOMAIN seen |-> seen[s]] /\ reader \in Readers
  BY DEF ReportsInit
<1>2. Returned = 0
  BY <1>1, FS_EmptySet DEF Returned
<1>3. Len(Statements[reader]) \in Nat
  BY <1>1, Distinct, ReportsAssumption
<1> QED BY <1>1, <1>2, <1>3, FS_EmptySet DEF OrderInv

(* A statement adds what it returns to what was seen.                        *)
LEMMA ReadSteps ==
  ASSUME OrderInv, Read
  PROVE  \E i \in 1 .. Len(Statements[reader]) :
            /\ i = Returned + 1
            /\ Statements[reader][i] \notin DOMAIN seen
            /\ \E result \in Results(Statements[reader][i]) :
                  seen' = SeenWith(Statements[reader][i], result)
<1>1. reader \in {"overview", "list", "training", "degradation"}
  BY ReportsAssumption DEF OrderInv
<1>2. Returned \in Nat /\ Returned < Len(Statements[reader]) /\ Len(Statements[reader]) \in Nat
  BY <1>1, Distinct DEF OrderInv, Read
<1>3. Returned + 1 \in 1 .. Len(Statements[reader])
  BY <1>2
<1>4. Statements[reader][Returned + 1] \notin DOMAIN seen
  <2>1. ASSUME NEW j \in 1 .. Returned, Statements[reader][j] = Statements[reader][Returned + 1]
        PROVE  FALSE
    <3>1. j \in 1 .. Len(Statements[reader]) /\ j # Returned + 1
      BY <1>2
    <3> QED BY <1>1, <1>3, <2>1, <3>1, Distinct
  <2> QED BY <2>1 DEF OrderInv
<1> QED BY <1>3, <1>4 DEF Read

LEMMA OrderStep == OrderInv /\ [ReportsNext]_vars => OrderInv'
<1> SUFFICES ASSUME OrderInv, [ReportsNext]_vars PROVE OrderInv'
  OBVIOUS
<1>1. CASE UNCHANGED <<reader, seen>>
  BY <1>1 DEF OrderInv, Returned
<1>2. CASE Read
  <2>1. PICK i \in 1 .. Len(Statements[reader]) :
              /\ i = Returned + 1
              /\ Statements[reader][i] \notin DOMAIN seen
              /\ \E result \in Results(Statements[reader][i]) :
                    seen' = SeenWith(Statements[reader][i], result)
    BY <1>2, ReadSteps
  <2> DEFINE s == Statements[reader][i]
  <2>2. UNCHANGED reader
    BY <1>2 DEF Read
  <2>3. DOMAIN seen' = DOMAIN seen \cup {s} /\ seen' = [t \in DOMAIN seen' |-> seen'[t]]
    BY <2>1 DEF SeenWith
  <2>4. IsFiniteSet(DOMAIN seen') /\ Cardinality(DOMAIN seen') = Returned + 1
    BY <2>1, <2>3, FS_AddElement DEF OrderInv, Returned
  <2>5. DOMAIN seen' = {Statements[reader][j] : j \in 1 .. Returned + 1}
    <3>1. 1 .. Returned + 1 = (1 .. Returned) \cup {i}
      BY <2>1 DEF OrderInv
    <3> QED BY <2>3, <3>1 DEF OrderInv
  <2>6. Returned' = Returned + 1 /\ Returned + 1 \in 0 .. Len(Statements[reader])
    BY <2>1, <2>4 DEF Returned
  <2>7. Statements' = Statements
    BY DEF Statements
  <2> QED BY <2>2, <2>3, <2>4, <2>5, <2>6, <2>7 DEF OrderInv
<1> QED BY <1>1, <1>2 DEF ReportsNext, Pipeline, vars

(* A statement has returned if it comes before the number that have.         *)
LEMMA HasRead ==
  ASSUME OrderInv, NEW j \in 1 .. Len(Statements[reader])
  PROVE  Has(Statements[reader][j]) <=> j <= Returned
<1>1. reader \in {"overview", "list", "training", "degradation"}
  BY ReportsAssumption DEF OrderInv
<1>2. Returned \in Nat /\ Returned <= Len(Statements[reader]) /\ Len(Statements[reader]) \in Nat
  BY <1>1, Distinct DEF OrderInv
<1>3. ASSUME NEW k \in 1 .. Returned, Statements[reader][k] = Statements[reader][j]
      PROVE  k = j
  <2>1. k \in 1 .. Len(Statements[reader])
    BY <1>2
  <2> QED BY <1>1, <1>3, <2>1, Distinct
<1>4. Has(Statements[reader][j]) => j <= Returned
  BY <1>2, <1>3 DEF OrderInv, Has
<1> QED BY <1>2, <1>4 DEF OrderInv, Has

(* What a later statement is compared with has been read before it.          *)
ReadInOrder ==
    /\ Has("at_risk") => Has("arrival")
    /\ Has("recovered") => Has("arrival") /\ Has("at_risk")
    /\ Has("risk_trend") => Has("at_risk") /\ Has("total") /\ Has("blocks")
    /\ Has("recovered_trend") => Has("recovered")
    /\ Has("decision") => Has("case")
    /\ Has("labelled") => Has("eligible")

LEMMA InOrderRead == OrderInv => ReadInOrder
<1> SUFFICES ASSUME OrderInv PROVE ReadInOrder
  OBVIOUS
<1>1. reader \in {"overview", "list", "training", "degradation"}
  BY ReportsAssumption DEF OrderInv
<1>2. Returned \in Nat /\ Returned <= Len(Statements[reader])
  BY <1>1, Distinct DEF OrderInv
<1>3. \A s : Has(s) => \E j \in 1 .. Len(Statements[reader]) : s = Statements[reader][j]
  BY <1>1, <1>2, Distinct DEF OrderInv, Has
<1>4. CASE reader = "overview"
  <2>1. /\ Has("arrival") <=> 1 <= Returned
        /\ Has("at_risk") <=> 2 <= Returned
        /\ Has("recovered") <=> 3 <= Returned
        /\ Has("total") <=> 4 <= Returned
        /\ Has("blocks") <=> 6 <= Returned
        /\ Has("risk_trend") <=> 7 <= Returned
        /\ Has("recovered_trend") <=> 8 <= Returned
    <3>1. \A j \in 1 .. 8 : Has(Statements["overview"][j]) <=> j <= Returned
      BY <1>4, HasRead, Sequences
    <3> QED BY <3>1, Sequences
  <2>2. \A s \in {"decision", "labelled"} : ~Has(s)
    BY <1>3, <1>4, Sequences
  <2> QED BY <1>2, <2>1, <2>2 DEF ReadInOrder
<1>5. CASE reader = "list"
  <2>1. Has("case") <=> 1 <= Returned
    BY <1>5, HasRead, Sequences
  <2>2. \A s : Has(s) => 1 <= Returned
    BY <1>2 DEF OrderInv, Has
  <2>3. \A s \in {"at_risk", "recovered", "risk_trend", "recovered_trend", "labelled"} : ~Has(s)
    BY <1>3, <1>5, Sequences
  <2> QED BY <2>1, <2>2, <2>3 DEF ReadInOrder
<1>6. CASE reader = "training"
  <2>1. Has("eligible") <=> 1 <= Returned
    BY <1>6, HasRead, Sequences
  <2>2. \A s : Has(s) => 1 <= Returned
    BY <1>2 DEF OrderInv, Has
  <2>3. \A s \in {"at_risk", "recovered", "risk_trend", "recovered_trend", "decision"} : ~Has(s)
    BY <1>3, <1>6, Sequences
  <2> QED BY <2>1, <2>2, <2>3 DEF ReadInOrder
<1>7. CASE reader = "degradation"
  <2>1. \A s \in {"at_risk", "recovered", "risk_trend", "recovered_trend", "decision",
                  "labelled"} : ~Has(s)
    BY <1>3, <1>7, Sequences
  <2> QED BY <2>1 DEF ReadInOrder
<1> QED BY <1>1, <1>4, <1>5, <1>6, <1>7

-----------------------------------------------------------------------------
(* The answers. *)

LEMMA ReportInit == ReportsInit => ReportInv
<1>1. ReportsInit => \A s : ~Has(s)
  BY DEF ReportsInit, Has
<1> QED BY <1>1 DEF ReportInv, OverviewInv, ShownInv, LabelsInv

(* The pipeline moves between two statements.                                *)
LEMMA PipelineKeeps ==
  ASSUME ContractTypeOK, RowsInv, ReportInv, ContractNext, UNCHANGED <<reader, seen>>
  PROVE  ReportInv'
<1>1. /\ outcomes \subseteq outcomes'
      /\ \A p \in Payments :
            cases[p].state # "NONE" =>
               /\ cases'[p].state # "NONE"
               /\ decisions'[p] = decisions[p]
  BY Grows
<1>2. AllCases \subseteq AllCases' /\ AttributedCases \subseteq AttributedCases'
  BY <1>1 DEF AllCases, AttributedCases, Exists
<1>3. OverviewInv'
  BY <1>1, <1>2 DEF ReportInv, OverviewInv, Has, HasOutcome
<1>4. ShownInv'
  BY <1>1 DEF ReportInv, ShownInv, Has, HasOutcome, Exists
<1>5. LabelsInv'
  BY <1>1 DEF ReportInv, LabelsInv, Has, HasOutcome
<1> QED BY <1>3, <1>4, <1>5 DEF ReportInv

(* A statement of the overview returns.                                      *)
LEMMA OverviewStep ==
  ASSUME RowsInv, OverviewInv, ReadInOrder, ReadInOrder', UNCHANGED contractVars,
         NEW s, ~Has(s), NEW result \in Results(s), seen' = SeenWith(s, result)
  PROVE  OverviewInv'
<1>1. /\ \A t : t \in DOMAIN seen' <=> t \in DOMAIN seen \/ t = s
      /\ \A t \in DOMAIN seen : seen'[t] = seen[t]
      /\ seen'[s] = result
      /\ UNCHANGED <<cases, outcomes, decisions>>
  BY DEF SeenWith, Has, contractVars
<1>o. /\ s = "at_risk" => Has("arrival") /\ ~Has("recovered") /\ ~Has("risk_trend")
      /\ s = "recovered" => Has("arrival") /\ Has("at_risk") /\ ~Has("recovered_trend")
      /\ s = "risk_trend" => Has("at_risk") /\ Has("total") /\ Has("blocks")
      /\ s = "recovered_trend" => Has("recovered")
  BY <1>1 DEF ReadInOrder, Has
<1>2. /\ s \in {"arrival", "total", "risk_trend"} => result = AllCases
      /\ s = "at_risk" => result = OpenCases
      /\ s \in {"recovered", "recovered_trend"} => result = AttributedCases
      /\ s = "blocks" => result = {p \in Payments : cases[p].state = "NEEDS_REVIEW"}
  BY DEF Results, TrendCases
<1>3. /\ AllCases' = AllCases /\ AttributedCases' = AttributedCases
      /\ OpenCases \subseteq AllCases
      /\ {p \in Payments : cases[p].state = "NEEDS_REVIEW"} \subseteq AllCases
      /\ AllCases \subseteq Payments
  BY <1>1 DEF AllCases, OpenCases, AttributedCases, Exists
<1>4. \A t \in {"arrival", "at_risk", "total", "blocks"} : Has(t)' => seen'[t] \subseteq AllCases
  BY <1>1, <1>2, <1>3 DEF OverviewInv, Has
<1>5. Has("recovered")' => seen'["recovered"] \subseteq AttributedCases
  BY <1>1, <1>2 DEF OverviewInv, Has
<1>6. Has("at_risk")' =>
         \A p \in seen'["arrival"] : p \in seen'["at_risk"] \/ HasOutcome(p)
  <2>1. CASE s = "at_risk"
    <3>1. seen'["at_risk"] = OpenCases /\ seen'["arrival"] \subseteq AllCases
      BY <1>1, <1>o, <1>2, <2>1 DEF OverviewInv, Has
    <3>2. \A p \in AllCases \ OpenCases : HasOutcome(p)
      BY DEF RowsInv, AllCases, OpenCases, Exists
    <3> QED BY <3>1, <3>2
  <2>2. CASE s # "at_risk"
    BY <1>1, <2>2 DEF OverviewInv, Has, ReadInOrder
  <2> QED BY <2>1, <2>2
<1>7. Has("recovered")' =>
         \A p \in seen'["arrival"] :
            \/ p \in seen'["at_risk"] \cup seen'["recovered"]
            \/ \E o \in outcomes : o.case = p /\ ~o.attributed
  <2>1. CASE s = "recovered"
    <3>1. /\ seen'["recovered"] = AttributedCases
          /\ seen'["at_risk"] = seen["at_risk"] /\ seen'["arrival"] = seen["arrival"]
      BY <1>1, <1>o, <1>2, <2>1 DEF Has
    <3>2. \A p \in seen["arrival"] : p \in seen["at_risk"] \/ HasOutcome(p)
      BY <1>o, <2>1 DEF OverviewInv
    <3> QED BY <3>1, <3>2 DEF HasOutcome, AttributedCases
  <2>2. CASE s # "recovered"
    BY <1>1, <2>2 DEF OverviewInv, Has, ReadInOrder
  <2> QED BY <2>1, <2>2
<1>8. Has("risk_trend")' =>
         seen'["at_risk"] \cup seen'["total"] \cup seen'["blocks"] \subseteq seen'["risk_trend"]
  <2>1. CASE s = "risk_trend"
    <3>1. seen'["risk_trend"] = AllCases /\ \A t \in {"at_risk", "total", "blocks"} : Has(t)'
      BY <1>1, <1>o, <1>2, <2>1 DEF Has
    <3> QED BY <1>4, <3>1
  <2>2. CASE s # "risk_trend"
    BY <1>1, <2>2 DEF OverviewInv, Has, ReadInOrder
  <2> QED BY <2>1, <2>2
<1>9. Has("recovered_trend")' => seen'["recovered"] \subseteq seen'["recovered_trend"]
  BY <1>1, <1>o, <1>2 DEF OverviewInv, Has, ReadInOrder
<1> QED BY <1>1, <1>3, <1>4, <1>5, <1>6, <1>7, <1>8, <1>9 DEF OverviewInv, HasOutcome

(* A statement of the list of cases returns.                                 *)
LEMMA ShownStep ==
  ASSUME RowsInv, ShownInv, ReadInOrder, ReadInOrder', UNCHANGED contractVars,
         NEW s, ~Has(s), NEW result \in Results(s), seen' = SeenWith(s, result)
  PROVE  ShownInv'
<1>1. /\ \A t : t \in DOMAIN seen' <=> t \in DOMAIN seen \/ t = s
      /\ \A t \in DOMAIN seen : seen'[t] = seen[t]
      /\ seen'[s] = result
      /\ UNCHANGED <<cases, outcomes, decisions>>
  BY DEF SeenWith, Has, contractVars
<1>2. /\ s = "case" => result = [p \in Payments |-> cases[p].state]
      /\ s = "decision" => result = decisions
  BY DEF Results
<1>3. CASE s = "case"
  <2>1. ~Has("decision")' /\ seen'["case"] = [p \in Payments |-> cases[p].state]
    BY <1>1, <1>2, <1>3 DEF ReadInOrder, Has
  <2> QED BY <1>1, <2>1 DEF ShownInv, Exists
<1>4. CASE s # "case"
  BY <1>1, <1>2, <1>4 DEF ShownInv, Has, ReadInOrder, Exists
<1> QED BY <1>3, <1>4

(* A statement of the training selection returns.                            *)
LEMMA LabelsStep ==
  ASSUME RowsInv, LabelsInv, ReadInOrder, ReadInOrder', UNCHANGED contractVars,
         NEW s, ~Has(s), NEW result \in Results(s), seen' = SeenWith(s, result)
  PROVE  LabelsInv'
<1>1. /\ \A t : t \in DOMAIN seen' <=> t \in DOMAIN seen \/ t = s
      /\ \A t \in DOMAIN seen : seen'[t] = seen[t]
      /\ seen'[s] = result
      /\ UNCHANGED <<cases, outcomes, decisions>>
  BY DEF SeenWith, Has, contractVars
<1>2. /\ s = "eligible" => result = Eligible
      /\ s = "labelled" => result = {o.case : o \in outcomes}
  BY DEF Results
<1>3. \A p \in Eligible : HasOutcome(p)
  BY DEF RowsInv, Eligible
<1>4. CASE s = "eligible"
  <2>1. ~Has("labelled")' /\ seen'["eligible"] = Eligible
    BY <1>1, <1>2, <1>4 DEF ReadInOrder, Has
  <2> QED BY <1>1, <1>3, <2>1 DEF LabelsInv, HasOutcome
<1>5. CASE s = "labelled"
  BY <1>1, <1>2, <1>5 DEF LabelsInv, Has, ReadInOrder, HasOutcome
<1>6. CASE s \notin {"eligible", "labelled"}
  BY <1>1, <1>6 DEF LabelsInv, Has, ReadInOrder, HasOutcome
<1> QED BY <1>4, <1>5, <1>6

LEMMA ReportStep ==
  /\ ContractTypeOK /\ RowsInv /\ OrderInv /\ ReportInv
  /\ ReadInOrder /\ ReadInOrder'
  /\ [ReportsNext]_vars
  => ReportInv'
<1> SUFFICES ASSUME ContractTypeOK, RowsInv, OrderInv, ReportInv, ReadInOrder, ReadInOrder',
                    [ReportsNext]_vars
             PROVE  ReportInv'
  OBVIOUS
<1>1. CASE UNCHANGED vars
  BY <1>1 DEF vars, contractVars, ReportInv, OverviewInv, ShownInv, LabelsInv, Has, HasOutcome,
              AllCases, AttributedCases, Exists
<1>2. CASE Pipeline
  BY <1>2, PipelineKeeps DEF Pipeline
<1>3. CASE Read
  <2>1. PICK i \in 1 .. Len(Statements[reader]) :
              /\ Statements[reader][i] \notin DOMAIN seen
              /\ \E result \in Results(Statements[reader][i]) :
                    seen' = SeenWith(Statements[reader][i], result)
    BY <1>3, ReadSteps
  <2>2. UNCHANGED contractVars
    BY <1>3 DEF Read
  <2> QED BY <2>1, <2>2, OverviewStep, ShownStep, LabelsStep DEF ReportInv, Has
<1> QED BY <1>1, <1>2, <1>3 DEF ReportsNext

-----------------------------------------------------------------------------
(* The theorems. *)

LEMMA PipelineStep ==
  ContractTypeOK /\ RowsInv /\ [ReportsNext]_vars => (ContractTypeOK /\ RowsInv)'
<1>1. CASE UNCHANGED contractVars
  BY <1>1 DEF contractVars, ContractTypeOK, RowsInv, Exists, HasOutcome
<1>2. CASE Pipeline
  BY <1>2, ContractTypeStep, RowsStep DEF Pipeline
<1> QED BY <1>1, <1>2 DEF ReportsNext, Read, vars

LEMMA ReportInvariant ==
  ReportsSpec => [](ContractTypeOK /\ RowsInv /\ OrderInv /\ ReportInv)
<1>1. ReportsInit => ContractTypeOK /\ RowsInv
  BY ContractTypeInit, RowsInit DEF ReportsInit
<1>2. ReportsSpec => [](ContractTypeOK /\ RowsInv /\ OrderInv)
  BY <1>1, PipelineStep, OrderInit, OrderStep, PTL DEF ReportsSpec
<1> QED BY <1>2, InOrderRead, ReportInit, ReportStep, PTL DEF ReportsSpec

(* The types of the contract's rows, and that a request runs its statements  *)
(* one after the other.                                                      *)
THEOREM ReportsTyped == ReportsSpec => []ReportsTypeOK
<1>1. ContractTypeOK /\ OrderInv => ReportsTypeOK
  BY DEF OrderInv, ReportsTypeOK
<1> QED BY <1>1, ReportInvariant, PTL

(* An answered request has read all of its statements.                       *)
LEMMA AllRead ==
  ASSUME OrderInv, NEW r, Answered(r), NEW j \in 1 .. Len(Statements[r])
  PROVE  Has(Statements[r][j])
<1>1. r \in {"overview", "list", "training", "degradation"}
  BY ReportsAssumption DEF OrderInv, Answered
<1> QED BY <1>1, HasRead, Distinct DEF Answered

LEMMA OverviewRead ==
  OrderInv /\ Answered("overview") =>
     \A s \in {"recovered", "risk_trend", "recovered_trend"} : Has(s)
<1> SUFFICES ASSUME OrderInv, Answered("overview")
             PROVE  \A s \in {"recovered", "risk_trend", "recovered_trend"} : Has(s)
  OBVIOUS
<1>1. \A j \in 1 .. 8 : Has(Statements["overview"][j])
  BY AllRead, Sequences
<1> QED BY <1>1, Sequences

LEMMA CasesRead == OrderInv /\ Answered("list") => Has("case") /\ Has("decision")
<1> SUFFICES ASSUME OrderInv, Answered("list") PROVE Has("case") /\ Has("decision")
  OBVIOUS
<1>1. \A j \in 1 .. 2 : Has(Statements["list"][j])
  BY AllRead, Sequences
<1> QED BY <1>1, Sequences

LEMMA LabelsRead ==
  OrderInv /\ Answered("training") => Has("eligible") /\ Has("labelled")
<1> SUFFICES ASSUME OrderInv, Answered("training") PROVE Has("eligible") /\ Has("labelled")
  OBVIOUS
<1>1. \A j \in 1 .. 2 : Has(Statements["training"][j])
  BY AllRead, Sequences
<1> QED BY <1>1, Sequences

(* Revenue that is there when the overview is asked for is in one of its     *)
(* sums, whatever the pipeline does in between: the open cases are summed    *)
(* before the recovered ones, and a case that left the first is in the       *)
(* second.                                                                   *)
THEOREM RiskAccounted == ReportsSpec => []RiskIsAccounted
<1>1. OrderInv /\ ReportInv => RiskIsAccounted
  BY OverviewRead DEF ReportInv, OverviewInv, RiskIsAccounted
<1> QED BY <1>1, ReportInvariant, PTL

(* Every case and every recovered amount of the totals has its day.          *)
THEOREM TrendCovers == ReportsSpec => []TrendCoversTotals
<1>1. OrderInv /\ ReportInv => TrendCoversTotals
  BY OverviewRead DEF ReportInv, OverviewInv, TrendCoversTotals
<1> QED BY <1>1, ReportInvariant, PTL

(* The decision read after a case is the one it was opened with.             *)
THEOREM ListDecided == ReportsSpec => []ListShowsDecision
<1>1. RowsInv /\ OrderInv /\ ReportInv => ListShowsDecision
  <2> SUFFICES ASSUME RowsInv, OrderInv, ReportInv, Answered("list"), NEW p \in Payments,
                      seen["case"][p] # "NONE"
               PROVE  seen["decision"][p].action # "NONE"
    BY DEF ListShowsDecision
  <2> QED BY CasesRead DEF ReportInv, ShownInv, RowsInv
<1> QED BY <1>1, ReportInvariant, PTL

(* No case that was recovered is labelled as a failure.                      *)
THEOREM LabelsGenuine == ReportsSpec => []LabelsAreGenuine
<1>1. OrderInv /\ ReportInv => LabelsAreGenuine
  BY LabelsRead DEF ReportInv, LabelsInv, LabelsAreGenuine
<1> QED BY <1>1, ReportInvariant, PTL

LEMMA AttemptsInvariant == ReportsSpec => [](OrderInv /\ AttemptsInv)
<1>1. ReportsInit => AttemptsInv
  BY DEF ReportsInit, AttemptsInv, Has
<1>2. OrderInv /\ AttemptsInv /\ [ReportsNext]_vars => AttemptsInv'
  <2> SUFFICES ASSUME OrderInv, AttemptsInv, [ReportsNext]_vars PROVE AttemptsInv'
    OBVIOUS
  <2>1. CASE UNCHANGED seen
    BY <2>1 DEF AttemptsInv, Has
  <2>2. CASE Read
    <3>1. PICK i \in 1 .. Len(Statements[reader]) :
                \E result \in Results(Statements[reader][i]) :
                   seen' = SeenWith(Statements[reader][i], result)
      BY <2>2, ReadSteps
    <3> DEFINE s == Statements[reader][i]
    <3>2. PICK result \in Results(s) : seen' = SeenWith(s, result)
      BY <3>1
    <3>3. CASE s = "attempts"
      <4>1. result \in UNION {[1 .. n -> {0, 1}] : n \in 0 .. MaxAttempts}
        BY <3>2, <3>3 DEF Results
      <4>2. seen'["attempts"] = result
        BY <3>2, <3>3 DEF SeenWith
      <4> QED BY <4>1, <4>2 DEF AttemptsInv, History
    <3>4. CASE s # "attempts"
      <4>1. Has("attempts")' <=> Has("attempts")
        BY <3>2, <3>4 DEF SeenWith, Has
      <4>2. Has("attempts") => seen'["attempts"] = seen["attempts"]
        BY <3>2, <3>4 DEF SeenWith, Has
      <4> QED BY <4>1, <4>2 DEF AttemptsInv
    <3> QED BY <3>3, <3>4
  <2> QED BY <2>1, <2>2 DEF ReportsNext, Pipeline, vars
<1> QED BY <1>1, <1>2, OrderInit, OrderStep, PTL DEF ReportsSpec

(* The degradation report of a method with up to 15 attempts: it is degraded *)
(* exactly if the last of at least eight attempts is the first to fail.      *)
(* The argument needs the bound: in long histories an early failure no       *)
(* longer keeps a method from being reported (68 successes and two failures  *)
(* are), and only FirstFailureIsDegraded remains.                            *)
THEOREM DegradedFirst ==
  ASSUME MaxAttempts <= 15
  PROVE  ReportsSpec => []DegradedAtFirstFailure
<1>1. OrderInv /\ AttemptsInv => DegradedAtFirstFailure
  <2> SUFFICES ASSUME OrderInv, AttemptsInv, Answered("degradation")
               PROVE  LET s == seen["attempts"]
                      IN  Degraded(s) <=> /\ Len(s) >= 8
                                          /\ s[Len(s)] = 0
                                          /\ \A i \in 1 .. Len(s) - 1 : s[i] = 1
    BY DEF DegradedAtFirstFailure
  <2>1. 1 \in 1 .. Len(Statements["degradation"]) /\ Statements["degradation"][1] = "attempts"
    BY Sequences
  <2>2. Has("attempts")
    BY <2>1, AllRead
  <2>3. PICK n \in 0 .. MaxAttempts : seen["attempts"] \in History(n)
    BY <2>2 DEF AttemptsInv
  <2>4. n \in 0 .. 15 /\ n \in Nat /\ Len(seen["attempts"]) = n
    BY <2>3, AveragesDef, ReportsAssumption
  <2> QED BY <2>3, <2>4, DegradedExactly DEF FirstToFail, MinAttempts
<1> QED BY <1>1, AttemptsInvariant, PTL
=============================================================================
