------------------------------- MODULE Reports -------------------------------
(***************************************************************************)
(* The read side of RecoverOS beside the recovery pipeline: the analytics  *)
(* overview, the list of cases, the selection of training data and the     *)
(* degradation report.  Each is a sequence of SELECTs in one session, and  *)
(* at READ COMMITTED a SELECT sees what is committed when it runs: the     *)
(* pipeline, represented by its contract, moves between any two of them.   *)
(* A sum or count of rows is represented by the set of the cases whose     *)
(* rows it is taken over.  (The detail of a case is no request here: it    *)
(* answers for no case, as get_case orders Outcome by a column it lacks.)  *)
(***************************************************************************)
EXTENDS RecoveryContract, Degradation, FiniteSets

CONSTANTS
    Readers,        \* the requests that may run
    MaxAttempts     \* bound on the attempts of a payment method

ASSUME ReportsAssumption ==
    /\ Readers \subseteq {"overview", "list", "training", "degradation"}
    /\ MaxAttempts \in Nat

VARIABLES
    reader,     \* the request that runs (they do not see each other)
    seen        \* what its statements have returned so far

vars == <<contractVars, reader, seen>>

OpenCases       == {p \in Payments : Exists(p) /\ cases[p].state \notin {"RECOVERED", "CLOSED"}}
AllCases        == {p \in Payments : Exists(p)}
AttributedCases == {o.case : o \in {x \in outcomes : x.attributed}}
Eligible        == {p \in Payments : cases[p].state \in {"RECOVERED", "CLOSED", "FAILED"}}

(* The statements of a request, in the order of the code.  "arrival" is     *)
(* none of them: it notes which cases there are when the request comes in.  *)
(* (The overview's last one, which counts skipped interventions, is left    *)
(* out: the contract does not speak of them.)                               *)
OverviewStatements ==
    <<"arrival", "at_risk", "recovered", "total", "open", "blocks", "risk_trend",
      "recovered_trend">>
ListStatements     == <<"case", "decision">>
TrainingStatements == <<"eligible", "labelled">>
AttemptStatements  == <<"attempts">>

InOrder ==
    [overview |-> OverviewStatements, list |-> ListStatements,
     training |-> TrainingStatements, degradation |-> AttemptStatements]

RecoveredFirst ==   \* mutant: revenue is summed before the revenue at risk
    [InOrder EXCEPT !.overview = <<"arrival", "recovered", "at_risk", "total", "open",
                                   "blocks", "risk_trend", "recovered_trend">>]
DecisionFirst ==    \* mutant: the decisions are read before the cases
    [InOrder EXCEPT !.list = Reverse(@)]
LabelsFirst ==      \* mutant: outcomes are read before the cases they label
    [InOrder EXCEPT !.training = Reverse(@)]

Statements == InOrder

(* The cases the daily risk is summed over. *)
TrendOfOpenCases == OpenCases   \* mutant: only open cases enter the trend
TrendCases == AllCases

(* What a statement may return.  The attempts of a method are any history   *)
(* of successes and failures (the pipeline itself only adds failed ones).   *)
Results(statement) ==
    CASE statement \in {"arrival", "total"}             -> {AllCases}
      [] statement = "risk_trend"                       -> {TrendCases}
      [] statement \in {"at_risk", "open"}              -> {OpenCases}
      [] statement \in {"recovered", "recovered_trend"} -> {AttributedCases}
      [] statement = "blocks"   -> {{p \in Payments : cases[p].state = "NEEDS_REVIEW"}}
      [] statement = "eligible" -> {Eligible}
      [] statement = "labelled" -> {{o.case : o \in outcomes}}
      [] statement = "case"     -> {[p \in Payments |-> cases[p].state]}
      [] statement = "decision" -> {decisions}
      [] statement = "attempts" -> UNION {[1 .. n -> {0, 1}] : n \in 0 .. MaxAttempts}

Returned == Cardinality(DOMAIN seen)

(* What has been seen once a statement has returned a result. *)
SeenWith(statement, result) ==
    [s \in DOMAIN seen \cup {statement} |-> IF s = statement THEN result ELSE seen[s]]

(* The next statement of the request returns. *)
Read ==
    /\ Returned < Len(Statements[reader])
    /\ LET statement == Statements[reader][Returned + 1]
       IN  \E result \in Results(statement) : seen' = SeenWith(statement, result)
    /\ UNCHANGED <<contractVars, reader>>

Answered(r) == reader = r /\ Returned = Len(Statements[r])

ReportsInit == Init /\ reader \in Readers /\ seen = <<>>

(* The pipeline moves.  (It rests for the degradation report, which reads   *)
(* nothing of what the contract is about.)                                  *)
Pipeline ==
    /\ reader # "degradation"
    /\ ContractNext
    /\ UNCHANGED <<reader, seen>>

ReportsNext == Pipeline \/ Read

ReportsSpec == ReportsInit /\ [][ReportsNext]_vars
-----------------------------------------------------------------------------
ReportsTypeOK ==
    /\ ContractTypeOK
    /\ reader \in Readers
    /\ \E n \in 0 .. Len(Statements[reader]) :
          DOMAIN seen = {Statements[reader][i] : i \in 1 .. n}

(* No revenue disappears from the overview while it is computed: a case     *)
(* that exists when the request arrives is summed as at risk or as          *)
(* recovered, or was recovered without our doing.  (It may be in both sums: *)
(* recovered between the two queries, or put back to WAITING_FOR_OUTCOME.)  *)
RiskIsAccounted ==
    Answered("overview") =>
        \A p \in seen["arrival"] :
            \/ p \in seen["at_risk"] \cup seen["recovered"]
            \/ \E o \in outcomes : o.case = p /\ ~o.attributed

(* The daily trend, computed last, covers the totals shown beside it: no    *)
(* case or recovered amount of a total is missing from every day.           *)
TrendCoversTotals ==
    Answered("overview") =>
        /\ seen["at_risk"] \cup seen["total"] \cup seen["blocks"] \subseteq seen["risk_trend"]
        /\ seen["recovered"] \subseteq seen["recovered_trend"]

(* Every case of the list is shown with its recommended action and the      *)
(* resolution of the policy, read after it by queries of their own.         *)
ListShowsDecision ==
    Answered("list") =>
        \A p \in Payments :
            seen["case"][p] # "NONE" => seen["decision"][p].action # "NONE"

(* "Train only on genuine, verified merchant outcomes": cases and outcomes  *)
(* are read by two statements, and still no recovered case is labelled as a *)
(* failure.                                                                 *)
LabelsAreGenuine ==
    Answered("training") =>
        seen["eligible"] \subseteq seen["labelled"]

(* At the sample sizes the detector starts with, and at zero variance, a    *)
(* method is degraded exactly if its last attempt is the first to fail:     *)
(* fewer than eight attempts are not judged, and a method that goes on      *)
(* failing is no longer reported, its own failures being in the baseline.   *)
DegradedAtFirstFailure ==
    Answered("degradation") =>
        LET s == seen["attempts"]
        IN  Degraded(s) <=> /\ Len(s) >= 8
                            /\ s[Len(s)] = 0
                            /\ \A i \in 1 .. Len(s) - 1 : s[i] = 1
=============================================================================
