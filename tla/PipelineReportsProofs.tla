------------------------ MODULE PipelineReportsProofs ------------------------
(***************************************************************************)
(* What the read endpoints answer beside the pipeline itself.  As the      *)
(* pipeline implements its contract, a request beside it reads what it     *)
(* could have read beside the contract (SystemReads), and the theorems of  *)
(* ReportsProofs are taken over by instantiating them with the refinement  *)
(* mapping of the pipeline.                                                *)
(***************************************************************************)
EXTENDS PipelineReports, RecoveryRefinementProofs

Proved == INSTANCE ReportsProofs WITH
    captured <- CapturedPayments, sent <- SentFor, trail <- AttestedStates

LEMMA ReadersTyped == Proved!ReportsAssumption
  BY PipelineReadersAssumption DEF Proved!ReportsAssumption

-----------------------------------------------------------------------------
(* The contract, as RecoveryRefinement and as Reports know it. *)

LEMMA SameRows ==
  /\ Contract!NoRow = Proved!NoRow
  /\ Contract!Recovered = Proved!Recovered
  /\ Contract!PaymentId = Proved!PaymentId
  /\ Contract!RecoveryAction = Proved!RecoveryAction
  /\ \A p : Contract!Exists(p) <=> Proved!Exists(p)
  /\ \A a : Contract!EffectOf(a) = Proved!EffectOf(a)
  BY DEF Contract!NoRow, Proved!NoRow, Contract!Recovered, Proved!Recovered,
         Contract!PaymentId, Proved!PaymentId, Contract!RecoveryAction, Proved!RecoveryAction,
         Contract!Exists, Proved!Exists, Contract!EffectOf, Proved!EffectOf

LEMMA SameInit == Contract!Init => Proved!Init
  BY SameRows DEF Contract!Init, Proved!Init

LEMMA SameSteps == Contract!ContractNext => Proved!ContractNext
<1>1. ASSUME NEW id, Contract!Capture(id)
      PROVE  Proved!Capture(id)
  BY <1>1 DEF Contract!Capture, Proved!Capture
<1>2. ASSUME NEW p, NEW d, Contract!Open(p, d)
      PROVE  Proved!Open(p, d)
  BY <1>2, SameRows DEF Contract!Open, Proved!Open
<1>3. ASSUME NEW p, Contract!Send(p)
      PROVE  Proved!Send(p)
  BY <1>3, SameRows DEF Contract!Send, Proved!Send
<1>4. ASSUME NEW p, Contract!Record(p)
      PROVE  Proved!Record(p)
  BY <1>4, SameRows DEF Contract!Record, Proved!Record
<1>5. ASSUME NEW p, Contract!LearnPaid(p)
      PROVE  Proved!LearnPaid(p)
  BY <1>5 DEF Contract!LearnPaid, Proved!LearnPaid
<1>6. ASSUME NEW p, NEW id, NEW attributed, Contract!Confirm(p, id, attributed)
      PROVE  Proved!Confirm(p, id, attributed)
  BY <1>6, SameRows DEF Contract!Confirm, Proved!Confirm
<1> QED BY <1>1, <1>2, <1>3, <1>4, <1>5, <1>6, SameRows
        DEF Contract!ContractNext, Proved!ContractNext

LEMMA SameVariables == UNCHANGED Contract!contractVars => UNCHANGED Proved!contractVars
  BY DEF Contract!contractVars, Proved!contractVars

-----------------------------------------------------------------------------
(* The refinement. *)

LEMMA SystemInitMaps == SystemInit => Proved!ReportsInit
  BY InitMaps, SameInit, PipelineReadersAssumption DEF SystemInit, Proved!ReportsInit

(* The rows do not change while a statement returns.                         *)
LEMMA RowsUnchanged == UNCHANGED vars => UNCHANGED Proved!contractVars
  BY DEF vars, provider, database, Proved!contractVars, CapturedPayments, SentFor, AttestedStates

LEMMA SameStatements == Reading!Statements = Proved!Statements
  BY DEF Reading!Statements, Proved!Statements, Reading!InOrder, Proved!InOrder,
         Reading!OverviewStatements, Proved!OverviewStatements,
         Reading!ListStatements, Proved!ListStatements,
         Reading!TrainingStatements, Proved!TrainingStatements,
         Reading!AttemptStatements, Proved!AttemptStatements

LEMMA SameResults == \A s : Reading!Results(s) = Proved!Results(s)
  BY DEF Reading!Results, Proved!Results, Reading!AllCases, Proved!AllCases,
         Reading!OpenCases, Proved!OpenCases, Reading!AttributedCases, Proved!AttributedCases,
         Reading!Eligible, Proved!Eligible, Reading!TrendCases, Proved!TrendCases,
         Reading!Exists, Proved!Exists

LEMMA SameRead == Reading!Read <=> Proved!Read
<1>1. Reading!Returned = Proved!Returned
  BY DEF Reading!Returned, Proved!Returned, Reading!Cardinality, Proved!Cardinality
<1>2. \A s, r : Reading!SeenWith(s, r) = Proved!SeenWith(s, r)
  BY DEF Reading!SeenWith, Proved!SeenWith
<1>3. UNCHANGED <<Reading!contractVars, reader>> <=> UNCHANGED <<Proved!contractVars, reader>>
  BY DEF Reading!contractVars, Proved!contractVars
<1> QED BY <1>1, <1>2, <1>3, SameStatements, SameResults DEF Reading!Read, Proved!Read

LEMMA SystemStepMaps ==
  PipelineInv /\ reader \in Readers /\ [SystemNext]_systemVars
     => [Proved!ReportsNext]_(Proved!vars)
<1> SUFFICES ASSUME PipelineInv, reader \in Readers, [SystemNext]_systemVars
             PROVE  Proved!ReportsNext \/ UNCHANGED Proved!vars
  OBVIOUS
<1>1. CASE PipelineMoves
  <2>1. Contract!ContractNext \/ UNCHANGED Contract!contractVars
    BY <1>1, StepMaps DEF PipelineMoves
  <2>2. CASE Contract!ContractNext
    <3>1. Proved!Pipeline
      BY <1>1, <2>2, SameSteps, PipelineReadersAssumption DEF PipelineMoves, Proved!Pipeline
    <3> QED BY <3>1 DEF Proved!ReportsNext
  <2>3. CASE UNCHANGED Contract!contractVars
    BY <1>1, <2>3, SameVariables DEF PipelineMoves, Proved!vars
  <2> QED BY <2>1, <2>2, <2>3
<1>2. CASE StatementReturns
  BY <1>2, SameRead DEF StatementReturns, Proved!ReportsNext
<1>3. CASE UNCHANGED systemVars
  <2>1. UNCHANGED vars /\ UNCHANGED <<reader, seen>>
    BY <1>3 DEF systemVars
  <2> QED BY <2>1, RowsUnchanged DEF Proved!vars
<1> QED BY <1>1, <1>2, <1>3 DEF SystemNext

(* The readers do not disturb the pipeline.                                  *)
LEMMA SystemIsPipeline == SystemSpec => Spec
<1>1. SystemInit => Init
  BY DEF SystemInit
<1>2. [SystemNext]_systemVars => [Next]_vars
  BY DEF SystemNext, systemVars, PipelineMoves, StatementReturns
<1> QED BY <1>1, <1>2, PTL DEF SystemSpec, Spec

LEMMA ReaderStays == SystemSpec => [](reader \in Readers)
<1>1. SystemInit => reader \in Readers
  BY DEF SystemInit
<1>2. reader \in Readers /\ [SystemNext]_systemVars => (reader \in Readers)'
  BY DEF SystemNext, systemVars, PipelineMoves, StatementReturns, Reading!Read
<1> QED BY <1>1, <1>2, PTL DEF SystemSpec

LEMMA SystemReads == SystemSpec => Proved!ReportsSpec
  BY SystemIsPipeline, PipelineInvariant, ReaderStays, SystemInitMaps, SystemStepMaps, PTL
     DEF SystemSpec, Proved!ReportsSpec

LEMMA SameAnswered == \A r : Reading!Answered(r) <=> Proved!Answered(r)
  BY SameStatements DEF Reading!Answered, Proved!Answered, Reading!Returned, Proved!Returned,
     Reading!Cardinality, Proved!Cardinality

(* The results of ReportsProofs hold of the tables the pipeline writes: no   *)
(* overview loses a case that was there when it was asked for, no list shows *)
(* a case without its decision, and no training selection labels a recovered *)
(* case a failure, whatever workers, retries and faults committed between    *)
(* the statements.                                                           *)
THEOREM AnswersFit == SystemSpec => []AnswersFitTogether
<1>1. Proved!RiskIsAccounted => Reading!RiskIsAccounted
  BY SameAnswered DEF Proved!RiskIsAccounted, Reading!RiskIsAccounted
<1>2. Proved!TrendCoversTotals => Reading!TrendCoversTotals
  BY SameAnswered DEF Proved!TrendCoversTotals, Reading!TrendCoversTotals
<1>3. Proved!ListShowsDecision => Reading!ListShowsDecision
  BY SameAnswered DEF Proved!ListShowsDecision, Reading!ListShowsDecision
<1>4. Proved!LabelsAreGenuine => Reading!LabelsAreGenuine
  BY SameAnswered DEF Proved!LabelsAreGenuine, Reading!LabelsAreGenuine
<1>5. Proved!ReportsSpec =>
         [](/\ Proved!RiskIsAccounted /\ Proved!TrendCoversTotals
            /\ Proved!ListShowsDecision /\ Proved!LabelsAreGenuine)
  BY ReadersTyped, Proved!RiskAccounted, Proved!TrendCovers, Proved!ListDecided,
     Proved!LabelsGenuine, PTL
<1>6. AnswersFitTogether <=>
         /\ Reading!RiskIsAccounted /\ Reading!TrendCoversTotals
         /\ Reading!ListShowsDecision /\ Reading!LabelsAreGenuine
  BY DEF AnswersFitTogether
<1> QED BY <1>1, <1>2, <1>3, <1>4, <1>5, <1>6, SystemReads, PTL
=============================================================================
