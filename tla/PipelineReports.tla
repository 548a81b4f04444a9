--------------------------- MODULE PipelineReports ---------------------------
(***************************************************************************)
(* The read endpoints beside the recovery pipeline itself: requests read   *)
(* the tables statement by statement while workers open, execute, retry    *)
(* and recover cases.  Reports says what they read beside the contract;    *)
(* as the pipeline keeps it, this composition is one of Reports'.          *)
(***************************************************************************)
EXTENDS RecoveryRefinement

CONSTANTS
    Readers,        \* the requests that may run
    MaxAttempts     \* bound on the attempts of a payment method

VARIABLES
    reader,     \* the request that runs
    seen        \* what its statements have returned so far

(* Readers see what the contract is about of the committed rows. *)
Reading == INSTANCE Reports WITH
    captured <- CapturedPayments, sent <- SentFor, trail <- AttestedStates

ASSUME PipelineReadersAssumption ==
    /\ Readers \subseteq {"overview", "list", "training"}
    /\ MaxAttempts \in Nat

systemVars == <<vars, reader, seen>>

SystemInit == Init /\ reader \in Readers /\ seen = <<>>

(* The provider, the API or a worker moves between two statements ... *)
PipelineMoves == Next /\ UNCHANGED <<reader, seen>>

(* ... or the next statement returns, which changes no row. *)
StatementReturns == UNCHANGED vars /\ Reading!Read

SystemNext == PipelineMoves \/ StatementReturns

SystemSpec == SystemInit /\ [][SystemNext]_systemVars
-----------------------------------------------------------------------------
(* What an answered request shows fits together (each part is explained at  *)
(* its definition in Reports), although every statement of overview, list   *)
(* and training selection read another state of the workers' rows, between  *)
(* their crashes, retries and stale commits: no case is missing from both   *)
(* sums, no case is listed without its decision, and no recovered case is   *)
(* taken for a failure.                                                     *)
AnswersFitTogether ==
    /\ Reading!RiskIsAccounted
    /\ Reading!TrendCoversTotals
    /\ Reading!ListShowsDecision
    /\ Reading!LabelsAreGenuine
=============================================================================
