---------------------------- MODULE ModelGovernance ----------------------------
(***************************************************************************)
(* Model decision records and the recommendation preview they allow        *)
(* (libs/schemas/model_governance.py, services/model_service/governance.py *)
(* as functions of the store's list of decisions).                         *)
(*                                                                         *)
(* A record keeps the recommendation it names and what validation_errors   *)
(* looks at; models, feature versions and evaluations are constants of the *)
(* store that no decision reads.                                           *)
(***************************************************************************)
EXTENDS Integers, Sequences, FiniteSets, SequencesExt

\* ModelDecisionRecord.  "named": no required name or text is empty; "window" is the
\* input window's length; confidence and edge in hundredths.
Decision == [recommendation: Nat \ {0}, named: BOOLEAN, window: Int, confidence: Int,
             edge: Int, topFeatures: Nat, riskContext: Nat]

\* validation_errors is empty.
Complete(d) ==
    /\ d.named
    /\ d.window > 0
    /\ 0 <= d.confidence /\ d.confidence <= 100
    /\ d.edge > 0
    /\ d.topFeatures > 0
    /\ d.riskContext > 0

\* default_model_decision_records: the record every store starts with.
SeedDecision ==
    [recommendation |-> 1, named |-> TRUE, window |-> 90, confidence |-> 62, edge |-> 152,
     topFeatures |-> 3, riskContext |-> 4]

\* decision_for_recommendation: the newest record that names it; 0 when none does.
DecisionFor(decisions, id) ==
    SelectLastInSeq(decisions, LAMBDA d : d.recommendation = id)

\* recommendation_preview.
PreviewAccepted(decisions, id) ==
    DecisionFor(decisions, id) # 0 /\ Complete(decisions[DecisionFor(decisions, id)])
=============================================================================
