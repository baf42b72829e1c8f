---------------------------- MODULE StrategyReview ----------------------------
(***************************************************************************)
(* Strategy recommendations and their review: the session manager's        *)
(* recommendations with the model governance store that decides whether a  *)
(* recommendation may go on to the order path                              *)
(* (services/model_service/governance.py).  The store is created with the  *)
(* server and writes its seed over what the files had.                     *)
(***************************************************************************)
EXTENDS StrategySessions, ModelGovernance

CONSTANTS
    Drafts,       \* the decision records reviewers submit, about any recommendation
    MaxDecisions  \* bound: records added

VARIABLES
    decisions,     \* _decisions
    decisionsFile  \* models/decisions.json

reviewVars == <<vars, decisions, decisionsFile>>

ASSUME ReviewAssumption ==
    /\ Drafts \subseteq Decision
    /\ MaxDecisions \in Nat

ReviewInit ==
    /\ Init
    /\ decisions = <<SeedDecision>>
    /\ decisionsFile = <<SeedDecision>>

\* add_decision: an incomplete record raises and changes nothing.
AddDecision(d) ==
    /\ Len(decisions) <= MaxDecisions
    /\ Complete(d)
    /\ decisions' = Append(decisions, d)
    /\ decisionsFile' = decisions'
    /\ UNCHANGED vars

\* Mutant: a new store starts from the file.
RestartReviewReload ==
    /\ Restart
    /\ decisions' = decisionsFile
    /\ UNCHANGED decisionsFile

\* Both are module globals: the new server has a new manager and a new store.
RestartReview ==
    /\ Restart
    /\ decisions' = <<SeedDecision>>
    /\ decisionsFile' = decisions'

\* A record may name any recommendation: nothing asks whether it has been made.
ReviewNext ==
    \/ \E t \in Threads : Serve(t) /\ UNCHANGED <<decisions, decisionsFile>>
    \/ FeeLapse /\ UNCHANGED <<decisions, decisionsFile>>
    \/ \E d \in Drafts : AddDecision(d)
    \/ RestartReview

ReviewSpec == ReviewInit /\ [][ReviewNext]_reviewVars
-----------------------------------------------------------------------------
\* The ids that the store approves.
Approved(list) ==
    {list[n].recommendation :
        n \in {m \in DOMAIN list : PreviewAccepted(list, list[m].recommendation)}}

\* Recommendation ids start again with every server process and a record may name
\* one that has not been made yet, so what approves a recommendation has to be a
\* review made in the same process.  While a server lives no recommendation is
\* withdrawn and no approval lost or taken back by a later record, and an id is only
\* approved by a complete record about it that is added in that very step; a restart
\* drops the recommendations and, together with them, every approval but the seed's.
ApprovalsFollowReviews ==
    [][\/ /\ Restart
          /\ Approved(decisions') = {SeedDecision.recommendation}
       \/ /\ IsPrefix(recommendations, recommendations')
          /\ Approved(decisions) \subseteq Approved(decisions')
          /\ \A id \in Approved(decisions') \ Approved(decisions) :
                \E d \in Drafts : /\ Complete(d) /\ d.recommendation = id
                                  /\ decisions' = Append(decisions, d)]_reviewVars
=============================================================================
