--------------------------- MODULE MCStrategyReview ---------------------------
(***************************************************************************)
(* An instance of sessions and review for TLC: complete records about the  *)
(* seed's recommendation and about one that may not have been made, and,   *)
(* for either, one that fails each check.                                  *)
(***************************************************************************)
EXTENDS StrategyReview, TLC

MCDrafts ==
    UNION {LET draft == [SeedDecision EXCEPT !.recommendation = id, !.window = 60]
           IN  {draft,
                [draft EXCEPT !.named = FALSE], [draft EXCEPT !.window = 0],
                [draft EXCEPT !.confidence = 101], [draft EXCEPT !.edge = 0],
                [draft EXCEPT !.topFeatures = 0], [draft EXCEPT !.riskContext = 0]}
           : id \in {1, 2}}

ThreadSymmetry == Permutations(Threads)
=============================================================================
