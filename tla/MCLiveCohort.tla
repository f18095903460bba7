---------------------------- MODULE MCLiveCohort ----------------------------
EXTENDS LiveCohort, TLC

MCGeneratorBodies == {[ident |-> TRUE, shape |-> "ok", key |-> "A"]}
MCReviewBody(verdict, answer) ==
  [ident |-> TRUE, shape |-> "ok", verdict |-> verdict, critical |-> FALSE,
   answer |-> answer, risk |-> "LOW"]
MCReviewBodies == {MCReviewBody("PASS", "A"), MCReviewBody("REVISE", "A")}
MCSolverBodies == {[ident |-> TRUE, shape |-> "ok", answer |-> answer, ambiguous |-> FALSE,
                    confidence |-> "HIGH"] : answer \in {"A", "B"}}
=============================================================================
