------------------------------- MODULE MCDriver -------------------------------
EXTENDS Driver, TLC

MCGeneratorBodies == {[ident |-> TRUE, shape |-> "ok", key |-> "A"]}
MCReviewBody(shape, verdict) ==
  [ident |-> TRUE, shape |-> shape, verdict |-> verdict, critical |-> FALSE,
   answer |-> "A", risk |-> "LOW"]
MCReviewBodies == {MCReviewBody("ok", "PASS"), MCReviewBody("ok", "REVISE")}
MCFailingReviewBodies == MCReviewBodies \cup {MCReviewBody("bad", "PASS")}
MCSolverBody(shape) ==
  [ident |-> TRUE, shape |-> shape, answer |-> "A", ambiguous |-> FALSE,
   confidence |-> "HIGH"]
MCSolverBodies == {MCSolverBody("ok")}
MCFailingSolverBodies == {MCSolverBody("ok"), MCSolverBody("bad")}

MCSymmetry == Permutations(Processes) \cup Permutations(Items)
=============================================================================
