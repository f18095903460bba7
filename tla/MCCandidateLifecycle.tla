------------------------- MODULE MCCandidateLifecycle -------------------------
EXTENDS CandidateLifecycle

\* Two letters: the key, and a wrong one.
MCAnswers == {"A", "B"}

Identified(bodies) == {b \in bodies : b.ident}

\* One body per way the routing can tell outputs apart.  The fields of an
\* output that its validator rejects are never looked at again.
MCGeneratorBodies ==
  {b \in GeneratorBody :
     b.key = "A" /\ (~ b.ident => b.shape = "ok") /\ b.shape # "alien"}

MCReviewBodies ==
  {b \in ReviewBody :
     /\ b.ident \/ b.shape = "ok"
     /\ b.shape # "alien"
     /\ b.ident /\ b.shape = "ok" /\ b.verdict = "PASS" => ~ b.critical
     /\ ~ b.ident \/ b.shape = "bad" \/ b.verdict # "PASS" =>
          b.critical /\ b.answer = "A" /\ b.risk = "LOW"
     /\ ~ b.ident \/ b.shape = "bad" => b.verdict = "REVISE"}

MCSolverBodies ==
  {b \in SolverBody :
     /\ b.ident \/ b.shape = "ok"
     /\ b.shape # "alien"
     /\ ~ b.ident \/ b.shape = "bad" \/ b.answer \notin Answers =>
          b.ambiguous /\ b.confidence = "LOW"
     /\ ~ b.ident \/ b.shape = "bad" => b.answer = "NONE"}

MCGoodGeneratorBodies == Identified(MCGeneratorBodies)
MCGoodReviewBodies == Identified(MCReviewBodies)
MCGoodSolverBodies == Identified(MCSolverBodies)

\* With outputs that put an illegal value into a field of the final record.
MCAlienGeneratorBodies ==
  MCGoodGeneratorBodies
    \cup {[b EXCEPT !.shape = "alien"] : b \in MCGoodGeneratorBodies}
MCAlienReviewBodies ==
  MCGoodReviewBodies
    \cup {[b EXCEPT !.shape = "alien"] : b \in {x \in MCGoodReviewBodies : x.shape = "bad"}}
=============================================================================
