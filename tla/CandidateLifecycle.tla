-------------------------- MODULE CandidateLifecycle --------------------------
(***************************************************************************)
(* One item's journey through the pipeline: the persisted Candidate, moved *)
(* by the driver commands of pilot_driver.py and validation_driver.py.     *)
(* Each action is one whole command as it touches this Candidate: the      *)
(* re-arming of a failed stage, the stage itself, and the save, which      *)
(* keeps the old record when validate_candidate_invariants refuses the new *)
(* one.  Batches, files and concurrent commands are module Driver's.       *)
(***************************************************************************)
EXTENDS CandidateOps

CONSTANTS
  GeneratorBodies,  \* the outputs each agent may give
  ReviewBodies,
  SolverBodies,
  Redelivery,       \* a Reviewer output already applied may be supplied again
  KeepSolverOutput, \* TRUE: validation_driver.py, FALSE: pilot_driver.py
  MaxSupplied       \* bound: failing outputs supplied per kind and stage

ASSUME BodiesAssumption ==
  /\ GeneratorBodies \subseteq GeneratorBody
  /\ ReviewBodies \subseteq ReviewBody
  /\ SolverBodies \subseteq SolverBody
  /\ Redelivery \in BOOLEAN
  /\ KeepSolverOutput \in BOOLEAN
  /\ MaxSupplied \in Nat

\* The Reviewer's validate_output.py lets no PASS through with
\* critical_failure set.
ASSUME ReviewSchemaAssumption ==
  \A b \in ReviewBodies : b.shape = "ok" /\ b.verdict = "PASS" => ~ b.critical

VARIABLES
  candidate,  \* the record in the state file
  refused,    \* the last command raised, in a transition or in the save
  supplied    \* history: failing outputs supplied, per kind and stage

vars == <<candidate, refused, supplied>>

TypeOK ==
  /\ candidate \in Candidate
  /\ refused \in BOOLEAN
  /\ supplied \in [FailureKinds \X RETRY_STAGES -> Nat]

-----------------------------------------------------------------------------
(* Commands. *)

\* save_candidate_state: all or nothing.
Save(new) ==
  \E c \in {new} :
    /\ candidate' = IF validate_candidate_invariants(c) THEN c ELSE candidate
    /\ refused' = ~ validate_candidate_invariants(c)

\* The history variable counts what was supplied, saved or not.
Supply(body, crash, stage) ==
  LET outcome == StageOutcome(body, crash) IN
  IF outcome \in FailureKinds
  THEN /\ supplied[<<outcome, stage>>] < MaxSupplied
       /\ supplied' = [supplied EXCEPT ![<<outcome, stage>>] = @ + 1]
  ELSE UNCHANGED supplied

\* cmd_init takes the Candidate's section from the item, so the first item
\* always has the Candidate's identity.
Init ==
  \E b \in GeneratorBodies, crash \in BOOLEAN :
    /\ b.ident
    /\ candidate = NewCandidate(b, crash)
    /\ refused = FALSE
    /\ supplied = [p \in FailureKinds \X RETRY_STAGES |->
                     IF p = <<StageOutcome(b, crash), "generator">> THEN 1 ELSE 0]

\* What the operator may supply: an output about the current item, or, with
\* Redelivery, one of an earlier round that the driver has already decided on.
\* (An output whose validator crashed was not decided on: supplied again after
\* a revision it would be taken for a review of the new item.)
Decided(h) == h.routed_state # "GENERATION_FAILED"

ReviewOutputs ==
  [body : ReviewBodies, of : {candidate.generator_item.ver}]
    \cup (IF Redelivery
          THEN {h.output : h \in {x \in candidate.review_history : Decided(x)}}
          ELSE {})

ApplyReview ==
  /\ AwaitsReview(candidate)
  /\ \E out \in ReviewOutputs, crash \in BOOLEAN :
       /\ Supply(out.body, crash, "reviewer")
       /\ Save(ReviewCandidate(candidate, out, crash))

ApplyRevision ==
  /\ AwaitsRevision(candidate)
  /\ \E b \in GeneratorBodies, crash \in BOOLEAN :
       /\ Supply(b, crash, "generator")
       /\ Save(ReviseCandidate(candidate, b, crash))

PrepareSolverBatch ==
  /\ Save(PrepareCandidate(candidate))
  /\ UNCHANGED supplied

\* The Solver batch must have been prepared: build_solver_batch_artifact
\* refuses a SOLVING Candidate without a persisted payload.
ApplySolver ==
  /\ candidate.state = "SOLVING"
  /\ candidate.solver_input # None
  /\ \E b \in SolverBodies, crash \in BOOLEAN :
       LET out == [body |-> b, of |-> candidate.solver_input] IN
       /\ Supply(b, crash, "solver")
       /\ Save(SolveCandidate(candidate, out, crash, KeepSolverOutput))

Next == ApplyReview \/ ApplyRevision \/ PrepareSolverBatch \/ ApplySolver

Spec == Init /\ [][Next]_vars

-----------------------------------------------------------------------------
(* Properties. *)

Count(kind, stage) == RetryCount(candidate, kind, stage)

\* Nothing derived from a replaced item survives on the record: a payload, a
\* Solver output and a consensus always belong to the current item, and only a
\* terminal record carries a consensus (PIPELINE.md section 8, RETRY_POLICY.md).
\* The review that let the item through is a PASS written about this very
\* item: no earlier round's output, supplied again, can stand in for it.
EvidenceIsCurrent ==
  /\ candidate.state \in {"SOLVING", "ACCEPTED"} \/ candidate.solver_input # None =>
       /\ candidate.reviewer_item # None
       /\ candidate.reviewer_item.of = candidate.generator_item.ver
       /\ candidate.reviewer_item.body.verdict = "PASS"
       /\ candidate.reviewer_item.body.shape = "ok"
  /\ candidate.reviewer_input \in {None, candidate.generator_item.ver}
  /\ candidate.solver_input \in {None, candidate.generator_item.ver}
  /\ candidate.solver_item # None => candidate.solver_item.of = candidate.generator_item.ver
  /\ candidate.consensus # None => candidate.state \in TERMINAL_STATES

\* AUTO_ACCEPT means that three parties agree on one letter, about one item,
\* with all three outputs accepted by their validators and no gate tripped.
AcceptedMeansAgreement ==
  candidate.state = "ACCEPTED" =>
    LET g == candidate.generator_item.body
        r == candidate.reviewer_item.body
        s == candidate.solver_item.body
    IN  /\ {g.key, r.answer, s.answer} = {g.key}
        /\ {g.shape, r.shape, s.shape} = {"ok"}
        /\ ~ r.critical /\ ~ s.ambiguous
        /\ s.confidence \in AllowedConfidence
        /\ r.risk \notin BlockedRisk
        /\ candidate.solver_item.of = candidate.reviewer_item.of
        /\ candidate.failure = None

\* A retry budget is exceeded by one failure at most, and only by the failure
\* that sent the Candidate to MANUAL_REVIEW: two budgets are never both spent.
RetryBudgets ==
  \A kind \in FailureKinds, stage \in RETRY_STAGES :
    /\ Count(kind, stage) <= retry_limit(kind) + 1
    /\ Count(kind, stage) > retry_limit(kind) =>
         /\ candidate.state = "MANUAL_REVIEW"
         /\ candidate.failure = [kind |-> kind, stage |-> stage]

\* generation_attempt counts quality-driven regenerations and nothing else,
\* generation_history every output: retries are the exact difference
\* (RETRY_POLICY.md: transient retries change neither counter).
AttemptAccounting ==
  LET pending == candidate.failure # None /\ candidate.failure.stage = "generator"
      unanswered == candidate.state = "REVISE_REQUIRED" \/ candidate.discard_note
  IN  /\ candidate.generation_attempt + (IF unanswered THEN 1 ELSE 0)
            = candidate.revision_count + 1
      /\ candidate.generation_attempt
            + Count("system", "generator") + Count("content", "generator")
            = candidate.generation_history + (IF pending THEN 1 ELSE 0)

\* With outputs that carry the Candidate's identity no command raises: every
\* transition the code attempts is in ALLOWED_TRANSITIONS, and every record it
\* produces is one validate_candidate_invariants lets it save.
NeverRefused == ~ refused

\* RETRY_POLICY.md: "Once the relevant retry limit is exceeded, the candidate
\* is routed to MANUAL_REVIEW", counted on what the agents supplied.
RetryPolicyEnforced ==
  \A kind \in FailureKinds, stage \in RETRY_STAGES :
    supplied[<<kind, stage>>] > retry_limit(kind) => candidate.state = "MANUAL_REVIEW"

\* Whatever ends a Candidate, finalization can record it: "Build provenance/
\* accepted/manual-review/failure artifacts for the completed current-format
\* terminal candidate set" (pilot_driver.py, finalize).
TerminalIsFinalizable ==
  candidate.state \in TERMINAL_STATES => validate_final_record(candidate)

\* A PASS is final: after it the item is solved or ends, and is never
\* reviewed or regenerated again; a terminal state is never left.
ReviewSettled(c) ==
  c.state \in {"SOLVING"} \cup TERMINAL_STATES \/ FailedAt(c, "solver")

PassIsFinal ==
  [][ /\ ReviewSettled(candidate) => ReviewSettled(candidate')
      /\ candidate.state \in TERMINAL_STATES => candidate' = candidate ]_vars
=============================================================================
