----------------------------- MODULE CandidateOps -----------------------------
(***************************************************************************)
(* The Candidate record of orchestrator/scripts/orchestrator.py and the    *)
(* functions that move it through the pipeline, as operators on records.   *)
(*                                                                         *)
(* Agent outputs are abstracted to what routing can tell apart:            *)
(*   ident    item_id and section match the Candidate's                    *)
(*   shape    "ok"     the stage's validate_output.py accepts it           *)
(*            "bad"    it does not, but the fields copied into provenance  *)
(*                     (answer, verdict, confidence) have legal values     *)
(*            "alien"  it does not, and one of those fields is illegal     *)
(*   ver      a Generator item's number: its index in generation_history   *)
(*   of       the Generator item a Reviewer or Solver output was written   *)
(*            about.  The program does not record it: properties only.     *)
(* A blind payload is the deterministic projection of one Generator item   *)
(* (shared/reviewer_blinding.py, shared/solver_blinding.py), so it is      *)
(* represented by that item's number.                                      *)
(***************************************************************************)
EXTENDS Naturals, FiniteSets

CONSTANTS
  Answers,               \* the option letters A..D
  Confidences,           \* a Solver's confidence levels
  AllowedConfidence,     \* auto_accept.allowed_solver_confidence
  Risks,                 \* a Reviewer's source_similarity_risk levels
  BlockedRisk,           \* auto_accept.block_source_similarity_risk
  MaxRevisionCycles,     \* retry_policy.max_revision_cycles
  MaxSystemRetries,      \* retry_policy.max_system_failure_retries
  MaxValidationRetries,  \* retry_policy.max_generation_validation_retries
  None                   \* an absent optional field

ASSUME ConfigAssumption ==
  /\ AllowedConfidence \subseteq Confidences
  /\ BlockedRisk \subseteq Risks
  /\ MaxRevisionCycles \in Nat
  /\ MaxSystemRetries \in Nat
  /\ MaxValidationRetries \in Nat

ASSUME AnswersAssumption == Answers \cap {"AMBIGUOUS", "NONE"} = {}

-----------------------------------------------------------------------------
(* States and records. *)

TERMINAL_STATES == {"REJECTED", "ACCEPTED", "MANUAL_REVIEW", "DISCARDED"}
FailedStates == {"GENERATION_FAILED", "VALIDATION_FAILED"}
VALID_STATES == {"GENERATED", "REVIEWING", "REVISE_REQUIRED", "SOLVING"}
                  \cup FailedStates \cup TERMINAL_STATES
Raised == "raised"
States == VALID_STATES \cup {Raised}

RETRY_STAGES == {"generator", "reviewer", "solver"}
FailureKinds == {"system", "content"}

\* Mutant: a failed Solver stage goes back to the Reviewer.
SolverRetryIsReviewed ==
  [generator |-> "GENERATED", reviewer |-> "REVIEWING", solver |-> "REVIEWING"]

STAGE_RETRY_STATES ==
  [generator |-> "GENERATED", reviewer |-> "REVIEWING", solver |-> "SOLVING"]

ALLOWED_TRANSITIONS ==
  [GENERATED         |-> {"REVIEWING", "VALIDATION_FAILED", "GENERATION_FAILED"},
   GENERATION_FAILED |-> {"GENERATED", "REVIEWING", "SOLVING", "MANUAL_REVIEW"},
   VALIDATION_FAILED |-> {"GENERATED", "REVIEWING", "SOLVING", "DISCARDED",
                          "MANUAL_REVIEW"},
   REVIEWING         |-> {"SOLVING", "REVISE_REQUIRED", "REJECTED", "DISCARDED",
                          "VALIDATION_FAILED", "GENERATION_FAILED"},
   REVISE_REQUIRED   |-> {"GENERATED", "REVIEWING", "DISCARDED"},
   SOLVING           |-> {"ACCEPTED", "MANUAL_REVIEW", "DISCARDED",
                          "VALIDATION_FAILED", "GENERATION_FAILED"},
   REJECTED          |-> {}, ACCEPTED  |-> {},
   MANUAL_REVIEW     |-> {}, DISCARDED |-> {}]

Shapes == {"ok", "bad", "alien"}
Verdicts == {"PASS", "REVISE", "REJECT"}
SolverAnswers == Answers \cup {"AMBIGUOUS", "NONE"}

\* What an agent decides; the item it becomes also says which version it is
\* (Generator) or is about (Reviewer, Solver).
GeneratorBody == [ident : BOOLEAN, shape : Shapes, key : Answers]
ReviewBody == [ident : BOOLEAN, shape : Shapes, verdict : Verdicts,
               critical : BOOLEAN, answer : Answers, risk : Risks]
SolverBody == [ident : BOOLEAN, shape : Shapes, answer : SolverAnswers,
               ambiguous : BOOLEAN, confidence : Confidences]

GeneratorItem == [body : GeneratorBody, ver : Nat]
ReviewerItem  == [body : ReviewBody, of : Nat]
SolverItem    == [body : SolverBody, of : Nat]

Conditions == {"verdict", "critical_failure", "reviewer_is_key", "solver_is_letter",
               "solver_is_key", "solver_is_reviewer", "ambiguity", "confidence",
               "risk"}
Consensus == [auto_accept : BOOLEAN,
              routing : {"ACCEPTED", "MANUAL_REVIEW", "DISCARDED"},
              failed_conditions : SUBSET Conditions]

\* acceptance_policy_record: the projection of the run's config that decides
\* acceptance.  One run has one config, frozen in its manifest.
acceptance_policy_record == [confidence |-> AllowedConfidence, risk |-> BlockedRisk]

Failure == [kind : FailureKinds, stage : RETRY_STAGES]
Retries == [RETRY_STAGES -> Nat]

\* generation_history is represented by its length, review_history by the set
\* of its entries, notes by the one note the invariants look for.
Candidate ==
  [state : States,
   generation_attempt : Nat,
   revision_count : Nat,
   system_failure_retries : Retries,
   validation_failure_retries : Retries,
   generator_item : GeneratorItem,
   reviewer_item : ReviewerItem \cup {None},
   reviewer_input : Nat \cup {None},
   solver_item : SolverItem \cup {None},
   solver_input : Nat \cup {None},
   leakage_check : {"ok", None},
   consensus : Consensus \cup {None},
   acceptance_policy : {acceptance_policy_record, None},
   failure : Failure \cup {None},
   discard_note : BOOLEAN,
   generation_history : Nat,
   review_history : SUBSET [output : ReviewerItem, routed_state : States]]

\* None is JSON null: never an output, a result or a failure.
ASSUME NoneAssumption ==
  None \notin ReviewerItem \cup SolverItem \cup Consensus \cup Failure \cup Nat

-----------------------------------------------------------------------------
(* Transitions, failures and retries. *)

\* Candidate.transition: a move that is not in the table raises, and the
\* exception abandons the command.  Raised marks the abandoned record; no
\* later assignment matters, for validate_candidate_invariants refuses it.
transition(c, new) ==
  [c EXCEPT !.state =
     IF @ \in VALID_STATES /\ new \in ALLOWED_TRANSITIONS[@] THEN new ELSE Raised]

retry_limit(kind) ==
  IF kind = "system" THEN MaxSystemRetries ELSE MaxValidationRetries

RetryCount(c, kind, stage) ==
  IF kind = "system" THEN c.system_failure_retries[stage]
                     ELSE c.validation_failure_retries[stage]

FailedStateOf(kind) ==
  IF kind = "system" THEN "GENERATION_FAILED" ELSE "VALIDATION_FAILED"

FailWith(c, kind, stage, count, over) ==
  LET failed == transition(
        [c EXCEPT
           !.system_failure_retries =
              IF kind = "system" THEN [@ EXCEPT ![stage] = count] ELSE @,
           !.validation_failure_retries =
              IF kind = "content" THEN [@ EXCEPT ![stage] = count] ELSE @,
           !.failure = [kind |-> kind, stage |-> stage]],
        FailedStateOf(kind))
  IN  IF over THEN transition(failed, "MANUAL_REVIEW") ELSE failed

\* Mutants: a failure counts down; one failure too many is let through.
FailureCountsDown(c, kind, stage) ==
  FailWith(c, kind, stage, RetryCount(c, kind, stage) - 1, FALSE)

FailureLimitOffByOne(c, kind, stage) ==
  LET count == RetryCount(c, kind, stage) + 1 IN
  FailWith(c, kind, stage, count, count > retry_limit(kind) + 1)

\* The failed state, or MANUAL_REVIEW through it once the budget is spent.
record_stage_failure(c, kind, stage) ==
  LET count == RetryCount(c, kind, stage) + 1 IN
  FailWith(c, kind, stage, count, count > retry_limit(kind))

FailedAt(c, stage) ==
  /\ c.state \in FailedStates
  /\ c.failure # None
  /\ c.failure.stage = stage

\* Mutant: the failure stays on the re-armed record.
RetryKeepsFailure(c) ==
  [transition(c, STAGE_RETRY_STATES[c.failure.stage]) EXCEPT
     !.solver_item = None, !.consensus = None]

\* Re-arms the failed stage and drops what that stage's next output outdates.
retry_failed_stage(c) ==
  LET stage == c.failure.stage
      over  == RetryCount(c, c.failure.kind, stage) > retry_limit(c.failure.kind)
      armed == transition(c, STAGE_RETRY_STATES[stage])
  IN  IF over
      THEN transition(c, "MANUAL_REVIEW")
      ELSE [armed EXCEPT
              !.failure = None,
              !.reviewer_item  = IF stage = "generator" THEN None ELSE @,
              !.reviewer_input = IF stage = "generator" THEN None ELSE @,
              !.solver_item = None,
              !.solver_input = IF stage = "solver" THEN @ ELSE None,
              !.leakage_check = IF stage = "solver" THEN @ ELSE None,
              !.consensus = None]

-----------------------------------------------------------------------------
(* The three stages.  crash: the validator subprocess could not give a      *)
(* verdict (it timed out, could not start, or exited with another code).    *)

run_schema_validator(body, crash) ==
  IF crash THEN "system" ELSE IF body.shape = "ok" THEN "ok" ELSE "content"

\* Identity is checked before the validator is called.
StageOutcome(body, crash) ==
  IF body.ident THEN run_schema_validator(body, crash) ELSE "content"

\* canonical_reviewer_input and canonical_solver_input
canonical_input(item) == item.ver

process_generation_output(c, crash) ==
  LET outcome == StageOutcome(c.generator_item.body, crash) IN
  IF outcome \in FailureKinds
  THEN record_stage_failure(c, outcome, "generator")
  ELSE [transition(c, "REVIEWING") EXCEPT
          !.failure = None,
          !.reviewer_input = canonical_input(c.generator_item)]

apply_generation_result(c, body, crash) ==
  LET n == c.generation_history + 1 IN
  process_generation_output(
    [c EXCEPT !.generator_item = [body |-> body, ver |-> n],
              !.generation_history = n],
    crash)

ReviewInputMismatch(c) ==
  c.reviewer_input \notin {None, canonical_input(c.generator_item)}

RouteVerdict(c) ==
  LET verdict == c.reviewer_item.body.verdict
      count   == c.revision_count + 1
      over    == count > MaxRevisionCycles
      target  == CASE verdict = "PASS"   -> "SOLVING"
                   [] verdict = "REJECT" -> "REJECTED"
                   [] OTHER -> IF over THEN "DISCARDED" ELSE "REVISE_REQUIRED"
  IN  [transition(c, target) EXCEPT
         !.failure = None,
         !.revision_count = IF verdict = "REVISE" THEN count ELSE @,
         !.discard_note = (target = "DISCARDED")]

process_review_output(c, crash) ==
  LET outcome == StageOutcome(c.reviewer_item.body, crash)
      armed   == [c EXCEPT !.reviewer_input = canonical_input(c.generator_item)]
  IN  IF ReviewInputMismatch(c)
      THEN record_stage_failure(c, "content", "reviewer")
      ELSE IF outcome \in FailureKinds
      THEN record_stage_failure(armed, outcome, "reviewer")
      ELSE RouteVerdict(armed)

apply_review_result(c, output, crash) ==
  LET d == process_review_output([c EXCEPT !.reviewer_item = output], crash) IN
  [d EXCEPT !.review_history =
     @ \cup {[output |-> output, routed_state |-> d.state]}]

-----------------------------------------------------------------------------
(* Consensus and the Solver stage. *)

\* Mutant: the ambiguity flag is not looked at.
AmbiguityIgnored(g, r, s) ==
  [verdict            |-> r.verdict = "PASS",
   critical_failure   |-> ~ r.critical,
   reviewer_is_key    |-> r.answer = g.key,
   solver_is_letter   |-> s.answer \in Answers,
   solver_is_key      |-> s.answer = g.key,
   solver_is_reviewer |-> s.answer = r.answer,
   ambiguity          |-> TRUE,
   confidence         |-> s.confidence \in AllowedConfidence,
   risk               |-> r.risk \notin BlockedRisk]

\* The nine AUTO_ACCEPT conditions.
ConditionHolds(g, r, s) ==
  [verdict            |-> r.verdict = "PASS",
   critical_failure   |-> ~ r.critical,
   reviewer_is_key    |-> r.answer = g.key,
   solver_is_letter   |-> s.answer \in Answers,
   solver_is_key      |-> s.answer = g.key,
   solver_is_reviewer |-> s.answer = r.answer,
   ambiguity          |-> ~ s.ambiguous,
   confidence         |-> s.confidence \in AllowedConfidence,
   risk               |-> r.risk \notin BlockedRisk]

evaluate_consensus(g, r, s) ==
  LET failed == {k \in Conditions : ~ ConditionHolds(g, r, s)[k]} IN
  [auto_accept       |-> failed = {},
   routing           |-> IF failed = {} THEN "ACCEPTED"
                         ELSE IF s.answer = "NONE" THEN "DISCARDED"
                         ELSE "MANUAL_REVIEW",
   failed_conditions |-> failed]

\* One SOLVING Candidate of prepare_solver_batch.  Blinding is the canonical
\* projection itself, so a fresh payload passes the guard and the comparison;
\* a persisted one is compared.
prepare_solver_input(c) ==
  LET canon == canonical_input(c.generator_item) IN
  IF c.solver_input \in {None, canon}
  THEN [c EXCEPT !.solver_input = canon, !.leakage_check = "ok"]
  ELSE record_stage_failure(
         [c EXCEPT !.solver_input = None, !.leakage_check = "ok"], "content", "solver")

\* input: the precomputed payload the driver passes.
process_solver_stage(c, output, input, crash) ==
  LET g == c.generator_item.body
      r == c.reviewer_item.body
      outcome == StageOutcome(output.body, crash)
      guarded == [c EXCEPT !.solver_input = input, !.leakage_check = "ok"]
      result  == evaluate_consensus(g, r, output.body)
  IN  IF ~ g.ident THEN record_stage_failure(c, "content", "generator")
      ELSE IF ~ r.ident THEN record_stage_failure(c, "content", "reviewer")
      ELSE IF input # canonical_input(c.generator_item)
      THEN record_stage_failure([c EXCEPT !.solver_input = None], "content", "solver")
      ELSE IF outcome \in FailureKinds
      THEN record_stage_failure(guarded, outcome, "solver")
      ELSE [transition(guarded, result.routing) EXCEPT
              !.solver_item = output,
              !.failure = None,
              !.consensus = result,
              !.acceptance_policy =
                 IF result.routing = "ACCEPTED" THEN acceptance_policy_record ELSE None]

-----------------------------------------------------------------------------
(* What one driver command does to one Candidate.                           *)

\* cmd_init
NewCandidate(body, crash) ==
  apply_generation_result(
    [state |-> "GENERATED", generation_attempt |-> 1, revision_count |-> 0,
     system_failure_retries |-> [s \in RETRY_STAGES |-> 0],
     validation_failure_retries |-> [s \in RETRY_STAGES |-> 0],
     generator_item |-> [body |-> body, ver |-> 0],
     reviewer_item |-> None, reviewer_input |-> None,
     solver_item |-> None, solver_input |-> None, leakage_check |-> None,
     consensus |-> None, acceptance_policy |-> None, failure |-> None,
     discard_note |-> FALSE, generation_history |-> 0, review_history |-> {}],
    body, crash)

\* cmd_apply_review
AwaitsReview(c) == c.state = "REVIEWING" \/ FailedAt(c, "reviewer")

ReviewCandidate(c, output, crash) ==
  LET d == IF FailedAt(c, "reviewer") THEN retry_failed_stage(c) ELSE c IN
  IF d.state = "REVIEWING" THEN apply_review_result(d, output, crash) ELSE d

\* cmd_apply_revision: a revision is a new attempt, a retry is not.
AwaitsRevision(c) == c.state = "REVISE_REQUIRED" \/ FailedAt(c, "generator")

begin_revision(c) ==
  [transition(c, "GENERATED") EXCEPT
     !.reviewer_item = None, !.reviewer_input = None,
     !.solver_item = None, !.solver_input = None, !.leakage_check = None,
     !.consensus = None, !.failure = None,
     !.generation_attempt = @ + 1]

\* Mutants: a retry is counted as a new attempt; a revision resets the budgets.
RetryIsAttempt(c, body, crash) ==
  apply_generation_result(
    IF FailedAt(c, "generator")
    THEN [retry_failed_stage(c) EXCEPT !.generation_attempt = @ + 1]
    ELSE begin_revision(c),
    body, crash)

RevisionResetsBudgets(c, body, crash) ==
  apply_generation_result(
    IF FailedAt(c, "generator") THEN retry_failed_stage(c)
    ELSE [begin_revision(c) EXCEPT
            !.validation_failure_retries = [s \in RETRY_STAGES |-> 0]],
    body, crash)

ReviseCandidate(c, body, crash) ==
  apply_generation_result(
    IF FailedAt(c, "generator") THEN retry_failed_stage(c) ELSE begin_revision(c),
    body, crash)

\* cmd_prepare_solver_batch
PrepareCandidate(c) ==
  LET d == IF FailedAt(c, "solver") THEN retry_failed_stage(c) ELSE c IN
  IF d.state = "SOLVING" THEN prepare_solver_input(d) ELSE d

\* cmd_apply_solver.  keep: the validation driver stores the output on the
\* Candidate before it is checked, the pilot driver leaves that to
\* process_solver_stage.
AwaitsSolver(c) ==
  c.state = "SOLVING" \/ (FailedAt(c, "solver") /\ c.solver_input # None)

\* Mutant: the consensus is computed before the output is validated.
ConsensusBeforeValidation(c, output, crash, keep) ==
  [process_solver_stage(c, output, c.solver_input, crash) EXCEPT
     !.consensus = evaluate_consensus(c.generator_item.body, c.reviewer_item.body,
                                      output.body)]

SolveCandidate(c, output, crash, keep) ==
  LET d == IF FailedAt(c, "solver") /\ c.solver_input # None
           THEN retry_failed_stage(c) ELSE c
      e == IF keep THEN [d EXCEPT !.solver_item = output] ELSE d
  IN  IF d.state = "SOLVING" /\ d.solver_input # None
      THEN process_solver_stage(e, output, d.solver_input, crash)
      ELSE d

-----------------------------------------------------------------------------
(* validate_candidate_invariants: what save and load demand of every        *)
(* Candidate; one that fails it makes the whole save raise.                 *)

IdentityConsistent(c) ==
  /\ c.generator_item.body.ident
  /\ c.reviewer_item # None => c.reviewer_item.body.ident
  /\ c.solver_item # None => c.solver_item.body.ident
  /\ \A h \in c.review_history : h.output.body.ident

InputsCanonical(c) ==
  {c.reviewer_input, c.solver_input} \subseteq {None, canonical_input(c.generator_item)}

FailureConsistent(c) ==
  /\ c.failure # None =>
       /\ c.state \in FailedStates \cup {"MANUAL_REVIEW"}
       /\ c.state = "GENERATION_FAILED" => c.failure.kind = "system"
       /\ c.state = "VALIDATION_FAILED" => c.failure.kind = "content"
  /\ c.state \in FailedStates => c.failure # None

ReviewGates(c) ==
  /\ c.state = "REVISE_REQUIRED" =>
       /\ c.reviewer_item # None
       /\ c.reviewer_item.body.verdict = "REVISE"
       /\ c.consensus # None => ~ c.consensus.auto_accept
  /\ c.state = "SOLVING" =>
       /\ c.reviewer_item # None
       /\ c.reviewer_item.body.verdict = "PASS"

AcceptanceEvidence(c) ==
  /\ c.acceptance_policy # None => c.state = "ACCEPTED"
  /\ c.state = "ACCEPTED" =>
       /\ c.reviewer_item # None
       /\ c.solver_item # None
       /\ c.solver_input # None
       /\ c.leakage_check = "ok"
       /\ c.acceptance_policy = acceptance_policy_record
       /\ LET again == evaluate_consensus(c.generator_item.body,
                          c.reviewer_item.body, c.solver_item.body)
          IN  c.consensus = again /\ again.auto_accept

TerminalEvidence(c) ==
  /\ c.state = "REJECTED" =>
       c.reviewer_item # None /\ c.reviewer_item.body.verdict = "REJECT"
  /\ c.state = "MANUAL_REVIEW" =>
       c.consensus # None \/ c.failure # None \/ c.leakage_check # None
  /\ c.state = "DISCARDED" =>
       c.discard_note \/ (c.consensus # None /\ c.consensus.routing = "DISCARDED")

validate_candidate_invariants(c) ==
  /\ c.state \in VALID_STATES
  /\ IdentityConsistent(c)
  /\ InputsCanonical(c)
  /\ FailureConsistent(c)
  /\ ReviewGates(c)
  /\ AcceptanceEvidence(c)
  /\ TerminalEvidence(c)

-----------------------------------------------------------------------------
(* validate_final_record on build_provenance_record: the schema of the final *)
(* record restricts the fields copied from the agents' items.  Finalization  *)
(* raises, for the whole run, if one record does not conform.                *)

Recordable(item) == item # None => item.body.shape # "alien"

validate_final_record(c) ==
  /\ Recordable(c.generator_item)
  /\ Recordable(c.reviewer_item)
  /\ Recordable(c.solver_item)
=============================================================================
