-------------------------- MODULE CandidateOps_proofs --------------------------
(***************************************************************************)
(* Lemmas about the functions of CandidateOps, for every configuration and *)
(* every agent output: each maps Candidates to Candidates, and each has an *)
(* effect, that is, the fields it may change and how the state it leads to *)
(* says which.                                                             *)
(***************************************************************************)
EXTENDS CandidateOps, TLAPS

-----------------------------------------------------------------------------
(* The operators of CandidateOps keep a record a record. *)

LEMMA TransitionType ==
  ASSUME NEW c \in Candidate, NEW new \in VALID_STATES
  PROVE  transition(c, new) \in Candidate
BY DEF transition, Candidate, States

LEMMA FailureType ==
  ASSUME NEW c \in Candidate, NEW kind \in FailureKinds, NEW stage \in RETRY_STAGES
  PROVE  record_stage_failure(c, kind, stage) \in Candidate
<1> DEFINE count == RetryCount(c, kind, stage) + 1
           sys == IF kind = "system"
                  THEN [c.system_failure_retries EXCEPT ![stage] = count]
                  ELSE c.system_failure_retries
           val == IF kind = "content"
                  THEN [c.validation_failure_retries EXCEPT ![stage] = count]
                  ELSE c.validation_failure_retries
           fail == [kind |-> kind, stage |-> stage]
           d == [c EXCEPT !.system_failure_retries = sys,
                          !.validation_failure_retries = val,
                          !.failure = fail]
           failed == transition(d, FailedStateOf(kind))
<1>1. count \in Nat
  BY DEF RetryCount, Candidate, Retries
<1>2. sys \in Retries /\ val \in Retries
  <2> HIDE DEF count
  <2> QED BY <1>1 DEF Candidate, Retries
<1>3. fail \in Failure
  BY DEF Failure
<1>4. d \in Candidate
  <2> HIDE DEF sys, val, fail
  <2> QED BY <1>2, <1>3 DEF Candidate
<1>5. failed \in Candidate
  BY <1>4, TransitionType DEF FailedStateOf, VALID_STATES, FailedStates
<1>6. transition(failed, "MANUAL_REVIEW") \in Candidate
  BY <1>5, TransitionType DEF VALID_STATES, TERMINAL_STATES
<1>7. record_stage_failure(c, kind, stage)
        = IF count > retry_limit(kind) THEN transition(failed, "MANUAL_REVIEW")
                                       ELSE failed
  BY DEF record_stage_failure, FailWith
<1> QED
  BY <1>5, <1>6, <1>7

LEMMA RetryType ==
  ASSUME NEW c \in Candidate, c.failure # None
  PROVE  retry_failed_stage(c) \in Candidate
<1> DEFINE stage == c.failure.stage
           armed == transition(c, STAGE_RETRY_STATES[stage])
           ri == IF stage = "generator" THEN None ELSE armed.reviewer_item
           rin == IF stage = "generator" THEN None ELSE armed.reviewer_input
           sin == IF stage = "solver" THEN armed.solver_input ELSE None
           lk == IF stage = "solver" THEN armed.leakage_check ELSE None
           rearmed == [armed EXCEPT !.failure = None, !.reviewer_item = ri,
                         !.reviewer_input = rin, !.solver_item = None,
                         !.solver_input = sin, !.leakage_check = lk,
                         !.consensus = None]
<1>1. stage \in RETRY_STAGES
  BY DEF Candidate, Failure
<1>2. STAGE_RETRY_STATES[stage] \in VALID_STATES
  BY <1>1 DEF RETRY_STAGES, STAGE_RETRY_STATES, VALID_STATES
<1>3. armed \in Candidate
  BY <1>2, TransitionType
<1>4. transition(c, "MANUAL_REVIEW") \in Candidate
  BY TransitionType DEF VALID_STATES, TERMINAL_STATES
<1>5. /\ ri \in ReviewerItem \cup {None}
      /\ rin \in Nat \cup {None}
      /\ sin \in Nat \cup {None}
      /\ lk \in {"ok", None}
  <2> HIDE DEF armed, stage
  <2> QED BY <1>3 DEF Candidate
<1>6. rearmed \in Candidate
  <2> HIDE DEF armed, ri, rin, sin, lk
  <2> QED BY <1>3, <1>5 DEF Candidate
<1>7. retry_failed_stage(c) \in {transition(c, "MANUAL_REVIEW"), rearmed}
  BY DEF retry_failed_stage
<1> QED
  BY <1>4, <1>6, <1>7

LEMMA OutcomeType ==
  ASSUME NEW body, NEW crash \in BOOLEAN
  PROVE  StageOutcome(body, crash) \in {"ok"} \cup FailureKinds
BY DEF StageOutcome, run_schema_validator, FailureKinds

LEMMA GenerationType ==
  ASSUME NEW c \in Candidate, NEW crash \in BOOLEAN
  PROVE  process_generation_output(c, crash) \in Candidate
<1> DEFINE outcome == StageOutcome(c.generator_item.body, crash)
           ver == canonical_input(c.generator_item)
           t == transition(c, "REVIEWING")
           d == [t EXCEPT !.failure = None, !.reviewer_input = ver]
<1>1. CASE outcome \in FailureKinds
  <2>1. record_stage_failure(c, outcome, "generator") \in Candidate
    BY <1>1, FailureType DEF RETRY_STAGES
  <2> QED BY <1>1, <2>1 DEF process_generation_output
<1>2. CASE outcome \notin FailureKinds
  <2>1. t \in Candidate
    BY TransitionType DEF VALID_STATES
  <2>2. ver \in Nat
    BY DEF canonical_input, Candidate, GeneratorItem
  <2>3. d \in Candidate
    <3> HIDE DEF t, ver
    <3> QED BY <2>1, <2>2 DEF Candidate
  <2> QED BY <1>2, <2>3 DEF process_generation_output
<1> QED BY <1>1, <1>2

LEMMA ApplyGenerationType ==
  ASSUME NEW c \in Candidate, NEW body \in GeneratorBody, NEW crash \in BOOLEAN
  PROVE  apply_generation_result(c, body, crash) \in Candidate
<1> DEFINE n == c.generation_history + 1
           item == [body |-> body, ver |-> n]
           d == [c EXCEPT !.generator_item = item, !.generation_history = n]
<1>1. n \in Nat /\ item \in GeneratorItem
  BY DEF Candidate, GeneratorItem
<1>2. d \in Candidate
  <2> HIDE DEF n, item
  <2> QED BY <1>1 DEF Candidate
<1>3. apply_generation_result(c, body, crash) = process_generation_output(d, crash)
  BY DEF apply_generation_result
<1> QED BY <1>2, <1>3, GenerationType

LEMMA RouteType ==
  ASSUME NEW c \in Candidate, c.reviewer_item # None
  PROVE  RouteVerdict(c) \in Candidate
<1> DEFINE verdict == c.reviewer_item.body.verdict
           count == c.revision_count + 1
           over == count > MaxRevisionCycles
           target == CASE verdict = "PASS"   -> "SOLVING"
                       [] verdict = "REJECT" -> "REJECTED"
                       [] OTHER -> IF over THEN "DISCARDED" ELSE "REVISE_REQUIRED"
           t == transition(c, target)
           rc == IF verdict = "REVISE" THEN count ELSE t.revision_count
           note == (target = "DISCARDED")
           d == [t EXCEPT !.failure = None, !.revision_count = rc,
                          !.discard_note = note]
<1>1. target \in VALID_STATES
  <2> HIDE DEF over, verdict
  <2> QED BY DEF VALID_STATES, TERMINAL_STATES
<1>2. t \in Candidate
  <2> HIDE DEF target
  <2> QED BY <1>1, TransitionType
<1>3. rc \in Nat
  <2>1. count \in Nat
    BY DEF Candidate
  <2>2. t.revision_count \in Nat
    <3> HIDE DEF t
    <3> QED BY <1>2 DEF Candidate
  <2> HIDE DEF verdict, count, t
  <2> QED BY <2>1, <2>2
<1>4. note \in BOOLEAN
  OBVIOUS
<1>5. d \in Candidate
  <2> HIDE DEF t, rc, note
  <2> QED BY <1>2, <1>3, <1>4 DEF Candidate
<1> QED BY <1>5 DEF RouteVerdict

LEMMA ReviewType ==
  ASSUME NEW c \in Candidate, c.reviewer_item # None, NEW crash \in BOOLEAN
  PROVE  process_review_output(c, crash) \in Candidate
<1> DEFINE outcome == StageOutcome(c.reviewer_item.body, crash)
           ver == canonical_input(c.generator_item)
           armed == [c EXCEPT !.reviewer_input = ver]
<1>1. ver \in Nat
  BY DEF canonical_input, Candidate, GeneratorItem
<1>2. armed \in Candidate /\ armed.reviewer_item = c.reviewer_item
  <2> HIDE DEF ver
  <2> QED BY <1>1 DEF Candidate
<1>3. record_stage_failure(c, "content", "reviewer") \in Candidate
  BY FailureType DEF FailureKinds, RETRY_STAGES
<1>4. outcome \in FailureKinds =>
        record_stage_failure(armed, outcome, "reviewer") \in Candidate
  <2> HIDE DEF armed, outcome
  <2> QED BY <1>2, FailureType DEF RETRY_STAGES
<1>5. RouteVerdict(armed) \in Candidate
  <2> HIDE DEF armed
  <2> QED BY <1>2, RouteType
<1>6. process_review_output(c, crash) =
        IF ReviewInputMismatch(c)
        THEN record_stage_failure(c, "content", "reviewer")
        ELSE IF outcome \in FailureKinds
        THEN record_stage_failure(armed, outcome, "reviewer")
        ELSE RouteVerdict(armed)
  BY DEF process_review_output
<1> HIDE DEF armed, outcome
<1> QED BY <1>3, <1>4, <1>5, <1>6

LEMMA ApplyReviewType ==
  ASSUME NEW c \in Candidate, NEW out \in ReviewerItem, NEW crash \in BOOLEAN,
         out # None
  PROVE  apply_review_result(c, out, crash) \in Candidate
<1> DEFINE b == [c EXCEPT !.reviewer_item = out]
           d == process_review_output(b, crash)
           rh == d.review_history \cup {[output |-> out, routed_state |-> d.state]}
           e == [d EXCEPT !.review_history = rh]
<1>1. b \in Candidate /\ b.reviewer_item # None
  BY DEF Candidate
<1>2. d \in Candidate
  BY <1>1, ReviewType
<1>3. rh \in SUBSET [output : ReviewerItem, routed_state : States]
  <2> HIDE DEF d
  <2> QED BY <1>2 DEF Candidate
<1>4. e \in Candidate
  <2> HIDE DEF d, rh
  <2> QED BY <1>2, <1>3 DEF Candidate
<1> QED BY <1>4 DEF apply_review_result

LEMMA ConsensusType ==
  ASSUME NEW g, NEW r, NEW s
  PROVE  evaluate_consensus(g, r, s) \in Consensus
<1> DEFINE failed == {k \in Conditions : ~ ConditionHolds(g, r, s)[k]}
           auto == (failed = {})
           route == IF failed = {} THEN "ACCEPTED"
                    ELSE IF s.answer = "NONE" THEN "DISCARDED" ELSE "MANUAL_REVIEW"
<1>1. failed \in SUBSET Conditions /\ auto \in BOOLEAN
      /\ route \in {"ACCEPTED", "MANUAL_REVIEW", "DISCARDED"}
  <2> HIDE DEF failed
  <2>1. auto \in BOOLEAN /\ route \in {"ACCEPTED", "MANUAL_REVIEW", "DISCARDED"}
    OBVIOUS
  <2>2. failed \in SUBSET Conditions
    BY DEF failed
  <2> QED BY <2>1, <2>2
<1>2. [auto_accept |-> auto, routing |-> route, failed_conditions |-> failed] \in Consensus
  <2> HIDE DEF auto, route, failed
  <2> QED BY <1>1 DEF Consensus
<1> QED BY <1>2 DEF evaluate_consensus

LEMMA PrepareInputType ==
  ASSUME NEW c \in Candidate
  PROVE  prepare_solver_input(c) \in Candidate
<1> DEFINE ver == canonical_input(c.generator_item)
           good == [c EXCEPT !.solver_input = ver, !.leakage_check = "ok"]
           bare == [c EXCEPT !.solver_input = None, !.leakage_check = "ok"]
<1>1. ver \in Nat
  BY DEF canonical_input, Candidate, GeneratorItem
<1>2. good \in Candidate /\ bare \in Candidate
  <2> HIDE DEF ver
  <2> QED BY <1>1 DEF Candidate
<1>3. record_stage_failure(bare, "content", "solver") \in Candidate
  BY <1>2, FailureType DEF FailureKinds, RETRY_STAGES
<1> QED BY <1>2, <1>3 DEF prepare_solver_input

LEMMA SolverStageType ==
  ASSUME NEW c \in Candidate, NEW out \in SolverItem, NEW input \in Nat,
         NEW crash \in BOOLEAN
  PROVE  process_solver_stage(c, out, input, crash) \in Candidate
<1> DEFINE outcome == StageOutcome(out.body, crash)
           guarded == [c EXCEPT !.solver_input = input, !.leakage_check = "ok"]
           bare == [c EXCEPT !.solver_input = None]
           result == evaluate_consensus(c.generator_item.body, c.reviewer_item.body, out.body)
           t == transition(guarded, result.routing)
           policy == IF result.routing = "ACCEPTED" THEN acceptance_policy_record ELSE None
           decided == [t EXCEPT !.solver_item = out, !.failure = None,
                                !.consensus = result, !.acceptance_policy = policy]
<1>1. guarded \in Candidate /\ bare \in Candidate
  BY DEF Candidate
<1>2. result \in Consensus
  BY ConsensusType
<1>3. t \in Candidate
  <2> HIDE DEF guarded, result
  <2>1. result.routing \in VALID_STATES
    BY <1>2 DEF Consensus, VALID_STATES, TERMINAL_STATES
  <2> QED BY <1>1, <2>1, TransitionType
<1>4. decided \in Candidate
  <2>1. policy \in {acceptance_policy_record, None}
    OBVIOUS
  <2> HIDE DEF t, result, policy
  <2> QED BY <1>2, <1>3, <2>1 DEF Candidate
<1>5. /\ record_stage_failure(c, "content", "generator") \in Candidate
      /\ record_stage_failure(c, "content", "reviewer") \in Candidate
      /\ record_stage_failure(bare, "content", "solver") \in Candidate
  <2> HIDE DEF bare
  <2> QED BY <1>1, FailureType DEF FailureKinds, RETRY_STAGES
<1>6. outcome \in FailureKinds =>
        record_stage_failure(guarded, outcome, "solver") \in Candidate
  <2> HIDE DEF guarded, outcome
  <2> QED BY <1>1, FailureType DEF RETRY_STAGES
<1>7. process_solver_stage(c, out, input, crash) =
        IF ~ c.generator_item.body.ident THEN record_stage_failure(c, "content", "generator")
        ELSE IF ~ c.reviewer_item.body.ident THEN record_stage_failure(c, "content", "reviewer")
        ELSE IF input # canonical_input(c.generator_item)
        THEN record_stage_failure(bare, "content", "solver")
        ELSE IF outcome \in FailureKinds
        THEN record_stage_failure(guarded, outcome, "solver")
        ELSE decided
  BY DEF process_solver_stage
<1> HIDE DEF bare, guarded, decided, outcome
<1> QED BY <1>4, <1>5, <1>6, <1>7

-----------------------------------------------------------------------------
(* The driver commands. *)

LEMMA NewType ==
  ASSUME NEW body \in GeneratorBody, NEW crash \in BOOLEAN
  PROVE  NewCandidate(body, crash) \in Candidate
<1> DEFINE item == [body |-> body, ver |-> 0]
           zero == [s \in RETRY_STAGES |-> 0]
           blank ==
    [state |-> "GENERATED", generation_attempt |-> 1, revision_count |-> 0,
     system_failure_retries |-> zero, validation_failure_retries |-> zero,
     generator_item |-> item,
     reviewer_item |-> None, reviewer_input |-> None,
     solver_item |-> None, solver_input |-> None, leakage_check |-> None,
     consensus |-> None, acceptance_policy |-> None, failure |-> None,
     discard_note |-> FALSE, generation_history |-> 0, review_history |-> {}]
<1>1. item \in GeneratorItem /\ zero \in Retries
  BY DEF GeneratorItem, Retries
<1>2. blank \in Candidate
  <2> HIDE DEF item, zero
  <2> QED BY <1>1 DEF Candidate, States, VALID_STATES
<1> QED BY <1>2, ApplyGenerationType DEF NewCandidate

LEMMA ReviewCandidateType ==
  ASSUME NEW c \in Candidate, NEW out \in ReviewerItem, NEW crash \in BOOLEAN
  PROVE  ReviewCandidate(c, out, crash) \in Candidate
<1> DEFINE d == IF FailedAt(c, "reviewer") THEN retry_failed_stage(c) ELSE c
<1>1. d \in Candidate
  BY RetryType DEF FailedAt
<1>2. out # None
  BY NoneAssumption
<1>3. apply_review_result(d, out, crash) \in Candidate
  <2> HIDE DEF d
  <2> QED BY <1>1, <1>2, ApplyReviewType
<1>4. ReviewCandidate(c, out, crash) \in {apply_review_result(d, out, crash), d}
  BY DEF ReviewCandidate
<1> HIDE DEF d
<1> QED BY <1>1, <1>3, <1>4

LEMMA ReviseCandidateType ==
  ASSUME NEW c \in Candidate, NEW body \in GeneratorBody, NEW crash \in BOOLEAN
  PROVE  ReviseCandidate(c, body, crash) \in Candidate
<1> DEFINE t == transition(c, "GENERATED")
           d == IF FailedAt(c, "generator") THEN retry_failed_stage(c) ELSE begin_revision(c)
<1>1. t \in Candidate
  BY TransitionType DEF VALID_STATES
<1>2. begin_revision(c) \in Candidate
  <2>1. begin_revision(c) =
          [t EXCEPT !.reviewer_item = None, !.reviewer_input = None,
             !.solver_item = None, !.solver_input = None, !.leakage_check = None,
             !.consensus = None, !.failure = None,
             !.generation_attempt = t.generation_attempt + 1]
    BY DEF begin_revision
  <2> HIDE DEF t
  <2>2. t.generation_attempt + 1 \in Nat
    BY <1>1 DEF Candidate
  <2> QED BY <1>1, <2>1, <2>2 DEF Candidate
<1>3. d \in Candidate
  BY <1>2, RetryType DEF FailedAt
<1>4. ReviseCandidate(c, body, crash) = apply_generation_result(d, body, crash)
  BY DEF ReviseCandidate
<1> HIDE DEF d
<1> QED BY <1>3, <1>4, ApplyGenerationType

LEMMA PrepareCandidateType ==
  ASSUME NEW c \in Candidate
  PROVE  PrepareCandidate(c) \in Candidate
<1> DEFINE d == IF FailedAt(c, "solver") THEN retry_failed_stage(c) ELSE c
<1>1. d \in Candidate
  BY RetryType DEF FailedAt
<1>2. PrepareCandidate(c) \in {prepare_solver_input(d), d}
  BY DEF PrepareCandidate
<1> HIDE DEF d
<1> QED BY <1>1, <1>2, PrepareInputType

LEMMA SolveCandidateType ==
  ASSUME NEW c \in Candidate, NEW out \in SolverItem, NEW crash \in BOOLEAN,
         NEW keep \in BOOLEAN
  PROVE  SolveCandidate(c, out, crash, keep) \in Candidate
<1> DEFINE d == IF FailedAt(c, "solver") /\ c.solver_input # None
                THEN retry_failed_stage(c) ELSE c
           e == IF keep THEN [d EXCEPT !.solver_item = out] ELSE d
<1>1. d \in Candidate
  BY RetryType DEF FailedAt
<1>2. e \in Candidate
  <2> HIDE DEF d
  <2> QED BY <1>1 DEF Candidate
<1>3. d.solver_input # None => d.solver_input \in Nat
  <2> HIDE DEF d
  <2> QED BY <1>1 DEF Candidate
<1>4. SolveCandidate(c, out, crash, keep) =
        IF d.state = "SOLVING" /\ d.solver_input # None
        THEN process_solver_stage(e, out, d.solver_input, crash) ELSE d
  BY DEF SolveCandidate
<1> HIDE DEF d, e
<1> QED BY <1>1, <1>2, <1>3, <1>4, SolverStageType

-----------------------------------------------------------------------------
(* Effects.                                                                 *)

SameCounts(c, d) ==
  /\ d.system_failure_retries = c.system_failure_retries
  /\ d.validation_failure_retries = c.validation_failure_retries

LEMMA TransitionFields ==
  ASSUME NEW c \in Candidate, NEW new \in VALID_STATES
  PROVE  /\ transition(c, new).state \in {new, Raised}
         /\ transition(c, new).failure = c.failure
         /\ SameCounts(c, transition(c, new))
BY DEF transition, Candidate, SameCounts

SameItems(c, d) ==
  /\ d.generator_item = c.generator_item
  /\ d.reviewer_item = c.reviewer_item
  /\ d.solver_item = c.solver_item
  /\ d.solver_input = c.solver_input
  /\ d.consensus = c.consensus
  /\ d.review_history = c.review_history

SameRest(c, d) ==
  /\ d.reviewer_input = c.reviewer_input
  /\ d.acceptance_policy = c.acceptance_policy

FailedBy(d, kind, stage) ==
  /\ d.state \in {FailedStateOf(kind), "MANUAL_REVIEW", Raised}
  /\ d.failure = [kind |-> kind, stage |-> stage]

LEMMA TransitionKeeps ==
  ASSUME NEW c \in Candidate, NEW new \in VALID_STATES
  PROVE  SameItems(c, transition(c, new)) /\ SameRest(c, transition(c, new))
BY DEF transition, Candidate, SameItems, SameRest

LEMMA FailureEffect ==
  ASSUME NEW c \in Candidate, NEW kind \in FailureKinds, NEW stage \in RETRY_STAGES
  PROVE  LET d == record_stage_failure(c, kind, stage)
         IN  d \in Candidate /\ FailedBy(d, kind, stage) /\ SameItems(c, d) /\ SameRest(c, d)
<1> DEFINE count == RetryCount(c, kind, stage) + 1
           sys == IF kind = "system"
                  THEN [c.system_failure_retries EXCEPT ![stage] = count]
                  ELSE c.system_failure_retries
           val == IF kind = "content"
                  THEN [c.validation_failure_retries EXCEPT ![stage] = count]
                  ELSE c.validation_failure_retries
           fail == [kind |-> kind, stage |-> stage]
           d == [c EXCEPT !.system_failure_retries = sys,
                          !.validation_failure_retries = val,
                          !.failure = fail]
           failed == transition(d, FailedStateOf(kind))
           last == transition(failed, "MANUAL_REVIEW")
<1>1. count \in Nat
  BY DEF RetryCount, Candidate, Retries
<1>2. sys \in Retries /\ val \in Retries /\ fail \in Failure
  <2> HIDE DEF count
  <2> QED BY <1>1 DEF Candidate, Retries, Failure
<1>3. d \in Candidate /\ d.failure = fail /\ SameItems(c, d) /\ SameRest(c, d)
  <2> HIDE DEF sys, val, fail
  <2> QED BY <1>2 DEF Candidate, SameItems, SameRest
<1>4. FailedStateOf(kind) \in VALID_STATES /\ "MANUAL_REVIEW" \in VALID_STATES
  BY DEF FailedStateOf, VALID_STATES, FailedStates, TERMINAL_STATES
<1>5. /\ failed \in Candidate /\ failed.failure = fail /\ SameItems(d, failed) /\ SameRest(d, failed)
      /\ failed.state \in {FailedStateOf(kind), Raised}
  <2> HIDE DEF d, fail
  <2> QED BY <1>3, <1>4, TransitionType, TransitionFields, TransitionKeeps
<1>6. /\ last.failure = fail /\ SameItems(failed, last) /\ SameRest(failed, last)
      /\ last.state \in {"MANUAL_REVIEW", Raised}
  <2> HIDE DEF failed, fail
  <2> QED BY <1>4, <1>5, TransitionFields, TransitionKeeps
<1>7. /\ SameItems(c, failed) /\ SameItems(c, last)
      /\ SameRest(c, failed) /\ SameRest(c, last)
  <2> HIDE DEF d, failed, last
  <2> QED BY <1>3, <1>5, <1>6 DEF SameItems, SameRest
<1>8. record_stage_failure(c, kind, stage)
        = IF count > retry_limit(kind) THEN last ELSE failed
  BY DEF record_stage_failure, FailWith
<1>9. FailedBy(failed, kind, stage) /\ FailedBy(last, kind, stage)
  <2> HIDE DEF failed, last
  <2> QED BY <1>5, <1>6 DEF FailedBy
<1> HIDE DEF failed, last, count
<1> QED BY <1>7, <1>8, <1>9, FailureType

\* Re-arming drops what the stage's next output outdates.
LEMMA RetryEffect ==
  ASSUME NEW c \in Candidate, NEW stage \in RETRY_STAGES, FailedAt(c, stage)
  PROVE  LET d == retry_failed_stage(c)
         IN  /\ d \in Candidate
             /\ d.generator_item = c.generator_item
             /\ d.review_history = c.review_history
             /\ InputsCanonical(c) => InputsCanonical(d)
             /\ \/ /\ d.state \in {"MANUAL_REVIEW", Raised}
                   /\ SameItems(c, d)
                \/ /\ d.state \in {STAGE_RETRY_STATES[stage], Raised}
                   /\ d.solver_item = None /\ d.consensus = None /\ d.failure = None
                   /\ stage # "generator" => d.reviewer_item = c.reviewer_item
                   /\ d.solver_input = IF stage = "solver" THEN c.solver_input ELSE None
<1> DEFINE armed == transition(c, STAGE_RETRY_STATES[stage])
           last == transition(c, "MANUAL_REVIEW")
           rItem == IF stage = "generator" THEN None ELSE armed.reviewer_item
           rInput == IF stage = "generator" THEN None ELSE armed.reviewer_input
           sInput == IF stage = "solver" THEN armed.solver_input ELSE None
           leak == IF stage = "solver" THEN armed.leakage_check ELSE None
           d == [armed EXCEPT !.failure = None, !.reviewer_item = rItem,
                   !.reviewer_input = rInput, !.solver_item = None,
                   !.solver_input = sInput, !.leakage_check = leak, !.consensus = None]
<1>1. c.failure # None /\ c.failure.stage = stage
  BY DEF FailedAt
<1>2. STAGE_RETRY_STATES[stage] \in VALID_STATES /\ "MANUAL_REVIEW" \in VALID_STATES
  BY DEF STAGE_RETRY_STATES, RETRY_STAGES, VALID_STATES, TERMINAL_STATES
<1>3. /\ armed \in Candidate /\ SameItems(c, armed)
      /\ armed.reviewer_input = c.reviewer_input
      /\ armed.state \in {STAGE_RETRY_STATES[stage], Raised}
  BY <1>2, TransitionType, TransitionKeeps, TransitionFields DEF SameRest
<1>4. /\ SameItems(c, last) /\ last.state \in {"MANUAL_REVIEW", Raised}
      /\ last.reviewer_input = c.reviewer_input
  BY <1>2, TransitionKeeps, TransitionFields DEF SameRest
<1>5. /\ d.generator_item = armed.generator_item
      /\ d.review_history = armed.review_history
      /\ d.state = armed.state
      /\ d.solver_item = None /\ d.consensus = None /\ d.failure = None
      /\ d.reviewer_item = rItem
      /\ d.reviewer_input = rInput
      /\ d.solver_input = sInput
  <2> HIDE DEF armed, rItem, rInput, sInput, leak
  <2> QED BY <1>3 DEF Candidate
<1>6. retry_failed_stage(c) \in {last, d}
  BY <1>1 DEF retry_failed_stage
<1>7. retry_failed_stage(c) \in Candidate
  BY <1>1, RetryType
<1>8. CASE retry_failed_stage(c) = last
  <2> HIDE DEF last
  <2> QED BY <1>4, <1>7, <1>8 DEF SameItems, InputsCanonical, canonical_input
<1>9. CASE retry_failed_stage(c) = d
  <2>1. /\ d.generator_item = c.generator_item
        /\ d.review_history = c.review_history
        /\ d.state \in {STAGE_RETRY_STATES[stage], Raised}
        /\ stage # "generator" => d.reviewer_item = c.reviewer_item
        /\ d.solver_input = IF stage = "solver" THEN c.solver_input ELSE None
        /\ d.reviewer_input \in {None, c.reviewer_input}
    <3> HIDE DEF armed, d
    <3> QED BY <1>3, <1>5 DEF SameItems
  <2>2. InputsCanonical(c) => InputsCanonical(d)
    <3> HIDE DEF d
    <3> QED BY <2>1 DEF InputsCanonical, canonical_input
  <2> HIDE DEF d
  <2> QED BY <1>5, <1>7, <1>9, <2>1, <2>2
<1> QED BY <1>6, <1>8, <1>9

LEMMA GenerationEffect ==
  ASSUME NEW c \in Candidate, NEW body \in GeneratorBody, NEW crash \in BOOLEAN
  PROVE  LET d == apply_generation_result(c, body, crash)
         IN  /\ d \in Candidate
             /\ d.generator_item.body = body
             /\ d.reviewer_item = c.reviewer_item
             /\ d.solver_item = c.solver_item
             /\ d.solver_input = c.solver_input
             /\ d.consensus = c.consensus
             /\ d.review_history = c.review_history
             /\ d.reviewer_input \in {c.reviewer_input, canonical_input(d.generator_item)}
             /\ d.acceptance_policy = c.acceptance_policy
             /\ \/ d.state \in {"REVIEWING", Raised} /\ d.failure = None /\ body.shape = "ok"
                \/ \E kind \in FailureKinds : FailedBy(d, kind, "generator")
<1> DEFINE n == c.generation_history + 1
           item == [body |-> body, ver |-> n]
           b == [c EXCEPT !.generator_item = item, !.generation_history = n]
           outcome == StageOutcome(b.generator_item.body, crash)
           input == canonical_input(b.generator_item)
           t == transition(b, "REVIEWING")
           e == [t EXCEPT !.failure = None, !.reviewer_input = input]
           f == record_stage_failure(b, outcome, "generator")
           Kept(d) == /\ d.generator_item.body = body
                      /\ d.reviewer_item = c.reviewer_item
                      /\ d.solver_item = c.solver_item
                      /\ d.solver_input = c.solver_input
                      /\ d.consensus = c.consensus
                      /\ d.review_history = c.review_history
                      /\ d.reviewer_input \in
                           {c.reviewer_input, canonical_input(d.generator_item)}
                      /\ d.acceptance_policy = c.acceptance_policy
<1>1. n \in Nat /\ item \in GeneratorItem /\ item.body = body
  BY DEF Candidate, GeneratorItem
<1>2. b \in Candidate /\ Kept(b)
  <2> HIDE DEF n, item
  <2> QED BY <1>1 DEF Candidate
<1>3. /\ t \in Candidate /\ SameItems(b, t) /\ SameRest(b, t)
      /\ t.state \in {"REVIEWING", Raised}
  <2>1. "REVIEWING" \in VALID_STATES
    BY DEF VALID_STATES
  <2> HIDE DEF b
  <2> QED BY <1>2, <2>1, TransitionType, TransitionKeeps, TransitionFields
<1>4. /\ SameItems(t, e) /\ e.state \in {"REVIEWING", Raised} /\ e.failure = None
      /\ e.reviewer_input = input /\ e.acceptance_policy = t.acceptance_policy
  <2> HIDE DEF t, input
  <2> QED BY <1>3 DEF Candidate, SameItems
<1>5. Kept(e)
  <2>1. /\ SameItems(b, e) /\ e.acceptance_policy = b.acceptance_policy
        /\ e.reviewer_input = canonical_input(e.generator_item)
    <3> HIDE DEF b, t, e
    <3> QED BY <1>3, <1>4 DEF SameItems, SameRest
  <2> HIDE DEF b, e
  <2> QED BY <1>2, <2>1 DEF SameItems
<1>6. ASSUME outcome \in FailureKinds PROVE FailedBy(f, outcome, "generator") /\ Kept(f)
  <2>1. FailedBy(f, outcome, "generator") /\ SameItems(b, f) /\ SameRest(b, f)
    <3> HIDE DEF b, outcome
    <3> QED BY <1>2, <1>6, FailureEffect DEF RETRY_STAGES
  <2> HIDE DEF b, f
  <2> QED BY <1>2, <2>1 DEF SameItems, SameRest
<1>7. outcome \notin FailureKinds => body.shape = "ok"
  <2>1. b.generator_item.body = body
    <3> HIDE DEF b
    <3> QED BY <1>2
  <2> QED BY <2>1 DEF StageOutcome, run_schema_validator, FailureKinds
<1>8. apply_generation_result(c, body, crash) = IF outcome \in FailureKinds THEN f ELSE e
  BY DEF apply_generation_result, process_generation_output
<1>9. apply_generation_result(c, body, crash) \in Candidate
  BY ApplyGenerationType
<1> HIDE DEF b, e, f, outcome
<1> QED BY <1>4, <1>5, <1>6, <1>7, <1>8, <1>9

LEMMA ReviewEffect ==
  ASSUME NEW c \in Candidate, NEW out \in ReviewerItem, NEW crash \in BOOLEAN,
         InputsCanonical(c)
  PROVE  LET d == apply_review_result(c, out, crash)
         IN  /\ d \in Candidate
             /\ d.generator_item = c.generator_item
             /\ d.reviewer_item = out
             /\ d.solver_item = c.solver_item
             /\ d.solver_input = c.solver_input
             /\ d.consensus = c.consensus
             /\ d.review_history = c.review_history
                  \cup {[output |-> out, routed_state |-> d.state]}
             /\ \/ /\ out.body.shape = "ok"
                   /\ d.state \in {"SOLVING", "REJECTED", "DISCARDED", "REVISE_REQUIRED", Raised}
                   /\ d.state = "SOLVING" <=> out.body.verdict = "PASS" /\ d.state # Raised
                \/ \E kind \in FailureKinds :
                     /\ FailedBy(d, kind, "reviewer")
                     /\ kind = "content" => out.body.shape # "ok" \/ ~ out.body.ident
<1> DEFINE b == [c EXCEPT !.reviewer_item = out]
           outcome == StageOutcome(b.reviewer_item.body, crash)
           input == canonical_input(b.generator_item)
           armed == [b EXCEPT !.reviewer_input = input]
           verdict == armed.reviewer_item.body.verdict
           count == armed.revision_count + 1
           target == CASE verdict = "PASS"   -> "SOLVING"
                       [] verdict = "REJECT" -> "REJECTED"
                       [] OTHER -> IF count > MaxRevisionCycles
                                   THEN "DISCARDED" ELSE "REVISE_REQUIRED"
           t == transition(armed, target)
           rev == IF verdict = "REVISE" THEN count ELSE t.revision_count
           note == (target = "DISCARDED")
           routed == [t EXCEPT !.failure = None, !.revision_count = rev,
                               !.discard_note = note]
           failed == record_stage_failure(armed, outcome, "reviewer")
           d == process_review_output(b, crash)
           rh == d.review_history \cup {[output |-> out, routed_state |-> d.state]}
           e == [d EXCEPT !.review_history = rh]
           Kept(x) == /\ x.generator_item = c.generator_item
                      /\ x.reviewer_item = out
                      /\ x.solver_item = c.solver_item
                      /\ x.solver_input = c.solver_input
                      /\ x.consensus = c.consensus
                      /\ x.review_history = c.review_history
           Routed(x) == /\ out.body.shape = "ok"
                        /\ x.state \in {"SOLVING", "REJECTED", "DISCARDED",
                                        "REVISE_REQUIRED", Raised}
                        /\ x.state = "SOLVING" <=> verdict = "PASS" /\ x.state # Raised
           Failed(x) == \E kind \in FailureKinds :
                          /\ FailedBy(x, kind, "reviewer")
                          /\ kind = "content" => out.body.shape # "ok" \/ ~ out.body.ident
<1>1. b \in Candidate /\ Kept(b) /\ b.reviewer_input = c.reviewer_input
  BY DEF Candidate
<1>2. armed \in Candidate /\ Kept(armed)
  <2>1. input \in Nat
    <3> HIDE DEF b
    <3> QED BY <1>1 DEF canonical_input, Candidate, GeneratorItem
  <2> HIDE DEF b, input
  <2> QED BY <1>1, <2>1 DEF Candidate
<1>3. /\ target \in VALID_STATES
      /\ target \in {"SOLVING", "REJECTED", "DISCARDED", "REVISE_REQUIRED"}
      /\ target = "SOLVING" <=> verdict = "PASS"
  <2> HIDE DEF verdict, count
  <2> QED BY DEF VALID_STATES, TERMINAL_STATES
<1>4. t \in Candidate /\ SameItems(armed, t) /\ t.state \in {target, Raised}
  <2> HIDE DEF armed, target
  <2> QED BY <1>2, <1>3, TransitionType, TransitionKeeps, TransitionFields
<1>5. SameItems(t, routed) /\ routed.state = t.state
  <2> HIDE DEF t, rev, note
  <2> QED BY <1>4 DEF Candidate, SameItems
<1>6. Kept(routed)
  <2> HIDE DEF armed, t, routed
  <2> QED BY <1>2, <1>4, <1>5 DEF SameItems
<1>7. RouteVerdict(armed) = routed
  <2>1. t.revision_count = armed.revision_count
    <3> HIDE DEF armed, target
    <3> QED BY <1>2 DEF transition, Candidate
  <2> HIDE DEF armed
  <2> QED BY <2>1 DEF RouteVerdict
<1>8. ASSUME outcome \in FailureKinds
      PROVE  Kept(failed) /\ FailedBy(failed, outcome, "reviewer")
  <2>1. SameItems(armed, failed) /\ FailedBy(failed, outcome, "reviewer")
    <3> HIDE DEF armed, outcome
    <3> QED BY <1>2, <1>8, FailureEffect DEF RETRY_STAGES
  <2> HIDE DEF armed, failed
  <2> QED BY <1>2, <2>1 DEF SameItems
<1>9. /\ outcome \notin FailureKinds => out.body.shape = "ok"
      /\ outcome = "content" => out.body.shape # "ok" \/ ~ out.body.ident
  <2>1. b.reviewer_item = out
    <3> HIDE DEF b
    <3> QED BY <1>1
  <2> QED BY <2>1 DEF StageOutcome, run_schema_validator, FailureKinds
<1>10. d = IF outcome \in FailureKinds THEN failed ELSE routed
  <2>1. ~ ReviewInputMismatch(b)
    <3> HIDE DEF b
    <3> QED BY <1>1 DEF ReviewInputMismatch, InputsCanonical
  <2> QED BY <1>7, <2>1 DEF process_review_output
<1>11. ASSUME outcome \in FailureKinds PROVE Kept(d) /\ Failed(d)
  <2> HIDE DEF d, failed, outcome
  <2> QED BY <1>8, <1>9, <1>10, <1>11
<1>12. ASSUME outcome \notin FailureKinds PROVE Kept(d) /\ Routed(d)
  <2>1. routed.state = "SOLVING" <=> verdict = "PASS" /\ routed.state # Raised
    <3> HIDE DEF t, routed, verdict, target
    <3> QED BY <1>3, <1>4, <1>5 DEF Raised
  <2>2. routed.state \in {"SOLVING", "REJECTED", "DISCARDED", "REVISE_REQUIRED", Raised}
    <3> HIDE DEF t, routed, target
    <3> QED BY <1>3, <1>4, <1>5
  <2> HIDE DEF d, routed, outcome, verdict
  <2> QED BY <1>6, <1>9, <1>10, <1>12, <2>1, <2>2
<1>13. d \in Candidate
  <2>1. b.reviewer_item # None
    <3> HIDE DEF b
    <3> QED BY <1>1, NoneAssumption
  <2> HIDE DEF b
  <2> QED BY <1>1, <2>1, ReviewType
<1>14. /\ e.generator_item = d.generator_item /\ e.reviewer_item = d.reviewer_item
       /\ e.solver_item = d.solver_item /\ e.solver_input = d.solver_input
       /\ e.consensus = d.consensus /\ e.review_history = rh
       /\ e.state = d.state /\ e.failure = d.failure
  <2> HIDE DEF d, rh
  <2> QED BY <1>13 DEF Candidate
<1>15. verdict = out.body.verdict
  <2> HIDE DEF armed
  <2> QED BY <1>2
<1>16. apply_review_result(c, out, crash) = e
  BY DEF apply_review_result
<1>17. e \in Candidate
  <2>1. out # None
    BY NoneAssumption
  <2> HIDE DEF e
  <2> QED BY <1>16, <2>1, ApplyReviewType
<1>18. /\ e.review_history = c.review_history \cup {[output |-> out, routed_state |-> e.state]}
       /\ e.generator_item = c.generator_item /\ e.reviewer_item = out
       /\ e.solver_item = c.solver_item /\ e.solver_input = c.solver_input
       /\ e.consensus = c.consensus
  <2> HIDE DEF d, e, outcome
  <2> QED BY <1>11, <1>12, <1>14
<1>19. Routed(e) \/ Failed(e)
  <2>1. CASE outcome \in FailureKinds
    <3> HIDE DEF d, e
    <3> QED BY <1>11, <1>14, <2>1 DEF FailedBy
  <2>2. CASE outcome \notin FailureKinds
    <3> HIDE DEF d, e, verdict
    <3> QED BY <1>12, <1>14, <2>2
  <2> QED BY <2>1, <2>2
<1> HIDE DEF e, verdict
<1> QED BY <1>15, <1>16, <1>17, <1>18, <1>19

\* A Candidate whose inputs are canonical cannot fail at the blinding.
LEMMA PrepareEffect ==
  ASSUME NEW c \in Candidate, InputsCanonical(c)
  PROVE  LET d == prepare_solver_input(c)
         IN  /\ d \in Candidate
             /\ d.state = c.state /\ d.failure = c.failure
             /\ d.generator_item = c.generator_item
             /\ d.reviewer_item = c.reviewer_item
             /\ d.solver_item = c.solver_item
             /\ d.consensus = c.consensus
             /\ d.review_history = c.review_history
<1> DEFINE canon == canonical_input(c.generator_item)
           d == [c EXCEPT !.solver_input = canon, !.leakage_check = "ok"]
<1>1. prepare_solver_input(c) = d
  BY DEF prepare_solver_input, InputsCanonical
<1>2. /\ d.state = c.state /\ d.failure = c.failure
      /\ d.generator_item = c.generator_item
      /\ d.reviewer_item = c.reviewer_item
      /\ d.solver_item = c.solver_item
      /\ d.consensus = c.consensus
      /\ d.review_history = c.review_history
  <2> HIDE DEF canon
  <2> QED BY DEF Candidate
<1> HIDE DEF d
<1> QED BY <1>1, <1>2, PrepareInputType

LEMMA SolverEffect ==
  ASSUME NEW c \in Candidate, NEW out \in SolverItem, NEW crash \in BOOLEAN,
         c.generator_item.body.ident, c.reviewer_item.body.ident,
         c.solver_input # None, InputsCanonical(c)
  PROVE  LET d == process_solver_stage(c, out, c.solver_input, crash)
         IN  /\ d \in Candidate
             /\ d.generator_item = c.generator_item
             /\ d.reviewer_item = c.reviewer_item
             /\ d.solver_input = c.solver_input
             /\ d.review_history = c.review_history
             /\ \/ /\ out.body.shape = "ok" /\ d.solver_item = out
                   /\ d.state \in TERMINAL_STATES \cup {Raised}
                \/ /\ d.solver_item = c.solver_item /\ d.consensus = c.consensus
                   /\ \E kind \in FailureKinds : FailedBy(d, kind, "solver")
<1> DEFINE input == c.solver_input
           outcome == StageOutcome(out.body, crash)
           guarded == [c EXCEPT !.solver_input = input, !.leakage_check = "ok"]
           result == evaluate_consensus(c.generator_item.body, c.reviewer_item.body, out.body)
           t == transition(guarded, result.routing)
           policy == IF result.routing = "ACCEPTED" THEN acceptance_policy_record ELSE None
           decided == [t EXCEPT !.solver_item = out, !.failure = None,
                                !.consensus = result, !.acceptance_policy = policy]
           failed == record_stage_failure(guarded, outcome, "solver")
<1>1. guarded \in Candidate /\ SameItems(c, guarded)
  BY DEF Candidate, SameItems
<1>2. result.routing \in VALID_STATES \cap TERMINAL_STATES
  BY ConsensusType DEF Consensus, VALID_STATES, TERMINAL_STATES
<1>3. t \in Candidate /\ SameItems(guarded, t) /\ t.state \in TERMINAL_STATES \cup {Raised}
  <2> HIDE DEF guarded, result
  <2> QED BY <1>1, <1>2, TransitionType, TransitionKeeps, TransitionFields
<1>4. /\ decided.generator_item = t.generator_item
      /\ decided.reviewer_item = t.reviewer_item
      /\ decided.solver_input = t.solver_input
      /\ decided.review_history = t.review_history
      /\ decided.solver_item = out /\ decided.state = t.state
  <2> HIDE DEF t, result, policy
  <2> QED BY <1>3 DEF Candidate
<1>5. outcome \in FailureKinds => SameItems(guarded, failed) /\ FailedBy(failed, outcome, "solver")
  <2> HIDE DEF guarded, outcome
  <2> QED BY <1>1, FailureEffect DEF RETRY_STAGES
<1>6. outcome \notin FailureKinds => out.body.shape = "ok"
  BY DEF StageOutcome, run_schema_validator, FailureKinds
<1>7. process_solver_stage(c, out, input, crash)
        = IF outcome \in FailureKinds THEN failed ELSE decided
  BY DEF process_solver_stage, InputsCanonical
<1>8. process_solver_stage(c, out, input, crash) \in Candidate
  <2>1. input \in Nat
    BY DEF Candidate
  <2> HIDE DEF input
  <2> QED BY <2>1, SolverStageType
<1>9. CASE outcome \in FailureKinds
  <2> HIDE DEF guarded, failed, outcome
  <2> QED BY <1>1, <1>5, <1>7, <1>8, <1>9 DEF SameItems
<1>10. CASE outcome \notin FailureKinds
  <2> HIDE DEF guarded, t, decided, outcome
  <2> QED BY <1>1, <1>3, <1>4, <1>6, <1>7, <1>8, <1>10 DEF SameItems
<1> QED BY <1>9, <1>10

-----------------------------------------------------------------------------
(* Counters.                                                                *)

SameAttempts(c, d) ==
  /\ d.generation_attempt = c.generation_attempt
  /\ d.generation_history = c.generation_history
  /\ d.revision_count = c.revision_count
  /\ d.discard_note = c.discard_note
  /\ d.review_history = c.review_history

\* One more failure of this kind at this stage.
Counted(c, d, kind, stage) ==
  \A k \in FailureKinds, s \in RETRY_STAGES :
    RetryCount(d, k, s) = RetryCount(c, k, s) + (IF k = kind /\ s = stage THEN 1 ELSE 0)

LEMMA TransitionAttempts ==
  ASSUME NEW c \in Candidate, NEW new \in VALID_STATES
  PROVE  SameAttempts(c, transition(c, new))
BY DEF transition, Candidate, SameAttempts

LEMMA FailureCounts ==
  ASSUME NEW c \in Candidate, NEW kind \in FailureKinds, NEW stage \in RETRY_STAGES
  PROVE  LET d == record_stage_failure(c, kind, stage)
         IN  SameAttempts(c, d) /\ Counted(c, d, kind, stage)
<1> DEFINE count == RetryCount(c, kind, stage) + 1
           sys == IF kind = "system"
                  THEN [c.system_failure_retries EXCEPT ![stage] = count]
                  ELSE c.system_failure_retries
           val == IF kind = "content"
                  THEN [c.validation_failure_retries EXCEPT ![stage] = count]
                  ELSE c.validation_failure_retries
           fail == [kind |-> kind, stage |-> stage]
           d == [c EXCEPT !.system_failure_retries = sys,
                          !.validation_failure_retries = val,
                          !.failure = fail]
           failed == transition(d, FailedStateOf(kind))
           last == transition(failed, "MANUAL_REVIEW")
<1>1. count \in Nat
  BY DEF RetryCount, Candidate, Retries
<1>2. sys \in Retries /\ val \in Retries /\ fail \in Failure
  <2> HIDE DEF count
  <2> QED BY <1>1 DEF Candidate, Retries, Failure
<1>3. /\ d \in Candidate /\ SameAttempts(c, d)
      /\ d.system_failure_retries = sys /\ d.validation_failure_retries = val
  <2> HIDE DEF sys, val, fail
  <2> QED BY <1>2 DEF Candidate, SameAttempts
<1>4. Counted(c, d, kind, stage)
  <2>1. c.system_failure_retries \in Retries /\ c.validation_failure_retries \in Retries
    BY DEF Candidate
  <2>2. \A k \in FailureKinds, s \in RETRY_STAGES : RetryCount(c, k, s) \in Nat
    BY <2>1 DEF RetryCount, Retries
  <2>3. RetryCount(d, kind, stage) = count
    <3> HIDE DEF d, count
    <3> QED BY <1>3, <2>1 DEF RetryCount, Retries, FailureKinds
  <2>4. \A k \in FailureKinds, s \in RETRY_STAGES :
          k # kind \/ s # stage => RetryCount(d, k, s) = RetryCount(c, k, s)
    <3> HIDE DEF d, count
    <3> QED BY <1>3, <2>1 DEF RetryCount, Retries, FailureKinds
  <2> HIDE DEF d
  <2> QED BY <2>2, <2>3, <2>4 DEF Counted
<1>5. FailedStateOf(kind) \in VALID_STATES /\ "MANUAL_REVIEW" \in VALID_STATES
  BY DEF FailedStateOf, VALID_STATES, FailedStates, TERMINAL_STATES
<1>6. failed \in Candidate /\ SameAttempts(d, failed) /\ SameCounts(d, failed)
  <2> HIDE DEF d
  <2> QED BY <1>3, <1>5, TransitionType, TransitionFields, TransitionAttempts
<1>7. SameAttempts(failed, last) /\ SameCounts(failed, last)
  <2> HIDE DEF failed
  <2> QED BY <1>5, <1>6, TransitionFields, TransitionAttempts
<1>8. /\ SameAttempts(c, failed) /\ Counted(c, failed, kind, stage)
      /\ SameAttempts(c, last) /\ Counted(c, last, kind, stage)
  <2> HIDE DEF d, failed, last
  <2> QED BY <1>3, <1>4, <1>6, <1>7 DEF SameAttempts, SameCounts, Counted, RetryCount
<1>9. record_stage_failure(c, kind, stage)
        = IF count > retry_limit(kind) THEN last ELSE failed
  BY DEF record_stage_failure, FailWith
<1> HIDE DEF failed, last, count
<1> QED BY <1>8, <1>9

LEMMA RetryCounts ==
  ASSUME NEW c \in Candidate, NEW stage \in RETRY_STAGES, FailedAt(c, stage)
  PROVE  /\ SameAttempts(c, retry_failed_stage(c))
         /\ SameCounts(c, retry_failed_stage(c))
         /\ retry_failed_stage(c).failure \in {c.failure, None}
<1> DEFINE armed == transition(c, STAGE_RETRY_STATES[stage])
           last == transition(c, "MANUAL_REVIEW")
           rItem == IF stage = "generator" THEN None ELSE armed.reviewer_item
           rInput == IF stage = "generator" THEN None ELSE armed.reviewer_input
           sInput == IF stage = "solver" THEN armed.solver_input ELSE None
           leak == IF stage = "solver" THEN armed.leakage_check ELSE None
           d == [armed EXCEPT !.failure = None, !.reviewer_item = rItem,
                   !.reviewer_input = rInput, !.solver_item = None,
                   !.solver_input = sInput, !.leakage_check = leak, !.consensus = None]
<1>1. c.failure # None /\ c.failure.stage = stage
  BY DEF FailedAt
<1>2. STAGE_RETRY_STATES[stage] \in VALID_STATES /\ "MANUAL_REVIEW" \in VALID_STATES
  BY DEF STAGE_RETRY_STATES, RETRY_STAGES, VALID_STATES, TERMINAL_STATES
<1>3. armed \in Candidate /\ SameAttempts(c, armed) /\ SameCounts(c, armed)
  BY <1>2, TransitionType, TransitionAttempts, TransitionFields
<1>4. SameAttempts(c, last) /\ SameCounts(c, last) /\ last.failure = c.failure
  BY <1>2, TransitionAttempts, TransitionFields
<1>5. SameAttempts(armed, d) /\ SameCounts(armed, d) /\ d.failure = None
  <2> HIDE DEF armed, rItem, rInput, sInput, leak
  <2> QED BY <1>3 DEF Candidate, SameAttempts, SameCounts
<1>6. SameAttempts(c, d) /\ SameCounts(c, d)
  <2> HIDE DEF armed, d
  <2> QED BY <1>3, <1>5 DEF SameAttempts, SameCounts
<1>7. retry_failed_stage(c) \in {last, d}
  BY <1>1 DEF retry_failed_stage
<1> HIDE DEF last, d
<1> QED BY <1>4, <1>5, <1>6, <1>7

LEMMA GenerationCounts ==
  ASSUME NEW c \in Candidate, NEW body \in GeneratorBody, NEW crash \in BOOLEAN
  PROVE  LET d == apply_generation_result(c, body, crash)
         IN  /\ d.generation_attempt = c.generation_attempt
             /\ d.generation_history = c.generation_history + 1
             /\ d.revision_count = c.revision_count
             /\ d.discard_note = c.discard_note
             /\ d.review_history = c.review_history
             /\ \/ d.state \in {"REVIEWING", Raised} /\ d.failure = None /\ SameCounts(c, d)
                \/ \E kind \in FailureKinds :
                     FailedBy(d, kind, "generator") /\ Counted(c, d, kind, "generator")
<1> DEFINE n == c.generation_history + 1
           item == [body |-> body, ver |-> n]
           b == [c EXCEPT !.generator_item = item, !.generation_history = n]
           outcome == StageOutcome(b.generator_item.body, crash)
           input == canonical_input(b.generator_item)
           t == transition(b, "REVIEWING")
           e == [t EXCEPT !.failure = None, !.reviewer_input = input]
           f == record_stage_failure(b, outcome, "generator")
           Same(x) == /\ x.generation_attempt = c.generation_attempt
                      /\ x.generation_history = n
                      /\ x.revision_count = c.revision_count
                      /\ x.discard_note = c.discard_note
                      /\ x.review_history = c.review_history
<1>1. n \in Nat /\ item \in GeneratorItem
  BY DEF Candidate, GeneratorItem
<1>2. b \in Candidate /\ Same(b) /\ SameCounts(c, b)
  <2> HIDE DEF n, item
  <2> QED BY <1>1 DEF Candidate, SameCounts
<1>3. /\ t \in Candidate /\ SameAttempts(b, t) /\ SameCounts(b, t)
      /\ t.state \in {"REVIEWING", Raised}
  <2>1. "REVIEWING" \in VALID_STATES
    BY DEF VALID_STATES
  <2> HIDE DEF b
  <2> QED BY <1>2, <2>1, TransitionType, TransitionAttempts, TransitionFields
<1>4. /\ SameAttempts(t, e) /\ SameCounts(t, e) /\ e.failure = None
      /\ e.state \in {"REVIEWING", Raised}
  <2> HIDE DEF t, input
  <2> QED BY <1>3 DEF Candidate, SameAttempts, SameCounts
<1>5. Same(e) /\ SameCounts(c, e)
  <2> HIDE DEF b, t, e, n
  <2> QED BY <1>2, <1>3, <1>4 DEF SameAttempts, SameCounts
<1>6. ASSUME outcome \in FailureKinds
      PROVE  Same(f) /\ FailedBy(f, outcome, "generator") /\ Counted(c, f, outcome, "generator")
  <2>1. /\ FailedBy(f, outcome, "generator")
        /\ SameAttempts(b, f) /\ Counted(b, f, outcome, "generator")
    <3> HIDE DEF b, outcome
    <3> QED BY <1>2, <1>6, FailureEffect, FailureCounts DEF RETRY_STAGES
  <2>2. Same(f)
    <3> HIDE DEF b, f, n
    <3> QED BY <1>2, <2>1 DEF SameAttempts
  <2>3. \A k, s : RetryCount(b, k, s) = RetryCount(c, k, s)
    <3> HIDE DEF b
    <3> QED BY <1>2 DEF SameCounts, RetryCount
  <2>4. Counted(c, f, outcome, "generator")
    <3> HIDE DEF b, f, outcome
    <3> QED BY <2>1, <2>3 DEF Counted
  <2> QED BY <2>1, <2>2, <2>4
<1>7. apply_generation_result(c, body, crash) = IF outcome \in FailureKinds THEN f ELSE e
  BY DEF apply_generation_result, process_generation_output
<1> HIDE DEF e, f, outcome
<1> QED BY <1>4, <1>5, <1>6, <1>7

LEMMA ReviewCounts ==
  ASSUME NEW c \in Candidate, NEW out \in ReviewerItem, NEW crash \in BOOLEAN
  PROVE  LET d == apply_review_result(c, out, crash)
         IN  /\ d.generation_attempt = c.generation_attempt
             /\ d.generation_history = c.generation_history
             /\ c.review_history \subseteq d.review_history
             /\ \/ /\ SameCounts(c, d) /\ d.failure = None
                   /\ d.revision_count = c.revision_count
                        + (IF out.body.verdict = "REVISE" THEN 1 ELSE 0)
                   /\ d.discard_note => d.state \in {"DISCARDED", Raised}
                   /\ d.discard_note \/ d.state \in {"REVISE_REQUIRED", Raised}
                        <=> out.body.verdict = "REVISE" \/ d.state = Raised
                \/ /\ d.revision_count = c.revision_count
                   /\ d.discard_note = c.discard_note
                   /\ \E kind \in FailureKinds :
                        FailedBy(d, kind, "reviewer") /\ Counted(c, d, kind, "reviewer")
<1> DEFINE b == [c EXCEPT !.reviewer_item = out]
           outcome == StageOutcome(b.reviewer_item.body, crash)
           input == canonical_input(b.generator_item)
           armed == [b EXCEPT !.reviewer_input = input]
           verdict == armed.reviewer_item.body.verdict
           count == armed.revision_count + 1
           target == CASE verdict = "PASS"   -> "SOLVING"
                       [] verdict = "REJECT" -> "REJECTED"
                       [] OTHER -> IF count > MaxRevisionCycles
                                   THEN "DISCARDED" ELSE "REVISE_REQUIRED"
           t == transition(armed, target)
           rev == IF verdict = "REVISE" THEN count ELSE t.revision_count
           note == (target = "DISCARDED")
           routed == [t EXCEPT !.failure = None, !.revision_count = rev,
                               !.discard_note = note]
           mismatch == record_stage_failure(b, "content", "reviewer")
           failed == record_stage_failure(armed, outcome, "reviewer")
           d == process_review_output(b, crash)
           rh == d.review_history \cup {[output |-> out, routed_state |-> d.state]}
           e == [d EXCEPT !.review_history = rh]
           Same(x) == /\ x.generation_attempt = c.generation_attempt
                      /\ x.generation_history = c.generation_history
                      /\ x.review_history = c.review_history
           Routed(x) == /\ SameCounts(c, x) /\ x.failure = None
                        /\ x.revision_count = c.revision_count
                             + (IF verdict = "REVISE" THEN 1 ELSE 0)
                        /\ x.discard_note => x.state \in {"DISCARDED", Raised}
                        /\ x.discard_note \/ x.state \in {"REVISE_REQUIRED", Raised}
                             <=> verdict = "REVISE" \/ x.state = Raised
           Failed(x) == /\ x.revision_count = c.revision_count
                        /\ x.discard_note = c.discard_note
                        /\ \E kind \in FailureKinds :
                             FailedBy(x, kind, "reviewer") /\ Counted(c, x, kind, "reviewer")
<1>1. /\ b \in Candidate /\ SameAttempts(c, b) /\ SameCounts(c, b)
      /\ b.reviewer_item = out
  BY DEF Candidate, SameAttempts, SameCounts
<1>2. /\ armed \in Candidate /\ SameAttempts(c, armed) /\ SameCounts(c, armed)
      /\ armed.reviewer_item = out
  <2>1. input \in Nat
    <3> HIDE DEF b
    <3> QED BY <1>1 DEF canonical_input, Candidate, GeneratorItem
  <2> HIDE DEF b, input
  <2> QED BY <1>1, <2>1 DEF Candidate, SameAttempts, SameCounts
<1>3. /\ target \in VALID_STATES
      /\ target \in {"SOLVING", "REJECTED", "DISCARDED", "REVISE_REQUIRED"}
      /\ target \in {"DISCARDED", "REVISE_REQUIRED"} <=> verdict = "REVISE"
  <2>1. verdict \in Verdicts
    <3> HIDE DEF armed
    <3> QED BY <1>2 DEF ReviewerItem, ReviewBody
  <2> HIDE DEF verdict, count
  <2> QED BY <2>1 DEF VALID_STATES, TERMINAL_STATES, Verdicts
<1>4. /\ t \in Candidate /\ SameAttempts(armed, t) /\ SameCounts(armed, t)
      /\ t.state \in {target, Raised}
  <2> HIDE DEF armed, target
  <2> QED BY <1>2, <1>3, TransitionType, TransitionAttempts, TransitionFields
<1>5. /\ routed.generation_attempt = t.generation_attempt
      /\ routed.generation_history = t.generation_history
      /\ routed.review_history = t.review_history
      /\ routed.revision_count = rev /\ routed.discard_note = note
      /\ routed.failure = None /\ routed.state = t.state /\ SameCounts(t, routed)
  <2> HIDE DEF t, rev, note
  <2> QED BY <1>4 DEF Candidate, SameCounts
<1>6. Same(routed)
  <2> HIDE DEF armed, t, routed
  <2> QED BY <1>2, <1>4, <1>5 DEF SameAttempts
<1>7. Routed(routed)
  <2>1. SameCounts(c, routed)
    <3> HIDE DEF armed, t, routed
    <3> QED BY <1>2, <1>4, <1>5 DEF SameCounts
  <2>2. rev = c.revision_count + (IF verdict = "REVISE" THEN 1 ELSE 0)
    <3>1. t.revision_count = c.revision_count /\ count = c.revision_count + 1
      <4> HIDE DEF armed, t
      <4> QED BY <1>2, <1>4 DEF SameAttempts
    <3>2. c.revision_count \in Nat
      BY DEF Candidate
    <3> HIDE DEF t, count, verdict
    <3> QED BY <3>1, <3>2
  <2>3. /\ note => t.state \in {"DISCARDED", Raised}
        /\ note \/ t.state \in {"REVISE_REQUIRED", Raised}
             <=> verdict = "REVISE" \/ t.state = Raised
    <3> HIDE DEF t, target, verdict
    <3> QED BY <1>3, <1>4 DEF Raised
  <2> HIDE DEF t, rev, note, routed, verdict
  <2> QED BY <1>5, <2>1, <2>2, <2>3
<1>8. RouteVerdict(armed) = routed
  <2>1. t.revision_count = armed.revision_count
    <3> HIDE DEF armed, t
    <3> QED BY <1>4 DEF SameAttempts
  <2> HIDE DEF armed
  <2> QED BY <2>1 DEF RouteVerdict
<1>9. Same(mismatch) /\ Failed(mismatch)
  <2>1. /\ FailedBy(mismatch, "content", "reviewer")
        /\ SameAttempts(b, mismatch) /\ Counted(b, mismatch, "content", "reviewer")
    <3> HIDE DEF b
    <3> QED BY <1>1, FailureEffect, FailureCounts DEF RETRY_STAGES, FailureKinds
  <2>2. SameAttempts(c, mismatch) /\ Counted(c, mismatch, "content", "reviewer")
    <3> HIDE DEF b, mismatch
    <3> QED BY <1>1, <2>1 DEF SameAttempts, SameCounts, Counted, RetryCount
  <2> HIDE DEF mismatch
  <2> QED BY <2>1, <2>2 DEF SameAttempts, FailureKinds
<1>10. outcome \in FailureKinds => Same(failed) /\ Failed(failed)
  <2> SUFFICES ASSUME outcome \in FailureKinds PROVE Same(failed) /\ Failed(failed)
    OBVIOUS
  <2>1. /\ FailedBy(failed, outcome, "reviewer")
        /\ SameAttempts(armed, failed) /\ Counted(armed, failed, outcome, "reviewer")
    <3> HIDE DEF armed, outcome
    <3> QED BY <1>2, FailureEffect, FailureCounts DEF RETRY_STAGES
  <2>2. SameAttempts(c, failed) /\ Counted(c, failed, outcome, "reviewer")
    <3> HIDE DEF armed, failed, outcome
    <3> QED BY <1>2, <2>1 DEF SameAttempts, SameCounts, Counted, RetryCount
  <2> HIDE DEF failed, outcome
  <2> QED BY <2>1, <2>2 DEF SameAttempts
<1>11. d = IF ReviewInputMismatch(b) THEN mismatch
           ELSE IF outcome \in FailureKinds THEN failed ELSE routed
  BY <1>8 DEF process_review_output
<1>12. Same(d) /\ (Routed(d) \/ Failed(d))
  <2> HIDE DEF b, d, mismatch, failed, routed, outcome, Same, Routed, Failed
  <2> QED BY <1>6, <1>7, <1>9, <1>10, <1>11
<1>13. d \in Candidate
  <2>1. b.reviewer_item # None
    <3> HIDE DEF b
    <3> QED BY <1>1, NoneAssumption
  <2> HIDE DEF b
  <2> QED BY <1>1, <2>1, ReviewType
<1>14. /\ e.generation_attempt = d.generation_attempt
       /\ e.generation_history = d.generation_history
       /\ e.review_history = rh
       /\ e.revision_count = d.revision_count /\ e.discard_note = d.discard_note
       /\ e.state = d.state /\ e.failure = d.failure /\ SameCounts(d, e)
  <2> HIDE DEF d, rh
  <2> QED BY <1>13 DEF Candidate, SameCounts
<1>15. /\ e.generation_attempt = c.generation_attempt
       /\ e.generation_history = c.generation_history
       /\ c.review_history \subseteq e.review_history
  <2> HIDE DEF d, e
  <2> QED BY <1>12, <1>14
<1>16. verdict = out.body.verdict
  <2> HIDE DEF armed
  <2> QED BY <1>2
<1>17. Routed(e) \/ Failed(e)
  <2> HIDE DEF d, e, verdict
  <2>1. ASSUME Routed(d) PROVE Routed(e)
    BY <1>14, <2>1 DEF SameCounts
  <2>2. ASSUME Failed(d) PROVE Failed(e)
    BY <1>14, <2>2 DEF FailedBy, SameCounts, Counted, RetryCount
  <2> QED BY <1>12, <2>1, <2>2
<1>18. apply_review_result(c, out, crash) = e
  BY DEF apply_review_result
<1> HIDE DEF e, verdict
<1> QED BY <1>15, <1>16, <1>17, <1>18

LEMMA PrepareCounts ==
  ASSUME NEW c \in Candidate
  PROVE  LET d == prepare_solver_input(c)
         IN  /\ SameAttempts(c, d)
             /\ \/ SameCounts(c, d) /\ d.failure = c.failure /\ d.state = c.state
                \/ FailedBy(d, "content", "solver") /\ Counted(c, d, "content", "solver")
<1> DEFINE canon == canonical_input(c.generator_item)
           good == [c EXCEPT !.solver_input = canon, !.leakage_check = "ok"]
           bare == [c EXCEPT !.solver_input = None, !.leakage_check = "ok"]
           failed == record_stage_failure(bare, "content", "solver")
<1>1. /\ SameAttempts(c, good) /\ SameCounts(c, good)
      /\ good.failure = c.failure /\ good.state = c.state
      /\ bare \in Candidate /\ SameAttempts(c, bare) /\ SameCounts(c, bare)
  <2> HIDE DEF canon
  <2> QED BY DEF Candidate, SameAttempts, SameCounts
<1>2. /\ FailedBy(failed, "content", "solver")
      /\ SameAttempts(bare, failed) /\ Counted(bare, failed, "content", "solver")
  <2> HIDE DEF bare
  <2> QED BY <1>1, FailureEffect, FailureCounts DEF RETRY_STAGES, FailureKinds
<1>3. SameAttempts(c, failed) /\ Counted(c, failed, "content", "solver")
  <2> HIDE DEF bare, failed
  <2> QED BY <1>1, <1>2 DEF SameAttempts, SameCounts, Counted, RetryCount
<1>4. prepare_solver_input(c) \in {good, failed}
  BY DEF prepare_solver_input
<1> HIDE DEF good, failed
<1> QED BY <1>1, <1>2, <1>3, <1>4

LEMMA SolverCounts ==
  ASSUME NEW c \in Candidate, NEW out \in SolverItem, NEW input \in Nat,
         NEW crash \in BOOLEAN
  PROVE  LET d == process_solver_stage(c, out, input, crash)
         IN  /\ SameAttempts(c, d)
             /\ \/ SameCounts(c, d) /\ d.failure = None
                \/ \E kind \in FailureKinds, stage \in RETRY_STAGES :
                     /\ FailedBy(d, kind, stage) /\ Counted(c, d, kind, stage)
                     /\ stage = "generator" => ~ c.generator_item.body.ident
<1> DEFINE outcome == StageOutcome(out.body, crash)
           guarded == [c EXCEPT !.solver_input = input, !.leakage_check = "ok"]
           bare == [c EXCEPT !.solver_input = None]
           result == evaluate_consensus(c.generator_item.body, c.reviewer_item.body, out.body)
           t == transition(guarded, result.routing)
           policy == IF result.routing = "ACCEPTED" THEN acceptance_policy_record ELSE None
           decided == [t EXCEPT !.solver_item = out, !.failure = None,
                                !.consensus = result, !.acceptance_policy = policy]
           Failure1 == record_stage_failure(c, "content", "generator")
           Failure2 == record_stage_failure(c, "content", "reviewer")
           Failure3 == record_stage_failure(bare, "content", "solver")
           Failure4 == record_stage_failure(guarded, outcome, "solver")
           Failed(d, kind, stage) ==
             SameAttempts(c, d) /\ FailedBy(d, kind, stage) /\ Counted(c, d, kind, stage)
<1>1. /\ guarded \in Candidate /\ SameAttempts(c, guarded) /\ SameCounts(c, guarded)
      /\ bare \in Candidate /\ SameAttempts(c, bare) /\ SameCounts(c, bare)
  BY DEF Candidate, SameAttempts, SameCounts
<1>2. ASSUME NEW b \in Candidate, SameAttempts(c, b), SameCounts(c, b),
             NEW kind \in FailureKinds, NEW stage \in RETRY_STAGES
      PROVE  Failed(record_stage_failure(b, kind, stage), kind, stage)
  <2> DEFINE d == record_stage_failure(b, kind, stage)
  <2>1. FailedBy(d, kind, stage) /\ SameAttempts(b, d) /\ Counted(b, d, kind, stage)
    BY FailureEffect, FailureCounts
  <2> HIDE DEF d
  <2>2. Failed(d, kind, stage)
    BY <1>2, <2>1 DEF SameAttempts, SameCounts, Counted, RetryCount
  <2> QED BY <2>2 DEF d
<1>3. /\ Failed(Failure1, "content", "generator")
      /\ Failed(Failure2, "content", "reviewer")
      /\ Failed(Failure3, "content", "solver")
      /\ outcome \in FailureKinds => Failed(Failure4, outcome, "solver")
  <2>1. SameAttempts(c, c) /\ SameCounts(c, c)
    BY DEF SameAttempts, SameCounts
  <2> HIDE DEF guarded, bare, outcome, Failed
  <2> QED BY <1>1, <1>2, <2>1 DEF FailureKinds, RETRY_STAGES
<1>4. SameAttempts(c, decided) /\ SameCounts(c, decided) /\ decided.failure = None
  <2>1. result.routing \in VALID_STATES
    BY ConsensusType DEF Consensus, VALID_STATES, TERMINAL_STATES
  <2>2. t \in Candidate /\ SameAttempts(guarded, t) /\ SameCounts(guarded, t)
    <3> HIDE DEF guarded, result
    <3> QED BY <1>1, <2>1, TransitionType, TransitionAttempts, TransitionFields
  <2>3. SameAttempts(t, decided) /\ SameCounts(t, decided) /\ decided.failure = None
    <3> HIDE DEF t, result, policy
    <3> QED BY <2>2 DEF Candidate, SameAttempts, SameCounts
  <2> HIDE DEF guarded, t, decided
  <2> QED BY <1>1, <2>2, <2>3 DEF SameAttempts, SameCounts
<1>5. process_solver_stage(c, out, input, crash) =
        IF ~ c.generator_item.body.ident THEN Failure1
        ELSE IF ~ c.reviewer_item.body.ident THEN Failure2
        ELSE IF input # canonical_input(c.generator_item) THEN Failure3
        ELSE IF outcome \in FailureKinds THEN Failure4 ELSE decided
  BY DEF process_solver_stage
<1>6. "content" \in FailureKinds /\ {"generator", "reviewer", "solver"} \subseteq RETRY_STAGES
  BY DEF FailureKinds, RETRY_STAGES
<1> HIDE DEF Failure1, Failure2, Failure3, Failure4, decided, outcome
<1> QED BY <1>3, <1>4, <1>5, <1>6

-----------------------------------------------------------------------------
(* No command takes a history or a counter back.                            *)

Grows(c, d) ==
  /\ c.review_history \subseteq d.review_history
  /\ c.generation_history <= d.generation_history
  /\ c.generation_attempt <= d.generation_attempt
  /\ c.revision_count <= d.revision_count
  /\ \A s \in RETRY_STAGES :
       /\ c.system_failure_retries[s] <= d.system_failure_retries[s]
       /\ c.validation_failure_retries[s] <= d.validation_failure_retries[s]

RetriesGrow(c, d) ==
  \A s \in RETRY_STAGES :
    /\ c.system_failure_retries[s] <= d.system_failure_retries[s]
    /\ c.validation_failure_retries[s] <= d.validation_failure_retries[s]

LEMMA Numbers ==
  ASSUME NEW c \in Candidate
  PROVE  /\ c.generation_history \in Nat /\ c.generation_attempt \in Nat
         /\ c.revision_count \in Nat
         /\ \A s \in RETRY_STAGES :
              c.system_failure_retries[s] \in Nat /\ c.validation_failure_retries[s] \in Nat
BY DEF Candidate, Retries

LEMMA CountsGrow ==
  ASSUME NEW c \in Candidate, NEW d,
         SameCounts(c, d) \/ \E kind, stage : Counted(c, d, kind, stage)
  PROVE  RetriesGrow(c, d)
<1>1. CASE SameCounts(c, d)
  BY <1>1, Numbers DEF SameCounts, RetriesGrow
<1>2. ASSUME NEW kind, NEW stage, Counted(c, d, kind, stage) PROVE RetriesGrow(c, d)
  <2>1. ASSUME NEW s \in RETRY_STAGES
        PROVE  /\ c.system_failure_retries[s] <= d.system_failure_retries[s]
               /\ c.validation_failure_retries[s] <= d.validation_failure_retries[s]
    <3>1. /\ RetryCount(d, "system", s) \in {RetryCount(c, "system", s),
                                             RetryCount(c, "system", s) + 1}
          /\ RetryCount(d, "content", s) \in {RetryCount(c, "content", s),
                                              RetryCount(c, "content", s) + 1}
      <4>1. /\ RetryCount(d, "system", s)
                 = RetryCount(c, "system", s) + (IF "system" = kind /\ s = stage THEN 1 ELSE 0)
            /\ RetryCount(d, "content", s)
                 = RetryCount(c, "content", s) + (IF "content" = kind /\ s = stage THEN 1 ELSE 0)
        BY <1>2 DEF Counted, FailureKinds
      <4>2. RetryCount(c, "system", s) \in Nat /\ RetryCount(c, "content", s) \in Nat
        BY Numbers DEF RetryCount
      <4> QED BY <4>1, <4>2
    <3> QED BY <3>1, Numbers DEF RetryCount
  <2> QED BY <2>1 DEF RetriesGrow
<1> QED BY <1>1, <1>2

LEMMA AttemptsGrow ==
  ASSUME NEW c \in Candidate, NEW d, SameAttempts(c, d),
         SameCounts(c, d) \/ \E kind, stage : Counted(c, d, kind, stage)
  PROVE  Grows(c, d)
BY CountsGrow, Numbers DEF SameAttempts, Grows, RetriesGrow

LEMMA GrowsReflexive ==
  ASSUME NEW c \in Candidate
  PROVE  Grows(c, c)
BY Numbers DEF Grows

LEMMA GrowsTransitive ==
  ASSUME NEW c \in Candidate, NEW d \in Candidate, NEW e \in Candidate,
         Grows(c, d), Grows(d, e)
  PROVE  Grows(c, e)
<1>1. \A s \in RETRY_STAGES :
        /\ c.system_failure_retries[s] <= e.system_failure_retries[s]
        /\ c.validation_failure_retries[s] <= e.validation_failure_retries[s]
  BY Numbers DEF Grows
<1> QED BY <1>1, Numbers DEF Grows

LEMMA RetryGrows ==
  ASSUME NEW c \in Candidate, NEW stage \in RETRY_STAGES, FailedAt(c, stage)
  PROVE  retry_failed_stage(c) \in Candidate /\ Grows(c, retry_failed_stage(c))
BY RetryEffect, RetryCounts, AttemptsGrow

LEMMA GenerationGrows ==
  ASSUME NEW c \in Candidate, NEW body \in GeneratorBody, NEW crash \in BOOLEAN
  PROVE  Grows(c, apply_generation_result(c, body, crash))
<1> DEFINE d == apply_generation_result(c, body, crash)
<1>1. RetriesGrow(c, d)
  <2>1. SameCounts(c, d) \/ \E kind, stage : Counted(c, d, kind, stage)
    BY GenerationCounts
  <2> HIDE DEF d
  <2> QED BY <2>1, CountsGrow
<1>2. /\ d.generation_attempt = c.generation_attempt
      /\ d.generation_history = c.generation_history + 1
      /\ d.revision_count = c.revision_count
      /\ d.review_history = c.review_history
  BY GenerationCounts
<1> HIDE DEF d
<1>3. Grows(c, d)
  BY <1>1, <1>2, Numbers DEF Grows, RetriesGrow
<1> QED BY <1>3 DEF d

LEMMA ReviewGrows ==
  ASSUME NEW c \in Candidate, NEW out \in ReviewerItem, NEW crash \in BOOLEAN
  PROVE  Grows(c, apply_review_result(c, out, crash))
<1> DEFINE d == apply_review_result(c, out, crash)
<1>1. RetriesGrow(c, d)
  <2>1. SameCounts(c, d) \/ \E kind, stage : Counted(c, d, kind, stage)
    BY ReviewCounts
  <2> HIDE DEF d
  <2> QED BY <2>1, CountsGrow
<1>2. /\ d.generation_attempt = c.generation_attempt
      /\ d.generation_history = c.generation_history
      /\ c.review_history \subseteq d.review_history
      /\ d.revision_count \in {c.revision_count, c.revision_count + 1}
  <2>1. c.revision_count + 0 = c.revision_count
    BY Numbers
  <2> QED BY <2>1, ReviewCounts
<1> HIDE DEF d
<1>3. Grows(c, d)
  BY <1>1, <1>2, Numbers DEF Grows, RetriesGrow
<1> QED BY <1>3 DEF d

LEMMA ReviewCandidateGrows ==
  ASSUME NEW c \in Candidate, NEW out \in ReviewerItem, NEW crash \in BOOLEAN
  PROVE  Grows(c, ReviewCandidate(c, out, crash))
<1> DEFINE x == IF FailedAt(c, "reviewer") THEN retry_failed_stage(c) ELSE c
<1>1. x \in Candidate /\ Grows(c, x)
  BY RetryGrows, GrowsReflexive DEF RETRY_STAGES
<1>2. ReviewCandidate(c, out, crash) \in {apply_review_result(x, out, crash), x}
  BY DEF ReviewCandidate
<1>3. ReviewCandidate(c, out, crash) \in Candidate
  BY ReviewCandidateType
<1> HIDE DEF x
<1> QED BY <1>1, <1>2, <1>3, ReviewGrows, GrowsTransitive

LEMMA ReviseCandidateGrows ==
  ASSUME NEW c \in Candidate, NEW body \in GeneratorBody, NEW crash \in BOOLEAN
  PROVE  Grows(c, ReviseCandidate(c, body, crash))
<1> DEFINE t == transition(c, "GENERATED")
           attempt == t.generation_attempt + 1
           begun == [t EXCEPT !.reviewer_item = None, !.reviewer_input = None,
                       !.solver_item = None, !.solver_input = None,
                       !.leakage_check = None, !.consensus = None, !.failure = None,
                       !.generation_attempt = attempt]
           x == IF FailedAt(c, "generator") THEN retry_failed_stage(c) ELSE begun
<1>1. t \in Candidate /\ SameAttempts(c, t) /\ SameCounts(c, t)
  BY TransitionType, TransitionAttempts, TransitionFields DEF VALID_STATES
<1>2. /\ begun \in Candidate
      /\ begun.review_history = t.review_history
      /\ begun.generation_history = t.generation_history
      /\ begun.revision_count = t.revision_count
      /\ begun.generation_attempt = attempt
      /\ SameCounts(t, begun)
  <2>1. attempt \in Nat
    <3> HIDE DEF t
    <3> QED BY <1>1 DEF Candidate
  <2> HIDE DEF t, attempt
  <2> QED BY <1>1, <2>1 DEF Candidate, SameCounts
<1>3. Grows(c, begun)
  <2>1. SameCounts(c, begun)
    <3> HIDE DEF t, begun
    <3> QED BY <1>1, <1>2 DEF SameCounts
  <2>2. attempt = c.generation_attempt + 1
    <3> HIDE DEF t
    <3> QED BY <1>1 DEF SameAttempts
  <2> HIDE DEF t, begun, attempt
  <2> QED BY <1>1, <1>2, <2>1, <2>2, Numbers, CountsGrow DEF SameAttempts, Grows, RetriesGrow
<1>4. x \in Candidate /\ Grows(c, x)
  <2> HIDE DEF begun
  <2> QED BY <1>2, <1>3, RetryGrows DEF RETRY_STAGES
<1>5. ReviseCandidate(c, body, crash) = apply_generation_result(x, body, crash)
  BY DEF ReviseCandidate, begin_revision
<1>6. ReviseCandidate(c, body, crash) \in Candidate
  BY ReviseCandidateType
<1> HIDE DEF x
<1> QED BY <1>4, <1>5, <1>6, GenerationGrows, GrowsTransitive

LEMMA PrepareCandidateGrows ==
  ASSUME NEW c \in Candidate
  PROVE  Grows(c, PrepareCandidate(c))
<1> DEFINE x == IF FailedAt(c, "solver") THEN retry_failed_stage(c) ELSE c
<1>1. x \in Candidate /\ Grows(c, x)
  BY RetryGrows, GrowsReflexive DEF RETRY_STAGES
<1>2. PrepareCandidate(c) \in {prepare_solver_input(x), x}
  BY DEF PrepareCandidate
<1>3. PrepareCandidate(c) \in Candidate
  BY PrepareCandidateType
<1> HIDE DEF x
<1>4. Grows(x, prepare_solver_input(x))
  BY <1>1, PrepareCounts, AttemptsGrow
<1> QED BY <1>1, <1>2, <1>3, <1>4, GrowsTransitive

LEMMA SolveCandidateGrows ==
  ASSUME NEW c \in Candidate, NEW out \in SolverItem, NEW crash \in BOOLEAN,
         NEW keep \in BOOLEAN
  PROVE  Grows(c, SolveCandidate(c, out, crash, keep))
<1> DEFINE x == IF FailedAt(c, "solver") /\ c.solver_input # None
                THEN retry_failed_stage(c) ELSE c
           e == IF keep THEN [x EXCEPT !.solver_item = out] ELSE x
           input == x.solver_input
           d == process_solver_stage(e, out, input, crash)
<1>1. x \in Candidate /\ Grows(c, x)
  BY RetryGrows, GrowsReflexive DEF RETRY_STAGES
<1>2. e \in Candidate /\ Grows(x, e)
  <2>1. CASE keep
    <3>1. /\ [x EXCEPT !.solver_item = out] \in Candidate
          /\ SameAttempts(x, [x EXCEPT !.solver_item = out])
          /\ SameCounts(x, [x EXCEPT !.solver_item = out])
      <4> HIDE DEF x
      <4> QED BY <1>1 DEF Candidate, SameAttempts, SameCounts
    <3> HIDE DEF x
    <3> QED BY <1>1, <2>1, <3>1, AttemptsGrow
  <2>2. CASE ~ keep
    <3> HIDE DEF x
    <3> QED BY <1>1, <2>2, GrowsReflexive
  <2> QED BY <2>1, <2>2
<1>3. SolveCandidate(c, out, crash, keep)
        = IF x.state = "SOLVING" /\ input # None THEN d ELSE x
  BY DEF SolveCandidate
<1>4. CASE x.state = "SOLVING" /\ input # None
  <2>1. input \in Nat
    <3> HIDE DEF x
    <3> QED BY <1>1, <1>4 DEF Candidate
  <2>2. d \in Candidate /\ Grows(e, d)
    <3> HIDE DEF e, input
    <3> QED BY <1>2, <2>1, SolverStageType, SolverCounts, AttemptsGrow
  <2> HIDE DEF x, e, d, input
  <2> QED BY <1>1, <1>2, <1>3, <1>4, <2>2, GrowsTransitive
<1>5. CASE ~ (x.state = "SOLVING" /\ input # None)
  <2> HIDE DEF x, d, input
  <2> QED BY <1>1, <1>3, <1>5
<1> QED BY <1>4, <1>5
=============================================================================
