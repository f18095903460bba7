----------------------- MODULE CandidateLifecycle_proofs -----------------------
(***************************************************************************)
(* The invariants of one Candidate, for every configuration, every retry   *)
(* policy and every sequence of agent outputs, redelivered ones and        *)
(* crashes included.  Four arguments, each about one command:              *)
(*                                                                         *)
(* Budgets.  A Candidate that is not in MANUAL_REVIEW enters a command     *)
(* with every count within its limit (Within); record_stage_failure is     *)
(* called at most once, adds one to one count, and leaves through          *)
(* MANUAL_REVIEW, naming that count, if that was one too many (Overrun).   *)
(* Nothing else touches a count.                                           *)
(*                                                                         *)
(* Evidence.  Nothing outdated stays on the record, an accepted item is    *)
(* one that three validated outputs about it agree on, and a PASS is       *)
(* final: from the effects of the stages follows that a command keeps      *)
(* Evidence, provided the save accepts what it made.                       *)
(*                                                                         *)
(* Attempts.  Asking the Generator opens an account (Asked) that its       *)
(* output settles, as an attempt or as a counted failure (Accounted).      *)
(*                                                                         *)
(* Saves.  With outputs about this Candidate the save accepts what every   *)
(* command made, and the failure it was shown has been counted.            *)
(***************************************************************************)
EXTENDS CandidateLifecycle, CandidateOps_proofs

-----------------------------------------------------------------------------
(* Type correctness. *)

\* Every record the drivers persist is a Candidate of the declared shape,
\* whatever the agents supply.
THEOREM TypeCorrect == Spec => []TypeOK
<1>1. Init => TypeOK
  <2> SUFFICES ASSUME Init PROVE TypeOK
    OBVIOUS
  <2>1. PICK b \in GeneratorBodies, crash \in BOOLEAN :
          /\ candidate = NewCandidate(b, crash)
          /\ refused = FALSE
          /\ supplied = [p \in FailureKinds \X RETRY_STAGES |->
                     IF p = <<StageOutcome(b, crash), "generator">> THEN 1 ELSE 0]
    BY DEF Init
  <2>2. candidate \in Candidate
    BY <2>1, NewType, BodiesAssumption
  <2>3. supplied \in [FailureKinds \X RETRY_STAGES -> Nat]
    <3> DEFINE q == <<StageOutcome(b, crash), "generator">>
    <3>1. supplied = [p \in FailureKinds \X RETRY_STAGES |-> IF p = q THEN 1 ELSE 0]
      BY <2>1
    <3> HIDE DEF q
    <3> QED BY <3>1
  <2> QED BY <2>1, <2>2, <2>3 DEF TypeOK
<1>2. ASSUME TypeOK, NEW new \in Candidate, Save(new)
      PROVE  candidate' \in Candidate /\ refused' \in BOOLEAN
  BY <1>2 DEF Save, TypeOK
<1>3. ASSUME TypeOK, NEW body, NEW crash \in BOOLEAN, NEW stage \in RETRY_STAGES,
             Supply(body, crash, stage)
      PROVE  supplied' \in [FailureKinds \X RETRY_STAGES -> Nat]
  <2> DEFINE p == <<StageOutcome(body, crash), stage>>
  <2>1. CASE StageOutcome(body, crash) \in FailureKinds
    <3>1. p \in FailureKinds \X RETRY_STAGES /\ supplied[p] \in Nat
      BY <1>3, <2>1 DEF TypeOK
    <3>2. supplied' = [supplied EXCEPT ![p] = supplied[p] + 1]
      BY <1>3, <2>1 DEF Supply
    <3> HIDE DEF p
    <3> QED BY <1>3, <3>1, <3>2 DEF TypeOK
  <2>2. CASE StageOutcome(body, crash) \notin FailureKinds
    BY <1>3, <2>2 DEF Supply, TypeOK
  <2> QED BY <2>1, <2>2
<1>4. TypeOK /\ [Next]_vars => TypeOK'
  <2> SUFFICES ASSUME TypeOK, [Next]_vars PROVE TypeOK'
    OBVIOUS
  <2> USE BodiesAssumption
  <2>1. CASE ApplyReview
    <3>1. PICK out \in ReviewOutputs, crash \in BOOLEAN :
            /\ Supply(out.body, crash, "reviewer")
            /\ Save(ReviewCandidate(candidate, out, crash))
      BY <2>1 DEF ApplyReview
    <3>2. out \in ReviewerItem
      <4>1. candidate.generator_item.ver \in Nat
            /\ \A h \in candidate.review_history : h.output \in ReviewerItem
        BY DEF TypeOK, Candidate, GeneratorItem
      <4> QED BY <4>1 DEF ReviewOutputs, ReviewerItem
    <3> QED BY <1>2, <1>3, <3>1, <3>2, ReviewCandidateType DEF TypeOK, RETRY_STAGES
  <2>2. CASE ApplyRevision
    <3>1. PICK b \in GeneratorBodies, crash \in BOOLEAN :
            /\ Supply(b, crash, "generator")
            /\ Save(ReviseCandidate(candidate, b, crash))
      BY <2>2 DEF ApplyRevision
    <3> QED BY <1>2, <1>3, <3>1, ReviseCandidateType DEF TypeOK, RETRY_STAGES
  <2>3. CASE PrepareSolverBatch
    BY <1>2, <2>3, PrepareCandidateType DEF PrepareSolverBatch, TypeOK
  <2>4. CASE ApplySolver
    <3>1. PICK b \in SolverBodies, crash \in BOOLEAN :
            /\ Supply(b, crash, "solver")
            /\ Save(SolveCandidate(candidate, [body |-> b, of |-> candidate.solver_input],
                                   crash, KeepSolverOutput))
      BY <2>4 DEF ApplySolver
    <3>2. candidate.solver_input \in Nat
      BY <2>4 DEF ApplySolver, TypeOK, Candidate
    <3>3. [body |-> b, of |-> candidate.solver_input] \in SolverItem
      BY <3>2 DEF SolverItem
    <3> QED BY <1>2, <1>3, <3>1, <3>3, SolveCandidateType DEF TypeOK, RETRY_STAGES
  <2>5. CASE UNCHANGED vars
    BY <2>5 DEF vars, TypeOK
  <2> QED BY <2>1, <2>2, <2>3, <2>4, <2>5 DEF Next
<1> QED BY <1>1, <1>4, PTL DEF Spec

-----------------------------------------------------------------------------
(* Budgets.                                                                 *)

Within(c) ==
  \A kind \in FailureKinds, stage \in RETRY_STAGES :
    RetryCount(c, kind, stage) <= retry_limit(kind)

\* One count is one over, and the record says which.
Overrun(c) ==
  \E kind \in FailureKinds, stage \in RETRY_STAGES :
    /\ RetryCount(c, kind, stage) = retry_limit(kind) + 1
    /\ \A k \in FailureKinds, s \in RETRY_STAGES :
         <<k, s>> # <<kind, stage>> => RetryCount(c, k, s) <= retry_limit(k)
    /\ c.state \in {"MANUAL_REVIEW", Raised}
    /\ c.failure = [kind |-> kind, stage |-> stage]

LEMMA LimitType ==
  ASSUME NEW kind \in FailureKinds
  PROVE  retry_limit(kind) \in Nat
BY ConfigAssumption DEF retry_limit

LEMMA SameWithin ==
  ASSUME NEW c, NEW d, SameCounts(c, d), Within(c)
  PROVE  Within(d)
BY DEF SameCounts, Within, RetryCount

LEMMA FailureOverruns ==
  ASSUME NEW c \in Candidate, NEW kind \in FailureKinds, NEW stage \in RETRY_STAGES,
         Within(c)
  PROVE  LET d == record_stage_failure(c, kind, stage) IN Within(d) \/ Overrun(d)
<1> DEFINE count == RetryCount(c, kind, stage) + 1
           sys == IF kind = "system"
                  THEN [c.system_failure_retries EXCEPT ![stage] = count]
                  ELSE c.system_failure_retries
           val == IF kind = "content"
                  THEN [c.validation_failure_retries EXCEPT ![stage] = count]
                  ELSE c.validation_failure_retries
           fail == [kind |-> kind, stage |-> stage]
           d == [c EXCEPT !.system_failure_retries = sys,
                          !.validation_failure_retries = val,
                          !.failure = fail]
           failed == transition(d, FailedStateOf(kind))
           last == transition(failed, "MANUAL_REVIEW")
           result == IF count > retry_limit(kind) THEN last ELSE failed
<1>1. count \in Nat /\ retry_limit(kind) \in Nat /\ count <= retry_limit(kind) + 1
  <2>1. RetryCount(c, kind, stage) \in Nat
    BY DEF RetryCount, Candidate, Retries
  <2>2. RetryCount(c, kind, stage) <= retry_limit(kind)
    BY DEF Within
  <2> QED BY <2>1, <2>2, LimitType
<1>2. sys \in Retries /\ val \in Retries
  <2> HIDE DEF count
  <2> QED BY <1>1 DEF Candidate, Retries
<1>3. /\ d \in Candidate
      /\ d.system_failure_retries = sys
      /\ d.validation_failure_retries = val
      /\ d.failure = fail
  <2>1. fail \in Failure
    BY DEF Failure
  <2> HIDE DEF sys, val, fail
  <2> QED BY <1>2, <2>1 DEF Candidate
<1>4. /\ RetryCount(d, kind, stage) = count
      /\ \A k \in FailureKinds, s \in RETRY_STAGES :
           <<k, s>> # <<kind, stage>> => RetryCount(d, k, s) = RetryCount(c, k, s)
  <2>1. c.system_failure_retries \in Retries /\ c.validation_failure_retries \in Retries
    BY DEF Candidate
  <2> HIDE DEF d, count
  <2> QED BY <1>3, <2>1 DEF RetryCount, Retries, FailureKinds
<1>5. /\ failed \in Candidate
      /\ failed.failure = fail
      /\ SameCounts(d, failed)
  <2>1. FailedStateOf(kind) \in VALID_STATES
    BY DEF FailedStateOf, VALID_STATES, FailedStates
  <2> HIDE DEF d, fail
  <2> QED BY <1>3, <2>1, TransitionType, TransitionFields
<1>6. /\ last.state \in {"MANUAL_REVIEW", Raised}
      /\ last.failure = fail
      /\ SameCounts(d, last)
  <2>1. "MANUAL_REVIEW" \in VALID_STATES
    BY DEF VALID_STATES, TERMINAL_STATES
  <2> HIDE DEF d, failed, fail
  <2> QED BY <1>5, <2>1, TransitionFields DEF SameCounts
<1>7. \A k \in FailureKinds, s \in RETRY_STAGES :
        /\ RetryCount(failed, k, s) = RetryCount(d, k, s)
        /\ RetryCount(last, k, s) = RetryCount(d, k, s)
  <2> HIDE DEF d, failed, last
  <2> QED BY <1>5, <1>6 DEF SameCounts, RetryCount
<1>8. CASE count > retry_limit(kind)
  <2>1. /\ RetryCount(last, kind, stage) = retry_limit(kind) + 1
        /\ \A k \in FailureKinds, s \in RETRY_STAGES :
             <<k, s>> # <<kind, stage>> => RetryCount(last, k, s) <= retry_limit(k)
    <3> HIDE DEF count, d, last, failed
    <3> QED BY <1>1, <1>4, <1>7, <1>8 DEF Within
  <2>2. Overrun(last)
    <3> HIDE DEF last
    <3> QED BY <2>1, <1>6 DEF Overrun
  <2>3. record_stage_failure(c, kind, stage) = last
    BY <1>8 DEF record_stage_failure, FailWith
  <2> QED BY <2>2, <2>3
<1>9. CASE ~ (count > retry_limit(kind))
  <2>1. Within(failed)
    <3> HIDE DEF count, d, last, failed
    <3> QED BY <1>1, <1>4, <1>7, <1>9 DEF Within
  <2>2. record_stage_failure(c, kind, stage) = failed
    BY <1>9 DEF record_stage_failure, FailWith
  <2> QED BY <2>1, <2>2
<1> QED BY <1>8, <1>9

LEMMA RetryWithin ==
  ASSUME NEW c \in Candidate, NEW s \in RETRY_STAGES, FailedAt(c, s), Within(c)
  PROVE  Within(retry_failed_stage(c))
<1> DEFINE stage == c.failure.stage
           armed == transition(c, STAGE_RETRY_STATES[stage])
           rItem == IF stage = "generator" THEN None ELSE armed.reviewer_item
           rInput == IF stage = "generator" THEN None ELSE armed.reviewer_input
           sInput == IF stage = "solver" THEN armed.solver_input ELSE None
           leak == IF stage = "solver" THEN armed.leakage_check ELSE None
           d == [armed EXCEPT !.failure = None, !.reviewer_item = rItem,
                   !.reviewer_input = rInput, !.solver_item = None,
                   !.solver_input = sInput, !.leakage_check = leak, !.consensus = None]
<1>1. c.failure.kind \in FailureKinds /\ stage = s
  BY DEF FailedAt, Candidate, Failure
<1>2. ~ (RetryCount(c, c.failure.kind, stage) > retry_limit(c.failure.kind))
  <2>1. RetryCount(c, c.failure.kind, s) \in Nat
    BY <1>1 DEF RetryCount, Candidate, Retries
  <2>2. RetryCount(c, c.failure.kind, s) <= retry_limit(c.failure.kind)
    BY <1>1 DEF Within
  <2> QED BY <1>1, <2>1, <2>2, LimitType
<1>3. STAGE_RETRY_STATES[s] \in VALID_STATES
  BY DEF STAGE_RETRY_STATES, RETRY_STAGES, VALID_STATES
<1>4. armed \in Candidate /\ SameCounts(c, armed)
  BY <1>1, <1>3, TransitionType, TransitionFields
<1>5. SameCounts(armed, d)
  <2> HIDE DEF armed, rItem, rInput, sInput, leak
  <2> QED BY <1>4 DEF Candidate, SameCounts
<1>6. retry_failed_stage(c) = d
  BY <1>2 DEF retry_failed_stage
<1> HIDE DEF armed, d
<1> QED BY <1>4, <1>5, <1>6, SameWithin

-----------------------------------------------------------------------------
(* Budgets: the stages record at most one failure.                         *)

Fine(c) == Within(c) \/ Overrun(c)

LEMMA SameFine ==
  ASSUME NEW c, NEW d, SameCounts(c, d), c.state = d.state, c.failure = d.failure,
         Fine(c)
  PROVE  Fine(d)
<1>1. \A k, s : RetryCount(d, k, s) = RetryCount(c, k, s)
  BY DEF SameCounts, RetryCount
<1> QED BY <1>1 DEF Fine, Within, Overrun

LEMMA FailureFine ==
  ASSUME NEW c \in Candidate, NEW kind \in FailureKinds, NEW stage \in RETRY_STAGES,
         Within(c)
  PROVE  Fine(record_stage_failure(c, kind, stage))
BY FailureOverruns DEF Fine

LEMMA GenerationFine ==
  ASSUME NEW c \in Candidate, NEW crash \in BOOLEAN, Within(c)
  PROVE  Fine(process_generation_output(c, crash))
<1> DEFINE outcome == StageOutcome(c.generator_item.body, crash)
           t == transition(c, "REVIEWING")
           input == canonical_input(c.generator_item)
           d == [t EXCEPT !.failure = None, !.reviewer_input = input]
<1>1. t \in Candidate /\ SameCounts(c, t)
  BY TransitionType, TransitionFields DEF VALID_STATES
<1>2. SameCounts(c, d)
  <2> HIDE DEF t, input
  <2> QED BY <1>1 DEF Candidate, SameCounts
<1>3. Fine(d)
  <2> HIDE DEF d
  <2> QED BY <1>2, SameWithin DEF Fine
<1>4. outcome \in FailureKinds => Fine(record_stage_failure(c, outcome, "generator"))
  <2> HIDE DEF outcome
  <2> QED BY FailureFine DEF RETRY_STAGES
<1>5. process_generation_output(c, crash) =
        IF outcome \in FailureKinds THEN record_stage_failure(c, outcome, "generator") ELSE d
  BY DEF process_generation_output
<1> HIDE DEF d, outcome
<1> QED BY <1>3, <1>4, <1>5

LEMMA ApplyGenerationFine ==
  ASSUME NEW c \in Candidate, NEW body \in GeneratorBody, NEW crash \in BOOLEAN,
         Within(c)
  PROVE  Fine(apply_generation_result(c, body, crash))
<1> DEFINE n == c.generation_history + 1
           item == [body |-> body, ver |-> n]
           d == [c EXCEPT !.generator_item = item, !.generation_history = n]
<1>1. n \in Nat /\ item \in GeneratorItem
  BY DEF Candidate, GeneratorItem
<1>2. d \in Candidate /\ SameCounts(c, d)
  <2> HIDE DEF n, item
  <2> QED BY <1>1 DEF Candidate, SameCounts
<1>3. apply_generation_result(c, body, crash) = process_generation_output(d, crash)
  BY DEF apply_generation_result
<1> HIDE DEF d
<1> QED BY <1>2, <1>3, SameWithin, GenerationFine

LEMMA ReviewFine ==
  ASSUME NEW c \in Candidate, c.reviewer_item # None, NEW crash \in BOOLEAN, Within(c)
  PROVE  Fine(process_review_output(c, crash))
<1> DEFINE outcome == StageOutcome(c.reviewer_item.body, crash)
           input == canonical_input(c.generator_item)
           armed == [c EXCEPT !.reviewer_input = input]
           verdict == armed.reviewer_item.body.verdict
           count == armed.revision_count + 1
           target == CASE verdict = "PASS"   -> "SOLVING"
                       [] verdict = "REJECT" -> "REJECTED"
                       [] OTHER -> IF count > MaxRevisionCycles
                                   THEN "DISCARDED" ELSE "REVISE_REQUIRED"
           t == transition(armed, target)
           rev == IF verdict = "REVISE" THEN count ELSE t.revision_count
           note == (target = "DISCARDED")
           d == [t EXCEPT !.failure = None, !.revision_count = rev,
                          !.discard_note = note]
<1>1. armed \in Candidate /\ SameCounts(c, armed)
  <2>1. input \in Nat
    BY DEF canonical_input, Candidate, GeneratorItem
  <2> HIDE DEF input
  <2> QED BY <2>1 DEF Candidate, SameCounts
<1>2. target \in VALID_STATES
  <2> HIDE DEF verdict, count
  <2> QED BY DEF VALID_STATES, TERMINAL_STATES
<1>3. t \in Candidate /\ SameCounts(armed, t)
  <2> HIDE DEF armed, target
  <2> QED BY <1>1, <1>2, TransitionType, TransitionFields
<1>4. SameCounts(c, d)
  <2> HIDE DEF armed, t, rev, note
  <2> QED BY <1>1, <1>3 DEF Candidate, SameCounts
<1>5. RouteVerdict(armed) = d
  <2>1. t.revision_count = armed.revision_count
    <3> HIDE DEF armed, target
    <3> QED BY <1>1 DEF transition, Candidate
  <2> HIDE DEF armed
  <2> QED BY <2>1 DEF RouteVerdict
<1>6. Fine(d)
  <2> HIDE DEF d
  <2> QED BY <1>4, SameWithin DEF Fine
<1>7. Fine(record_stage_failure(c, "content", "reviewer"))
  BY FailureFine DEF FailureKinds, RETRY_STAGES
<1>8. outcome \in FailureKinds => Fine(record_stage_failure(armed, outcome, "reviewer"))
  <2> HIDE DEF outcome, armed
  <2> QED BY <1>1, SameWithin, FailureFine DEF RETRY_STAGES
<1>9. process_review_output(c, crash) =
        IF ReviewInputMismatch(c) THEN record_stage_failure(c, "content", "reviewer")
        ELSE IF outcome \in FailureKinds
        THEN record_stage_failure(armed, outcome, "reviewer") ELSE RouteVerdict(armed)
  BY DEF process_review_output
<1> HIDE DEF d, armed, outcome
<1> QED BY <1>5, <1>6, <1>7, <1>8, <1>9

LEMMA ApplyReviewFine ==
  ASSUME NEW c \in Candidate, NEW out \in ReviewerItem, NEW crash \in BOOLEAN, Within(c)
  PROVE  Fine(apply_review_result(c, out, crash))
<1> DEFINE b == [c EXCEPT !.reviewer_item = out]
           d == process_review_output(b, crash)
           rh == d.review_history \cup {[output |-> out, routed_state |-> d.state]}
           e == [d EXCEPT !.review_history = rh]
<1>1. b \in Candidate /\ b.reviewer_item # None /\ SameCounts(c, b)
  BY NoneAssumption DEF Candidate, SameCounts
<1>2. d \in Candidate /\ Fine(d)
  <2> HIDE DEF b
  <2> QED BY <1>1, SameWithin, ReviewFine, ReviewType
<1>3. SameCounts(d, e) /\ d.state = e.state /\ d.failure = e.failure
  <2> HIDE DEF d, rh
  <2> QED BY <1>2 DEF Candidate, SameCounts
<1>4. apply_review_result(c, out, crash) = e
  BY DEF apply_review_result
<1> HIDE DEF d, e
<1> QED BY <1>2, <1>3, <1>4, SameFine

LEMMA PrepareFine ==
  ASSUME NEW c \in Candidate, Within(c)
  PROVE  Fine(prepare_solver_input(c))
<1> DEFINE ver == canonical_input(c.generator_item)
           good == [c EXCEPT !.solver_input = ver, !.leakage_check = "ok"]
           bare == [c EXCEPT !.solver_input = None, !.leakage_check = "ok"]
<1>1. bare \in Candidate /\ SameCounts(c, good) /\ SameCounts(c, bare)
  <2> HIDE DEF ver
  <2> QED BY DEF Candidate, SameCounts
<1>2. Fine(good)
  <2> HIDE DEF good
  <2> QED BY <1>1, SameWithin DEF Fine
<1>3. Fine(record_stage_failure(bare, "content", "solver"))
  <2> HIDE DEF bare
  <2> QED BY <1>1, SameWithin, FailureFine DEF FailureKinds, RETRY_STAGES
<1> QED BY <1>2, <1>3 DEF prepare_solver_input

LEMMA SolverFine ==
  ASSUME NEW c \in Candidate, NEW out \in SolverItem, NEW input \in Nat,
         NEW crash \in BOOLEAN, Within(c)
  PROVE  Fine(process_solver_stage(c, out, input, crash))
<1> DEFINE outcome == StageOutcome(out.body, crash)
           guarded == [c EXCEPT !.solver_input = input, !.leakage_check = "ok"]
           bare == [c EXCEPT !.solver_input = None]
           result == evaluate_consensus(c.generator_item.body, c.reviewer_item.body, out.body)
           t == transition(guarded, result.routing)
           policy == IF result.routing = "ACCEPTED" THEN acceptance_policy_record ELSE None
           decided == [t EXCEPT !.solver_item = out, !.failure = None,
                                !.consensus = result, !.acceptance_policy = policy]
<1>1. /\ guarded \in Candidate /\ SameCounts(c, guarded)
      /\ bare \in Candidate /\ SameCounts(c, bare)
  BY DEF Candidate, SameCounts
<1>2. t \in Candidate /\ SameCounts(guarded, t)
  <2> HIDE DEF guarded, result
  <2>1. result.routing \in VALID_STATES
    BY ConsensusType DEF result, Consensus, VALID_STATES, TERMINAL_STATES
  <2> QED BY <1>1, <2>1, TransitionType, TransitionFields
<1>3. SameCounts(c, decided)
  <2> HIDE DEF guarded, t, result, policy
  <2> QED BY <1>1, <1>2 DEF Candidate, SameCounts
<1>4. Fine(decided)
  <2> HIDE DEF decided
  <2> QED BY <1>3, SameWithin DEF Fine
<1>5. /\ Fine(record_stage_failure(c, "content", "generator"))
      /\ Fine(record_stage_failure(c, "content", "reviewer"))
      /\ Fine(record_stage_failure(bare, "content", "solver"))
  <2> HIDE DEF bare
  <2> QED BY <1>1, SameWithin, FailureFine DEF FailureKinds, RETRY_STAGES
<1>6. outcome \in FailureKinds => Fine(record_stage_failure(guarded, outcome, "solver"))
  <2> HIDE DEF guarded, outcome
  <2> QED BY <1>1, SameWithin, FailureFine DEF RETRY_STAGES
<1>7. process_solver_stage(c, out, input, crash) =
        IF ~ c.generator_item.body.ident THEN record_stage_failure(c, "content", "generator")
        ELSE IF ~ c.reviewer_item.body.ident THEN record_stage_failure(c, "content", "reviewer")
        ELSE IF input # canonical_input(c.generator_item)
        THEN record_stage_failure(bare, "content", "solver")
        ELSE IF outcome \in FailureKinds
        THEN record_stage_failure(guarded, outcome, "solver")
        ELSE decided
  BY DEF process_solver_stage
<1> HIDE DEF bare, guarded, decided, outcome
<1> QED BY <1>4, <1>5, <1>6, <1>7

-----------------------------------------------------------------------------
(* Budgets: the commands.                                                  *)

LEMMA ReviewCandidateFine ==
  ASSUME NEW c \in Candidate, NEW out \in ReviewerItem, NEW crash \in BOOLEAN, Within(c)
  PROVE  Fine(ReviewCandidate(c, out, crash))
<1> DEFINE d == IF FailedAt(c, "reviewer") THEN retry_failed_stage(c) ELSE c
<1>1. d \in Candidate /\ Within(d)
  BY RetryType, RetryWithin DEF FailedAt, RETRY_STAGES
<1>2. Fine(d) /\ Fine(apply_review_result(d, out, crash))
  <2> HIDE DEF d
  <2> QED BY <1>1, ApplyReviewFine DEF Fine
<1>3. ReviewCandidate(c, out, crash) =
        IF d.state = "REVIEWING" THEN apply_review_result(d, out, crash) ELSE d
  BY DEF ReviewCandidate
<1> HIDE DEF d
<1> QED BY <1>2, <1>3

LEMMA ReviseCandidateFine ==
  ASSUME NEW c \in Candidate, NEW body \in GeneratorBody, NEW crash \in BOOLEAN, Within(c)
  PROVE  Fine(ReviseCandidate(c, body, crash))
<1> DEFINE t == transition(c, "GENERATED")
           n == t.generation_attempt + 1
           b == [t EXCEPT !.reviewer_item = None, !.reviewer_input = None,
                   !.solver_item = None, !.solver_input = None, !.leakage_check = None,
                   !.consensus = None, !.failure = None, !.generation_attempt = n]
           d == IF FailedAt(c, "generator") THEN retry_failed_stage(c) ELSE begin_revision(c)
<1>1. t \in Candidate /\ SameCounts(c, t)
  BY TransitionType, TransitionFields DEF VALID_STATES
<1>2. begin_revision(c) \in Candidate /\ begin_revision(c) = b
  <2>1. begin_revision(c) = b
    BY DEF begin_revision
  <2>2. n \in Nat
    <3> HIDE DEF t
    <3> QED BY <1>1 DEF Candidate
  <2>3. b \in Candidate
    <3> HIDE DEF t, n
    <3> QED BY <1>1, <2>2 DEF Candidate
  <2> QED BY <2>1, <2>3
<1>3. SameCounts(c, b)
  <2> HIDE DEF t, n
  <2> QED BY <1>1 DEF Candidate, SameCounts
<1>4. d \in Candidate /\ Within(d)
  <2> HIDE DEF b
  <2> QED BY <1>2, <1>3, SameWithin, RetryType, RetryWithin DEF FailedAt, RETRY_STAGES
<1>5. ReviseCandidate(c, body, crash) = apply_generation_result(d, body, crash)
  BY DEF ReviseCandidate
<1> HIDE DEF d
<1> QED BY <1>4, <1>5, ApplyGenerationFine

LEMMA PrepareCandidateFine ==
  ASSUME NEW c \in Candidate, Within(c)
  PROVE  Fine(PrepareCandidate(c))
<1> DEFINE d == IF FailedAt(c, "solver") THEN retry_failed_stage(c) ELSE c
<1>1. d \in Candidate /\ Within(d)
  BY RetryType, RetryWithin DEF FailedAt, RETRY_STAGES
<1>2. PrepareCandidate(c) = IF d.state = "SOLVING" THEN prepare_solver_input(d) ELSE d
  BY DEF PrepareCandidate
<1> HIDE DEF d
<1> QED BY <1>1, <1>2, PrepareFine DEF Fine

LEMMA SolveCandidateFine ==
  ASSUME NEW c \in Candidate, NEW out \in SolverItem, NEW crash \in BOOLEAN,
         NEW keep \in BOOLEAN, Within(c)
  PROVE  Fine(SolveCandidate(c, out, crash, keep))
<1> DEFINE d == IF FailedAt(c, "solver") /\ c.solver_input # None
                THEN retry_failed_stage(c) ELSE c
           e == IF keep THEN [d EXCEPT !.solver_item = out] ELSE d
<1>1. d \in Candidate /\ Within(d)
  BY RetryType, RetryWithin DEF FailedAt, RETRY_STAGES
<1>2. e \in Candidate /\ Within(e)
  <2>1. e \in Candidate /\ SameCounts(d, e)
    <3> HIDE DEF d
    <3> QED BY <1>1 DEF Candidate, SameCounts
  <2> HIDE DEF d, e
  <2> QED BY <1>1, <2>1, SameWithin
<1>3. d.solver_input # None => d.solver_input \in Nat
  <2> HIDE DEF d
  <2> QED BY <1>1 DEF Candidate
<1>4. SolveCandidate(c, out, crash, keep) =
        IF d.state = "SOLVING" /\ d.solver_input # None
        THEN process_solver_stage(e, out, d.solver_input, crash) ELSE d
  BY DEF SolveCandidate
<1> HIDE DEF d, e
<1> QED BY <1>1, <1>2, <1>3, <1>4, SolverFine DEF Fine

-----------------------------------------------------------------------------
(* Budgets: the theorem.                                                   *)

LEMMA BudgetsWithin ==
  ASSUME TypeOK, RetryBudgets, candidate.state # "MANUAL_REVIEW"
  PROVE  Within(candidate)
<1> SUFFICES ASSUME NEW kind \in FailureKinds, NEW stage \in RETRY_STAGES
             PROVE  RetryCount(candidate, kind, stage) <= retry_limit(kind)
  BY DEF Within
<1>1. RetryCount(candidate, kind, stage) \in Nat
  BY DEF TypeOK, Candidate, Retries, RetryCount
<1>2. ~ (RetryCount(candidate, kind, stage) > retry_limit(kind))
  BY DEF RetryBudgets, Count
<1> QED BY <1>1, <1>2, LimitType

LEMMA FineBudgets ==
  ASSUME NEW c \in Candidate, Fine(c), c.state # Raised,
         NEW kind \in FailureKinds, NEW stage \in RETRY_STAGES
  PROVE  /\ RetryCount(c, kind, stage) <= retry_limit(kind) + 1
         /\ RetryCount(c, kind, stage) > retry_limit(kind) =>
              /\ c.state = "MANUAL_REVIEW"
              /\ c.failure = [kind |-> kind, stage |-> stage]
<1>1. RetryCount(c, kind, stage) \in Nat
  BY DEF Candidate, Retries, RetryCount
<1>2. CASE Within(c)
  BY <1>1, <1>2, LimitType DEF Within
<1>3. CASE Overrun(c)
  <2>1. PICK k \in FailureKinds, s \in RETRY_STAGES :
          /\ RetryCount(c, k, s) = retry_limit(k) + 1
          /\ \A kk \in FailureKinds, ss \in RETRY_STAGES :
               <<kk, ss>> # <<k, s>> => RetryCount(c, kk, ss) <= retry_limit(kk)
          /\ c.state \in {"MANUAL_REVIEW", Raised}
          /\ c.failure = [kind |-> k, stage |-> s]
    BY <1>3 DEF Overrun
  <2>2. CASE k = kind /\ s = stage
    BY <2>1, <2>2, LimitType
  <2>3. CASE ~ (k = kind /\ s = stage)
    BY <1>1, <2>1, <2>3, LimitType
  <2> QED BY <2>2, <2>3
<1> QED BY <1>2, <1>3 DEF Fine

\* A command that saves what the operators produce keeps the budgets.
LEMMA SaveBudgets ==
  ASSUME TypeOK, RetryBudgets, NEW new \in Candidate, Fine(new), Save(new)
  PROVE  RetryBudgets'
<1>1. CASE ~ validate_candidate_invariants(new)
  <2>1. candidate' = candidate
    BY <1>1 DEF Save
  <2> QED BY <2>1 DEF RetryBudgets, Count
<1>2. CASE validate_candidate_invariants(new)
  <2>1. candidate' = new
    BY <1>2 DEF Save
  <2>2. new.state # Raised
    BY <1>2 DEF validate_candidate_invariants, VALID_STATES, FailedStates,
                TERMINAL_STATES, Raised
  <2> QED BY <2>1, <2>2, FineBudgets DEF RetryBudgets, Count
<1> QED BY <1>1, <1>2

\* The Generator stage starts from GENERATED, where no move can raise.
LEMMA GenerationDoesNotRaise ==
  ASSUME NEW c \in Candidate, NEW body \in GeneratorBody, NEW crash \in BOOLEAN,
         c.state = "GENERATED"
  PROVE  apply_generation_result(c, body, crash).state # Raised
<1> DEFINE n == c.generation_history + 1
           item == [body |-> body, ver |-> n]
           d == [c EXCEPT !.generator_item = item, !.generation_history = n]
           outcome == StageOutcome(d.generator_item.body, crash)
           input == canonical_input(d.generator_item)
           t == transition(d, "REVIEWING")
           e == [t EXCEPT !.failure = None, !.reviewer_input = input]
<1>1. n \in Nat /\ item \in GeneratorItem
  BY DEF Candidate, GeneratorItem
<1>2. d \in Candidate /\ d.state = "GENERATED"
  <2> HIDE DEF n, item
  <2> QED BY <1>1 DEF Candidate
<1>3. e.state = "REVIEWING"
  <2>1. t \in Candidate /\ t.state = "REVIEWING"
    <3> HIDE DEF d
    <3>1. t \in Candidate
      BY <1>2, TransitionType DEF VALID_STATES
    <3>2. "REVIEWING" \in ALLOWED_TRANSITIONS["GENERATED"] /\ "GENERATED" \in VALID_STATES
      BY DEF ALLOWED_TRANSITIONS, VALID_STATES
    <3>3. t.state = "REVIEWING"
      BY <1>2, <3>2 DEF transition, Candidate
    <3> QED BY <3>1, <3>3
  <2> HIDE DEF t, input
  <2> QED BY <2>1 DEF Candidate
<1>4. ASSUME NEW kind \in FailureKinds
      PROVE  record_stage_failure(d, kind, "generator").state # Raised
  <2> DEFINE count == RetryCount(d, kind, "generator") + 1
             sys == IF kind = "system"
                    THEN [d.system_failure_retries EXCEPT !["generator"] = count]
                    ELSE d.system_failure_retries
             val == IF kind = "content"
                    THEN [d.validation_failure_retries EXCEPT !["generator"] = count]
                    ELSE d.validation_failure_retries
             fail == [kind |-> kind, stage |-> "generator"]
             f == [d EXCEPT !.system_failure_retries = sys,
                            !.validation_failure_retries = val,
                            !.failure = fail]
             failed == transition(f, FailedStateOf(kind))
             last == transition(failed, "MANUAL_REVIEW")
  <2>1. count \in Nat
    <3> HIDE DEF d
    <3> QED BY <1>2 DEF RetryCount, Candidate, Retries, RETRY_STAGES
  <2>2. sys \in Retries /\ val \in Retries /\ fail \in Failure
    <3> HIDE DEF d, count
    <3> QED BY <1>2, <2>1 DEF Candidate, Retries, RETRY_STAGES, Failure
  <2>3. f \in Candidate /\ f.state = "GENERATED"
    <3> HIDE DEF d, sys, val, fail
    <3> QED BY <1>2, <2>2 DEF Candidate
  <2>4. failed \in Candidate /\ failed.state = FailedStateOf(kind)
    <3> HIDE DEF f
    <3>1. FailedStateOf(kind) \in ALLOWED_TRANSITIONS["GENERATED"]
          /\ "GENERATED" \in VALID_STATES /\ FailedStateOf(kind) \in VALID_STATES
      BY DEF ALLOWED_TRANSITIONS, VALID_STATES, FailedStateOf, FailedStates
    <3>2. failed \in Candidate
      BY <2>3, <3>1, TransitionType
    <3>3. failed.state = FailedStateOf(kind)
      BY <2>3, <3>1 DEF transition, Candidate
    <3> QED BY <3>2, <3>3
  <2>5. last.state = "MANUAL_REVIEW"
    <3> HIDE DEF failed
    <3>1. "MANUAL_REVIEW" \in ALLOWED_TRANSITIONS[FailedStateOf(kind)]
          /\ FailedStateOf(kind) \in VALID_STATES
      BY DEF ALLOWED_TRANSITIONS, VALID_STATES, FailedStateOf, FailedStates
    <3> QED BY <2>4, <3>1 DEF transition, Candidate
  <2>6. record_stage_failure(d, kind, "generator") \in {failed, last}
    BY DEF record_stage_failure, FailWith
  <2>7. FailedStateOf(kind) # Raised /\ "MANUAL_REVIEW" # Raised
    BY DEF FailedStateOf, Raised
  <2> HIDE DEF failed, last
  <2> QED BY <2>4, <2>5, <2>6, <2>7
<1>5. apply_generation_result(c, body, crash) =
        IF outcome \in FailureKinds THEN record_stage_failure(d, outcome, "generator") ELSE e
  BY DEF apply_generation_result, process_generation_output
<1>6. "REVIEWING" # Raised
  BY DEF Raised
<1> HIDE DEF d, e, outcome
<1> QED BY <1>3, <1>4, <1>5, <1>6

\* RetryBudgets: whatever the limits, no budget is exceeded by more than the
\* one failure that routed the Candidate to MANUAL_REVIEW.
THEOREM BudgetsHold == Spec => []RetryBudgets
<1>1. Init => RetryBudgets
  <2> SUFFICES ASSUME Init PROVE RetryBudgets
    OBVIOUS
  <2>1. PICK b \in GeneratorBodies, crash \in BOOLEAN : candidate = NewCandidate(b, crash)
    BY DEF Init
  <2> DEFINE item == [body |-> b, ver |-> 0]
             zero == [s \in RETRY_STAGES |-> 0]
             blank ==
    [state |-> "GENERATED", generation_attempt |-> 1, revision_count |-> 0,
     system_failure_retries |-> zero, validation_failure_retries |-> zero,
     generator_item |-> item,
     reviewer_item |-> None, reviewer_input |-> None,
     solver_item |-> None, solver_input |-> None, leakage_check |-> None,
     consensus |-> None, acceptance_policy |-> None, failure |-> None,
     discard_note |-> FALSE, generation_history |-> 0, review_history |-> {}]
  <2>2. item \in GeneratorItem /\ zero \in Retries /\ b \in GeneratorBody
    BY BodiesAssumption DEF GeneratorItem, Retries
  <2>3. blank \in Candidate
    <3> HIDE DEF item, zero
    <3> QED BY <2>2 DEF Candidate, States, VALID_STATES
  <2>4. Within(blank)
    BY LimitType DEF Within, RetryCount
  <2>5. candidate = apply_generation_result(blank, b, crash)
    BY <2>1 DEF NewCandidate
  <2>6. candidate \in Candidate /\ Fine(candidate)
    <3> HIDE DEF blank
    <3> QED BY <2>2, <2>3, <2>4, <2>5, ApplyGenerationFine, ApplyGenerationType
  <2>7. candidate.state # Raised
    <3>1. blank.state = "GENERATED"
      OBVIOUS
    <3> HIDE DEF blank
    <3> QED BY <2>2, <2>3, <2>5, <3>1, GenerationDoesNotRaise
  <2> QED BY <2>6, <2>7, FineBudgets DEF RetryBudgets, Count
<1>2. TypeOK /\ RetryBudgets /\ [Next]_vars => RetryBudgets'
  <2> SUFFICES ASSUME TypeOK, RetryBudgets, [Next]_vars PROVE RetryBudgets'
    OBVIOUS
  <2> USE BodiesAssumption
  <2>0. candidate \in Candidate
    BY DEF TypeOK
  <2>1. CASE ApplyReview
    <3>1. PICK out \in ReviewOutputs, crash \in BOOLEAN :
            Save(ReviewCandidate(candidate, out, crash))
      BY <2>1 DEF ApplyReview
    <3>2. out \in ReviewerItem
      <4>1. candidate.generator_item.ver \in Nat
            /\ \A h \in candidate.review_history : h.output \in ReviewerItem
        BY DEF TypeOK, Candidate, GeneratorItem
      <4> QED BY <4>1 DEF ReviewOutputs, ReviewerItem
    <3>3. Within(candidate)
      BY <2>1, BudgetsWithin DEF ApplyReview, AwaitsReview, FailedAt, FailedStates
    <3> QED BY <2>0, <3>1, <3>2, <3>3, SaveBudgets, ReviewCandidateFine,
               ReviewCandidateType
  <2>2. CASE ApplyRevision
    <3>1. PICK b \in GeneratorBodies, crash \in BOOLEAN :
            Save(ReviseCandidate(candidate, b, crash))
      BY <2>2 DEF ApplyRevision
    <3>2. Within(candidate)
      BY <2>2, BudgetsWithin DEF ApplyRevision, AwaitsRevision, FailedAt, FailedStates
    <3> QED BY <2>0, <3>1, <3>2, SaveBudgets, ReviseCandidateFine, ReviseCandidateType
  <2>3. CASE PrepareSolverBatch
    <3>1. CASE candidate.state = "MANUAL_REVIEW"
      <4>1. PrepareCandidate(candidate) = candidate
        BY <3>1 DEF PrepareCandidate, FailedAt, FailedStates
      <4>2. candidate' = candidate
        BY <2>3, <4>1 DEF PrepareSolverBatch, Save
      <4> QED BY <4>2 DEF RetryBudgets, Count
    <3>2. CASE candidate.state # "MANUAL_REVIEW"
      BY <2>0, <2>3, <3>2, BudgetsWithin, SaveBudgets, PrepareCandidateFine,
         PrepareCandidateType DEF PrepareSolverBatch
    <3> QED BY <3>1, <3>2
  <2>4. CASE ApplySolver
    <3>1. PICK b \in SolverBodies, crash \in BOOLEAN :
            Save(SolveCandidate(candidate, [body |-> b, of |-> candidate.solver_input],
                                crash, KeepSolverOutput))
      BY <2>4 DEF ApplySolver
    <3>2. candidate.solver_input \in Nat
      BY <2>4 DEF ApplySolver, TypeOK, Candidate
    <3>3. [body |-> b, of |-> candidate.solver_input] \in SolverItem
      BY <3>2 DEF SolverItem
    <3>4. Within(candidate)
      BY <2>4, BudgetsWithin DEF ApplySolver
    <3> QED BY <2>0, <3>1, <3>3, <3>4, SaveBudgets, SolveCandidateFine,
               SolveCandidateType
  <2>5. CASE UNCHANGED vars
    BY <2>5 DEF vars, RetryBudgets, Count
  <2> QED BY <2>1, <2>2, <2>3, <2>4, <2>5 DEF Next
<1> QED BY <1>1, <1>2, TypeCorrect, PTL DEF Spec

-----------------------------------------------------------------------------
(* Evidence on a record that was saved.                                    *)

PassedReview(c) ==
  /\ c.reviewer_item # None
  /\ c.reviewer_item.of = c.generator_item.ver
  /\ c.reviewer_item.body.verdict = "PASS"
  /\ c.reviewer_item.body.shape = "ok"

\* No output that was decided on and may be supplied again is a valid PASS.
NoOldPass(c) ==
  \A h \in c.review_history :
    Decided(h) => h.output.body.shape # "ok" \/ h.output.body.verdict # "PASS"

Bare(c) == c.solver_input = None /\ c.solver_item = None /\ c.consensus = None

Evidence(c) ==
  /\ c.state \in {"SOLVING", "ACCEPTED"} \/ FailedAt(c, "solver") \/ c.solver_input # None =>
       PassedReview(c)
  /\ ReviewSettled(c) \/ (Bare(c) /\ NoOldPass(c))
  /\ c.solver_item # None => c.solver_item.of = c.generator_item.ver
  /\ c.consensus # None => c.state \in TERMINAL_STATES
  /\ c.state \in {"REVIEWING", "REVISE_REQUIRED", "SOLVING", "ACCEPTED"} =>
       c.generator_item.body.shape = "ok"
  /\ FailedAt(c, "reviewer") \/ FailedAt(c, "solver") =>
       c.generator_item.body.shape = "ok"
  /\ c.state = "ACCEPTED" => c.solver_item.body.shape = "ok"

Saved(c) == c \in Candidate /\ validate_candidate_invariants(c) /\ Evidence(c)

LEMMA FailedStatesApart ==
  /\ FailedStates \cap TERMINAL_STATES = {}
  /\ \A kind \in FailureKinds : FailedStateOf(kind) \in FailedStates
  /\ \A c \in Candidate, kind \in FailureKinds, stage \in RETRY_STAGES :
       FailedBy(c, kind, stage) /\ c.state \in FailedStates => FailedAt(c, stage)
<1>1. \A kind \in FailureKinds, stage \in RETRY_STAGES :
        [kind |-> kind, stage |-> stage] \in Failure
  BY DEF Failure
<1>2. None \notin Failure
  BY NoneAssumption
<1> QED BY <1>1, <1>2 DEF FailedStates, TERMINAL_STATES, FailedStateOf, FailedBy, FailedAt

\* The operator reviews an item that has no Solver's evidence.  The review that
\* lets it through cannot be an old one: an old valid PASS would have let the
\* item through when it was new.
LEMMA ReviewKeepsEvidence ==
  ASSUME NEW c, Saved(c), AwaitsReview(c),
         NEW out \in ReviewerItem, NEW crash \in BOOLEAN,
         \/ out.of = c.generator_item.ver
         \/ \E h \in c.review_history : Decided(h) /\ h.output = out,
         validate_candidate_invariants(ReviewCandidate(c, out, crash))
  PROVE  Saved(ReviewCandidate(c, out, crash))
<1> DEFINE x == IF FailedAt(c, "reviewer") THEN retry_failed_stage(c) ELSE c
           d == apply_review_result(x, out, crash)
<1>1. ~ ReviewSettled(c)
  BY DEF AwaitsReview, ReviewSettled, FailedAt, FailedStates, TERMINAL_STATES
<1>2. Bare(c) /\ NoOldPass(c) /\ c.generator_item.body.shape = "ok"
  BY <1>1 DEF Saved, Evidence, AwaitsReview
<1>3. InputsCanonical(c) /\ c \in Candidate
  BY DEF Saved, validate_candidate_invariants
<1>4. /\ x \in Candidate /\ InputsCanonical(x) /\ Bare(x)
      /\ x.generator_item = c.generator_item
      /\ x.review_history = c.review_history
      /\ x.state \in {"REVIEWING", "MANUAL_REVIEW", Raised}
  <2>1. CASE FailedAt(c, "reviewer")
    BY <1>2, <1>3, <2>1, RetryEffect DEF RETRY_STAGES, STAGE_RETRY_STATES, Bare, SameItems
  <2>2. CASE ~ FailedAt(c, "reviewer")
    BY <1>2, <1>3, <2>2 DEF AwaitsReview
  <2> QED BY <2>1, <2>2
<1>5. ReviewCandidate(c, out, crash) = IF x.state = "REVIEWING" THEN d ELSE x
  BY DEF ReviewCandidate
<1>6. CASE x.state # "REVIEWING"
  <2>1. ReviewCandidate(c, out, crash) = x
    BY <1>5, <1>6
  <2>2. x.state = "MANUAL_REVIEW"
    <3> HIDE DEF x
    <3> QED BY <1>4, <1>6, <2>1 DEF validate_candidate_invariants, VALID_STATES,
               FailedStates, TERMINAL_STATES, Raised
  <2>3. Evidence(x)
    <3> HIDE DEF x
    <3> QED BY <1>4, <2>2 DEF Evidence, Bare, ReviewSettled, TERMINAL_STATES, FailedAt,
               FailedStates
  <2> HIDE DEF x
  <2> QED BY <1>4, <2>1, <2>3 DEF Saved
<1>7. CASE x.state = "REVIEWING"
  <2>1. ReviewCandidate(c, out, crash) = d
    BY <1>5, <1>7
  <2>2. /\ d \in Candidate /\ validate_candidate_invariants(d) /\ Bare(d)
        /\ d.generator_item = c.generator_item /\ d.reviewer_item = out
        /\ d.review_history = c.review_history
             \cup {[output |-> out, routed_state |-> d.state]}
    <3> HIDE DEF x
    <3> QED BY <1>4, <2>1, ReviewEffect DEF Bare
  <2>3. d.generator_item.body.shape = "ok" /\ out.body.ident /\ out # None
    <3>1. out # None
      BY NoneAssumption
    <3> HIDE DEF d
    <3> QED BY <1>2, <2>2, <3>1 DEF validate_candidate_invariants, IdentityConsistent
  <2>4. \/ /\ out.body.shape = "ok"
           /\ d.state \in {"SOLVING", "REJECTED", "DISCARDED", "REVISE_REQUIRED", Raised}
           /\ d.state = "SOLVING" <=> out.body.verdict = "PASS" /\ d.state # Raised
        \/ \E kind \in FailureKinds :
             /\ FailedBy(d, kind, "reviewer")
             /\ kind = "content" => out.body.shape # "ok" \/ ~ out.body.ident
    <3> HIDE DEF x
    <3> QED BY <1>4, ReviewEffect
  <2>5. d.state # Raised
    <3> HIDE DEF d
    <3> QED BY <2>2 DEF validate_candidate_invariants, VALID_STATES, FailedStates,
               TERMINAL_STATES, Raised
  <2>6. CASE d.state = "SOLVING"
    <3>1. out.body.shape = "ok" /\ out.body.verdict = "PASS"
      <4> HIDE DEF d
      <4> QED BY <2>4, <2>6 DEF FailedBy, FailedStateOf, Raised
    <3>2. out.of = c.generator_item.ver
      BY <1>2, <3>1 DEF NoOldPass
    <3> HIDE DEF d
    <3> QED BY <2>1, <2>2, <2>3, <2>6, <3>1, <3>2
            DEF Saved, Evidence, PassedReview, Bare, ReviewSettled
  <2>7. CASE d.state = "REVISE_REQUIRED"
    <3>1. out.body.verdict # "PASS"
      <4> HIDE DEF d
      <4> QED BY <2>4, <2>7 DEF FailedBy, FailedStateOf, Raised
    <3>2. NoOldPass(d)
      <4> HIDE DEF d
      <4> QED BY <1>2, <2>2, <3>1 DEF NoOldPass
    <3> HIDE DEF d
    <3> QED BY <2>1, <2>2, <2>3, <2>7, <3>2
            DEF Saved, Evidence, PassedReview, Bare, FailedAt, FailedStates
  <2>8. CASE d.state \in {"REJECTED", "DISCARDED", "MANUAL_REVIEW"}
    <3> HIDE DEF d
    <3> QED BY <2>1, <2>2, <2>8
            DEF Saved, Evidence, Bare, ReviewSettled, TERMINAL_STATES, FailedAt, FailedStates
  <2>9. ASSUME d.state \in FailedStates PROVE Saved(ReviewCandidate(c, out, crash))
    <3>1. PICK kind \in FailureKinds :
            /\ FailedBy(d, kind, "reviewer")
            /\ kind = "content" => out.body.shape # "ok" \/ ~ out.body.ident
      <4> HIDE DEF d
      <4> QED BY <2>4, <2>9 DEF FailedStates, Raised
    <3>2. d.failure.stage = "reviewer"
      <4> HIDE DEF d
      <4> QED BY <3>1 DEF FailedBy
    <3>3. d.state = "GENERATION_FAILED" \/ out.body.shape # "ok"
      <4> HIDE DEF d
      <4> QED BY <2>3, <2>9, <3>1 DEF FailedBy, FailedStateOf, FailedStates, FailureKinds, Raised
    <3>4. NoOldPass(d)
      <4> HIDE DEF d
      <4> QED BY <1>2, <2>2, <3>3 DEF NoOldPass, Decided
    <3> HIDE DEF d
    <3> QED BY <2>1, <2>2, <2>3, <2>9, <3>2, <3>4
            DEF Saved, Evidence, Bare, FailedAt, FailedStates
  <2>10. d.state \in {"SOLVING", "REJECTED", "DISCARDED", "REVISE_REQUIRED", "MANUAL_REVIEW"}
           \cup FailedStates
    <3> HIDE DEF d
    <3> QED BY <2>4, <2>5, FailedStatesApart DEF FailedBy
  <2> HIDE DEF d
  <2> QED BY <2>6, <2>7, <2>8, <2>9, <2>10
<1> QED BY <1>6, <1>7

LEMMA ReviseKeepsEvidence ==
  ASSUME NEW c, Saved(c), AwaitsRevision(c),
         NEW body \in GeneratorBody, NEW crash \in BOOLEAN,
         validate_candidate_invariants(ReviseCandidate(c, body, crash))
  PROVE  Saved(ReviseCandidate(c, body, crash))
<1> DEFINE t == transition(c, "GENERATED")
           attempt == t.generation_attempt + 1
           begun == [t EXCEPT !.reviewer_item = None, !.reviewer_input = None,
                       !.solver_item = None, !.solver_input = None,
                       !.leakage_check = None, !.consensus = None, !.failure = None,
                       !.generation_attempt = attempt]
           x == IF FailedAt(c, "generator") THEN retry_failed_stage(c) ELSE begun
           d == apply_generation_result(x, body, crash)
<1>1. ~ ReviewSettled(c)
  BY DEF AwaitsRevision, ReviewSettled, FailedAt, FailedStates, TERMINAL_STATES
<1>2. Bare(c) /\ NoOldPass(c) /\ c \in Candidate
  BY <1>1 DEF Saved, Evidence
<1>3. /\ begun \in Candidate /\ Bare(begun)
      /\ begun.review_history = c.review_history
  <2>1. "GENERATED" \in VALID_STATES
    BY DEF VALID_STATES
  <2>2. t \in Candidate /\ SameItems(c, t)
    BY <1>2, <2>1, TransitionType, TransitionKeeps
  <2>3. attempt \in Nat
    <3> HIDE DEF t
    <3> QED BY <2>2 DEF Candidate
  <2> HIDE DEF t, attempt
  <2> QED BY <2>2, <2>3 DEF Candidate, Bare, SameItems
<1>4. x \in Candidate /\ Bare(x) /\ x.review_history = c.review_history
  <2>1. CASE FailedAt(c, "generator")
    BY <1>2, <2>1, RetryEffect DEF RETRY_STAGES, Bare, SameItems
  <2>2. CASE ~ FailedAt(c, "generator")
    <3> HIDE DEF begun
    <3> QED BY <1>3, <2>2
  <2> QED BY <2>1, <2>2
<1>5. ReviseCandidate(c, body, crash) = d
  BY DEF ReviseCandidate, begin_revision
<1>6. /\ d \in Candidate /\ validate_candidate_invariants(d) /\ Bare(d) /\ NoOldPass(d)
      /\ d.generator_item.body = body
      /\ \/ d.state \in {"REVIEWING", Raised} /\ body.shape = "ok"
         \/ \E kind \in FailureKinds : FailedBy(d, kind, "generator")
  <2> HIDE DEF x
  <2> QED BY <1>2, <1>4, <1>5, GenerationEffect DEF Bare, NoOldPass
<1>7. d.state # Raised
  <2> HIDE DEF d
  <2> QED BY <1>6 DEF validate_candidate_invariants, VALID_STATES, FailedStates,
             TERMINAL_STATES, Raised
<1>8. CASE d.state = "REVIEWING"
  <2>1. body.shape = "ok"
    <3> HIDE DEF d
    <3> QED BY <1>6, <1>8 DEF FailedBy, FailedStateOf, Raised
  <2> HIDE DEF d
  <2> QED BY <1>5, <1>6, <1>8, <2>1 DEF Saved, Evidence, Bare, FailedAt, FailedStates
<1>9. CASE d.state = "MANUAL_REVIEW"
  <2> HIDE DEF d
  <2> QED BY <1>5, <1>6, <1>9
          DEF Saved, Evidence, Bare, ReviewSettled, TERMINAL_STATES, FailedAt, FailedStates
<1>10. ASSUME d.state \in FailedStates PROVE Saved(ReviseCandidate(c, body, crash))
  <2>1. PICK kind \in FailureKinds : FailedBy(d, kind, "generator")
    <3> HIDE DEF d
    <3> QED BY <1>6, <1>10 DEF FailedStates, Raised
  <2>2. d.failure.stage = "generator"
    <3> HIDE DEF d
    <3> QED BY <2>1 DEF FailedBy
  <2> HIDE DEF d
  <2> QED BY <1>5, <1>6, <1>10, <2>2 DEF Saved, Evidence, Bare, FailedAt, FailedStates
<1>11. d.state \in {"REVIEWING", "MANUAL_REVIEW"} \cup FailedStates
  <2> HIDE DEF d
  <2> QED BY <1>6, <1>7, FailedStatesApart DEF FailedBy
<1> HIDE DEF d
<1> QED BY <1>8, <1>9, <1>10, <1>11

LEMMA PrepareKeepsEvidence ==
  ASSUME NEW c, Saved(c), validate_candidate_invariants(PrepareCandidate(c))
  PROVE  /\ Saved(PrepareCandidate(c))
         /\ ReviewSettled(c) => ReviewSettled(PrepareCandidate(c))
         /\ c.state \in TERMINAL_STATES => PrepareCandidate(c) = c
<1> DEFINE x == IF FailedAt(c, "solver") THEN retry_failed_stage(c) ELSE c
           d == PrepareCandidate(c)
<1>1. InputsCanonical(c) /\ c \in Candidate
  BY DEF Saved, validate_candidate_invariants
<1>0. validate_candidate_invariants(d)
  OBVIOUS
<1>2. d = IF x.state = "SOLVING" THEN prepare_solver_input(x) ELSE x
  BY DEF PrepareCandidate
<1>3. CASE FailedAt(c, "solver")
  <2>1. PassedReview(c) /\ c.generator_item.body.shape = "ok" /\ c.consensus = None
    BY <1>3 DEF Saved, Evidence, FailedAt, FailedStates, TERMINAL_STATES
  <2>2. /\ x \in Candidate /\ InputsCanonical(x)
        /\ x.generator_item = c.generator_item /\ x.reviewer_item = c.reviewer_item
        /\ x.consensus = None
        /\ x.solver_item \in {None, c.solver_item}
        /\ x.state \in {"SOLVING", "MANUAL_REVIEW", Raised}
    BY <1>1, <1>3, <2>1, RetryEffect DEF RETRY_STAGES, STAGE_RETRY_STATES, SameItems
  <2>3. /\ d \in Candidate /\ d.state = x.state
        /\ d.generator_item = c.generator_item /\ d.reviewer_item = c.reviewer_item
        /\ d.consensus = None /\ d.solver_item \in {None, c.solver_item}
    <3> HIDE DEF x, d
    <3> QED BY <1>2, <2>2, PrepareEffect
  <2>4. d.state \in {"SOLVING", "MANUAL_REVIEW"}
    <3> HIDE DEF x, d
    <3> QED BY <1>0, <2>2, <2>3 DEF validate_candidate_invariants, VALID_STATES, FailedStates,
               TERMINAL_STATES, Raised
  <2>5. Evidence(d) /\ ReviewSettled(d)
    <3> HIDE DEF d
    <3> QED BY <2>1, <2>3, <2>4 DEF Saved, Evidence, PassedReview, ReviewSettled,
               TERMINAL_STATES, FailedAt, FailedStates
  <2>6. c.state \notin TERMINAL_STATES
    BY <1>3 DEF FailedAt, FailedStates, TERMINAL_STATES
  <2>7. Saved(d)
    <3> HIDE DEF d
    <3> QED BY <1>0, <2>3, <2>5 DEF Saved
  <2> QED BY <2>5, <2>6, <2>7
<1>4. CASE c.state = "SOLVING"
  <2>1. x = c
    BY <1>4 DEF FailedAt, FailedStates
  <2>2. d = prepare_solver_input(c)
    BY <1>2, <1>4, <2>1
  <2>3. /\ d \in Candidate /\ d.state = c.state
        /\ d.generator_item = c.generator_item /\ d.reviewer_item = c.reviewer_item
        /\ d.consensus = c.consensus /\ d.solver_item = c.solver_item
    <3> HIDE DEF d
    <3> QED BY <1>1, <2>2, PrepareEffect
  <2>4. Evidence(d) /\ ReviewSettled(d)
    <3> HIDE DEF d
    <3> QED BY <1>4, <2>3 DEF Saved, Evidence, PassedReview, ReviewSettled,
               TERMINAL_STATES, FailedAt, FailedStates
  <2>5. Saved(d)
    <3> HIDE DEF d
    <3> QED BY <1>0, <2>3, <2>4 DEF Saved
  <2> QED BY <1>4, <2>4, <2>5 DEF TERMINAL_STATES
<1>5. CASE ~ FailedAt(c, "solver") /\ c.state # "SOLVING"
  BY <1>2, <1>5
<1> QED BY <1>3, <1>4, <1>5

LEMMA SolveKeepsEvidence ==
  ASSUME NEW c, Saved(c), c.state = "SOLVING", c.solver_input # None,
         NEW body \in SolverBody, NEW crash \in BOOLEAN, NEW keep \in BOOLEAN,
         validate_candidate_invariants(
           SolveCandidate(c, [body |-> body, of |-> c.solver_input], crash, keep))
  PROVE  LET d == SolveCandidate(c, [body |-> body, of |-> c.solver_input], crash, keep)
         IN  Saved(d) /\ ReviewSettled(d)
<1> DEFINE out == [body |-> body, of |-> c.solver_input]
           kept == IF keep THEN out ELSE c.solver_item
           e == [c EXCEPT !.solver_item = kept]
           d == SolveCandidate(c, out, crash, keep)
<1>0. validate_candidate_invariants(d)
  OBVIOUS
<1>1. /\ c \in Candidate /\ InputsCanonical(c) /\ PassedReview(c)
      /\ c.generator_item.body.ident /\ c.reviewer_item.body.ident
      /\ c.generator_item.body.shape = "ok" /\ c.consensus = None
      /\ c.solver_item # None => c.solver_item.of = c.generator_item.ver
  BY DEF Saved, Evidence, PassedReview, validate_candidate_invariants, IdentityConsistent,
     TERMINAL_STATES
<1>2. out \in SolverItem /\ out.of = c.generator_item.ver
  <2>1. c.solver_input \in Nat
    BY <1>1 DEF Candidate
  <2> QED BY <1>1, <2>1 DEF SolverItem, InputsCanonical, canonical_input
<1>3. /\ e \in Candidate /\ e.generator_item = c.generator_item
      /\ e.reviewer_item = c.reviewer_item /\ e.reviewer_input = c.reviewer_input
      /\ e.solver_input = c.solver_input /\ e.consensus = c.consensus
      /\ e.solver_item # None => e.solver_item.of = c.generator_item.ver
  <2>1. kept \in SolverItem \cup {None} /\ (kept # None => kept.of = c.generator_item.ver)
    <3> HIDE DEF out
    <3> QED BY <1>1, <1>2 DEF Candidate
  <2> HIDE DEF kept
  <2> QED BY <1>1, <2>1 DEF Candidate
<1>4. InputsCanonical(e)
  <2> HIDE DEF e
  <2> QED BY <1>1, <1>3 DEF InputsCanonical, canonical_input
<1>5. d = process_solver_stage(e, out, e.solver_input, crash)
  <2>1. [c EXCEPT !.solver_item = c.solver_item] = c
    BY <1>1 DEF Candidate
  <2>2. e = IF keep THEN [c EXCEPT !.solver_item = out] ELSE c
    <3> HIDE DEF out
    <3> QED BY <2>1
  <2>3. ~ FailedAt(c, "solver")
    BY DEF FailedAt, FailedStates
  <2> HIDE DEF e, out
  <2> QED BY <1>3, <2>2, <2>3 DEF SolveCandidate
<1>6. /\ d \in Candidate
      /\ d.generator_item = c.generator_item
      /\ d.reviewer_item = c.reviewer_item
      /\ \/ /\ body.shape = "ok" /\ d.solver_item = out
            /\ d.state \in TERMINAL_STATES \cup {Raised}
         \/ /\ d.solver_item = e.solver_item /\ d.consensus = None
            /\ \E kind \in FailureKinds : FailedBy(d, kind, "solver")
  <2>1. out.body = body
    OBVIOUS
  <2> HIDE DEF e, out, d
  <2> QED BY <1>1, <1>2, <1>3, <1>4, <1>5, <2>1, SolverEffect
<1>7. d.state # Raised
  <2> HIDE DEF d
  <2> QED BY <1>0 DEF validate_candidate_invariants, VALID_STATES, FailedStates,
             TERMINAL_STATES, Raised
<1>8. PassedReview(d) /\ d.generator_item.body.shape = "ok"
  <2> HIDE DEF d
  <2> QED BY <1>1, <1>6 DEF PassedReview
<1>9. CASE d.state \in TERMINAL_STATES
  <2>1. d.solver_item # None => d.solver_item.of = d.generator_item.ver
    <3> HIDE DEF d, e, out
    <3> QED BY <1>2, <1>3, <1>6
  <2>2. d.state = "ACCEPTED" => d.solver_item.body.shape = "ok"
    <3>1. out.body = body
      OBVIOUS
    <3> HIDE DEF d, e, out
    <3> QED BY <1>6, <3>1 DEF FailedBy, FailedStateOf, Raised
  <2>3. Saved(d) /\ ReviewSettled(d)
    <3> HIDE DEF d, out
    <3> QED BY <1>0, <1>6, <1>8, <1>9, <2>1, <2>2
            DEF Saved, Evidence, ReviewSettled, TERMINAL_STATES, FailedAt, FailedStates
  <2> QED BY <2>3
<1>10. CASE d.state \notin TERMINAL_STATES
  <2>1. PICK kind \in FailureKinds : FailedBy(d, kind, "solver")
    <3> HIDE DEF d, e, out
    <3> QED BY <1>6, <1>7, <1>10
  <2>2. d.solver_item = e.solver_item /\ d.consensus = None
    <3> HIDE DEF d, e, out
    <3> QED BY <1>6, <1>7, <1>10
  <2>3. FailedAt(d, "solver")
    <3>1. d.state \in FailedStates
      <4> HIDE DEF d
      <4> QED BY <1>7, <1>10, <2>1, FailedStatesApart DEF FailedBy, TERMINAL_STATES
    <3> HIDE DEF d
    <3> QED BY <1>6, <2>1, <3>1, FailedStatesApart DEF RETRY_STAGES
  <2>4. Saved(d) /\ ReviewSettled(d)
    <3> HIDE DEF d, e, out
    <3> QED BY <1>0, <1>3, <1>6, <1>8, <1>10, <2>2, <2>3
            DEF Saved, Evidence, ReviewSettled, TERMINAL_STATES, FailedAt, FailedStates
  <2> QED BY <2>4
<1> QED BY <1>9, <1>10

-----------------------------------------------------------------------------
(* Evidence: the theorems.                                                 *)

\* cmd_init saves a record without any evidence.
LEMMA NewIsSaved ==
  ASSUME NEW body \in GeneratorBody, body.ident, NEW crash \in BOOLEAN
  PROVE  Saved(NewCandidate(body, crash))
<1> DEFINE item == [body |-> body, ver |-> 0]
           zero == [s \in RETRY_STAGES |-> 0]
           blank ==
    [state |-> "GENERATED", generation_attempt |-> 1, revision_count |-> 0,
     system_failure_retries |-> zero, validation_failure_retries |-> zero,
     generator_item |-> item,
     reviewer_item |-> None, reviewer_input |-> None,
     solver_item |-> None, solver_input |-> None, leakage_check |-> None,
     consensus |-> None, acceptance_policy |-> None, failure |-> None,
     discard_note |-> FALSE, generation_history |-> 0, review_history |-> {}]
           d == apply_generation_result(blank, body, crash)
<1>1. /\ blank \in Candidate /\ blank.state = "GENERATED" /\ Bare(blank)
      /\ blank.reviewer_item = None /\ blank.reviewer_input = None
      /\ blank.acceptance_policy = None /\ blank.review_history = {}
  <2>1. item \in GeneratorItem /\ zero \in Retries
    BY DEF GeneratorItem, Retries
  <2> HIDE DEF item, zero
  <2> QED BY <2>1 DEF Candidate, States, VALID_STATES, Bare
<1>2. /\ d \in Candidate /\ d.state # Raised /\ Bare(d)
      /\ d.generator_item.body = body
      /\ d.reviewer_item = None /\ d.review_history = {} /\ d.acceptance_policy = None
      /\ d.reviewer_input \in {None, canonical_input(d.generator_item)}
      /\ \/ d.state \in {"REVIEWING", Raised} /\ d.failure = None /\ body.shape = "ok"
         \/ \E kind \in FailureKinds : FailedBy(d, kind, "generator")
  <2> HIDE DEF blank
  <2> QED BY <1>1, GenerationEffect, GenerationDoesNotRaise DEF Bare
<1>3. CASE d.state = "REVIEWING"
  <2>1. d.failure = None /\ body.shape = "ok"
    <3> HIDE DEF d
    <3> QED BY <1>2, <1>3 DEF FailedBy, FailedStateOf, Raised
  <2>2. validate_candidate_invariants(d)
    <3> HIDE DEF d
    <3> QED BY <1>2, <1>3, <2>1 DEF validate_candidate_invariants, VALID_STATES,
          IdentityConsistent, InputsCanonical, FailureConsistent, ReviewGates,
          AcceptanceEvidence, TerminalEvidence, FailedStates, Bare
  <2>3. Evidence(d)
    <3> HIDE DEF d
    <3> QED BY <1>2, <1>3, <2>1 DEF Evidence, Bare, NoOldPass, FailedAt, FailedStates
  <2> QED BY <1>2, <2>2, <2>3 DEF NewCandidate, Saved
<1>4. CASE d.state # "REVIEWING"
  <2>1. PICK kind \in FailureKinds : FailedBy(d, kind, "generator")
    <3> HIDE DEF d
    <3> QED BY <1>2, <1>4
  <2>2. /\ d.failure # None /\ d.failure.kind = kind /\ d.failure.stage = "generator"
        /\ d.state \in {FailedStateOf(kind), "MANUAL_REVIEW"}
    <3>1. [kind |-> kind, stage |-> "generator"] \in Failure
      BY DEF Failure, RETRY_STAGES
    <3> HIDE DEF d
    <3> QED BY <1>2, <2>1, <3>1, NoneAssumption DEF FailedBy
  <2>3. FailureConsistent(d)
    <3> HIDE DEF d
    <3> QED BY <2>2 DEF FailureConsistent, FailedStateOf, FailedStates, FailureKinds
  <2>4. d.state \in FailedStates \cup {"MANUAL_REVIEW"}
    <3> HIDE DEF d
    <3> QED BY <2>2, FailedStatesApart
  <2>5. validate_candidate_invariants(d)
    <3> HIDE DEF d
    <3> QED BY <1>2, <2>2, <2>3, <2>4 DEF validate_candidate_invariants, VALID_STATES,
          IdentityConsistent, InputsCanonical, ReviewGates, TERMINAL_STATES,
          AcceptanceEvidence, TerminalEvidence, FailedStates, Bare
  <2>6. Evidence(d)
    <3> HIDE DEF d
    <3> QED BY <1>2, <2>2, <2>4 DEF Evidence, Bare, NoOldPass, FailedAt, FailedStates,
               ReviewSettled, TERMINAL_STATES
  <2> QED BY <1>2, <2>5, <2>6 DEF NewCandidate, Saved
<1> QED BY <1>3, <1>4

\* What any command may do to the saved record.
SaveEffect ==
  /\ Saved(candidate')
  /\ ReviewSettled(candidate) => ReviewSettled(candidate')
  /\ candidate.state \in TERMINAL_STATES => candidate' = candidate

LEMMA SaveKeeps ==
  ASSUME Saved(candidate), NEW d, Save(d),
         validate_candidate_invariants(d) =>
           /\ Saved(d)
           /\ ReviewSettled(candidate) => ReviewSettled(d)
           /\ candidate.state \in TERMINAL_STATES => d = candidate
  PROVE  SaveEffect
BY DEF Save, SaveEffect

LEMMA StepEffect ==
  ASSUME Saved(candidate), [Next]_vars
  PROVE  SaveEffect
<1> USE BodiesAssumption
<1>1. CASE ApplyReview
  <2>1. PICK out \in ReviewOutputs, crash \in BOOLEAN :
          Save(ReviewCandidate(candidate, out, crash))
    BY <1>1 DEF ApplyReview
  <2>2. /\ out \in ReviewerItem
        /\ \/ out.of = candidate.generator_item.ver
           \/ \E h \in candidate.review_history : Decided(h) /\ h.output = out
    <3>1. candidate.generator_item.ver \in Nat
          /\ \A h \in candidate.review_history : h.output \in ReviewerItem
      BY DEF Saved, Candidate, GeneratorItem
    <3> QED BY <3>1 DEF ReviewOutputs, ReviewerItem
  <2>3. AwaitsReview(candidate)
    BY <1>1 DEF ApplyReview
  <2>4. ~ ReviewSettled(candidate) /\ candidate.state \notin TERMINAL_STATES
    BY <2>3 DEF AwaitsReview, ReviewSettled, FailedAt, FailedStates, TERMINAL_STATES
  <2> QED BY <2>1, <2>2, <2>3, <2>4, ReviewKeepsEvidence, SaveKeeps
<1>2. CASE ApplyRevision
  <2>1. PICK b \in GeneratorBodies, crash \in BOOLEAN :
          Save(ReviseCandidate(candidate, b, crash))
    BY <1>2 DEF ApplyRevision
  <2>2. AwaitsRevision(candidate)
    BY <1>2 DEF ApplyRevision
  <2>3. ~ ReviewSettled(candidate) /\ candidate.state \notin TERMINAL_STATES
    BY <2>2 DEF AwaitsRevision, ReviewSettled, FailedAt, FailedStates, TERMINAL_STATES
  <2> QED BY <2>1, <2>2, <2>3, ReviseKeepsEvidence, SaveKeeps
<1>3. CASE PrepareSolverBatch
  BY <1>3, PrepareKeepsEvidence, SaveKeeps DEF PrepareSolverBatch
<1>4. CASE ApplySolver
  <2>1. PICK b \in SolverBodies, crash \in BOOLEAN :
          Save(SolveCandidate(candidate, [body |-> b, of |-> candidate.solver_input],
                              crash, KeepSolverOutput))
    BY <1>4 DEF ApplySolver
  <2>2. candidate.state = "SOLVING" /\ candidate.solver_input # None
    BY <1>4 DEF ApplySolver
  <2>3. candidate.state \notin TERMINAL_STATES
    BY <2>2 DEF TERMINAL_STATES
  <2> QED BY <2>1, <2>2, <2>3, SolveKeepsEvidence, SaveKeeps
<1>5. CASE UNCHANGED vars
  BY <1>5 DEF vars, SaveEffect
<1> QED BY <1>1, <1>2, <1>3, <1>4, <1>5 DEF Next

\* Every record in the state file passes its own validation and rests on
\* evidence about the item it holds.
THEOREM EvidenceInv == Spec => []Saved(candidate)
<1>1. Init => Saved(candidate)
  BY NewIsSaved, BodiesAssumption DEF Init
<1>2. Saved(candidate) /\ [Next]_vars => Saved(candidate)'
  BY StepEffect DEF SaveEffect
<1> QED BY <1>1, <1>2, PTL DEF Spec

\* EvidenceIsCurrent: no payload, output, consensus or PASS of a replaced item
\* is ever left on the record or counted for its successor.
THEOREM NothingOutdatedCounts == Spec => []EvidenceIsCurrent
<1>1. Saved(candidate) => EvidenceIsCurrent
  BY DEF Saved, Evidence, PassedReview, EvidenceIsCurrent, validate_candidate_invariants,
     InputsCanonical, canonical_input
<1> QED BY <1>1, EvidenceInv, PTL

\* AcceptedMeansAgreement: AUTO_ACCEPT needs three validated outputs about one
\* item that name one letter, with no gate tripped.
THEOREM AcceptanceIsAgreed == Spec => []AcceptedMeansAgreement
<1>1. ASSUME Saved(candidate), candidate.state = "ACCEPTED"
      PROVE  AcceptedMeansAgreement
  <2> DEFINE g == candidate.generator_item.body
             r == candidate.reviewer_item.body
             s == candidate.solver_item.body
             failed == {k \in Conditions : ~ ConditionHolds(g, r, s)[k]}
  <2>1. /\ PassedReview(candidate)
        /\ candidate.solver_item # None
        /\ candidate.solver_item.of = candidate.generator_item.ver
        /\ g.shape = "ok" /\ s.shape = "ok"
        /\ evaluate_consensus(g, r, s).auto_accept
        /\ candidate.failure = None
    BY <1>1 DEF Saved, Evidence, validate_candidate_invariants, AcceptanceEvidence,
       FailureConsistent, FailedStates
  <2>2. failed = {}
    <3>1. evaluate_consensus(g, r, s).auto_accept = (failed = {})
      BY DEF evaluate_consensus
    <3> HIDE DEF failed, g, r, s
    <3> QED BY <2>1, <3>1
  <2>3. \A k \in Conditions : ConditionHolds(g, r, s)[k]
    <3> HIDE DEF g, r, s
    <3> QED BY <2>2
  <2>4. /\ ~ r.critical /\ r.answer = g.key /\ s.answer = g.key /\ ~ s.ambiguous
        /\ s.confidence \in AllowedConfidence /\ r.risk \notin BlockedRisk
    <3> HIDE DEF g, r, s
    <3> QED BY <2>3 DEF Conditions, ConditionHolds
  <2>5. r.shape = "ok" /\ candidate.solver_item.of = candidate.reviewer_item.of
    BY <2>1 DEF PassedReview
  <2> HIDE DEF failed
  <2> QED BY <2>1, <2>4, <2>5 DEF AcceptedMeansAgreement
<1>2. Saved(candidate) => AcceptedMeansAgreement
  BY <1>1 DEF AcceptedMeansAgreement
<1> QED BY <1>2, EvidenceInv, PTL

\* PassIsFinal: once a PASS has let an item through, no command reviews or
\* regenerates it, and nothing changes a terminal record.
THEOREM PassStays == Spec => PassIsFinal
<1>1. Saved(candidate) /\ [Next]_vars =>
        [ /\ ReviewSettled(candidate) => ReviewSettled(candidate')
          /\ candidate.state \in TERMINAL_STATES => candidate' = candidate ]_vars
  BY StepEffect DEF SaveEffect
<1> QED BY <1>1, EvidenceInv, PTL DEF Spec, PassIsFinal

-----------------------------------------------------------------------------
(* Attempts.  A command opens an account when it asks the Generator for an *)
(* output (a retry, a revision, or the first item), and the output settles *)
(* it: as an attempt that counts or as a counted failure that stays        *)
(* pending.                                                                *)

GeneratorFailures(c) ==
  RetryCount(c, "system", "generator") + RetryCount(c, "content", "generator")

Pending(c) == c.failure # None /\ c.failure.stage = "generator"

Accounted(c) ==
  /\ c.discard_note => c.state = "DISCARDED"
  /\ c.generation_attempt
       + (IF c.state = "REVISE_REQUIRED" \/ c.discard_note THEN 1 ELSE 0)
       = c.revision_count + 1
  /\ c.generation_attempt + GeneratorFailures(c)
       = c.generation_history + (IF Pending(c) THEN 1 ELSE 0)

\* The record just before the Generator's output is applied.
Asked(c) ==
  /\ ~ c.discard_note
  /\ c.generation_attempt = c.revision_count + 1
  /\ c.generation_attempt + GeneratorFailures(c) = c.generation_history + 1

LEMMA FailureNumbers ==
  ASSUME NEW c \in Candidate
  PROVE  /\ GeneratorFailures(c) \in Nat
         /\ c.generation_history \in Nat /\ c.generation_attempt \in Nat
         /\ c.revision_count \in Nat
BY Numbers DEF GeneratorFailures, RetryCount, RETRY_STAGES

LEMMA FailureNotNone ==
  ASSUME NEW d, NEW kind \in FailureKinds, NEW stage \in RETRY_STAGES,
         FailedBy(d, kind, stage)
  PROVE  d.failure # None /\ d.failure.stage = stage /\ d.failure.kind = kind
<1>1. [kind |-> kind, stage |-> stage] \in Failure
  BY DEF Failure
<1> QED BY <1>1, NoneAssumption DEF FailedBy

LEMMA FailedNotRouted ==
  ASSUME NEW d, NEW kind \in FailureKinds, NEW stage, FailedBy(d, kind, stage)
  PROVE  d.state \notin {"REVISE_REQUIRED", "DISCARDED"}
BY DEF FailedBy, FailedStateOf, Raised

\* Only a failure of the Generator's changes the Generator's failures.
LEMMA CountedFailures ==
  ASSUME NEW c \in Candidate, NEW d, NEW kind \in FailureKinds, NEW stage \in RETRY_STAGES
  PROVE  /\ SameCounts(c, d) => GeneratorFailures(d) = GeneratorFailures(c)
         /\ Counted(c, d, kind, stage) /\ stage # "generator" =>
              GeneratorFailures(d) = GeneratorFailures(c)
         /\ Counted(c, d, kind, "generator") =>
              GeneratorFailures(d) = GeneratorFailures(c) + 1
<1>1. RetryCount(c, "system", "generator") \in Nat /\ RetryCount(c, "content", "generator") \in Nat
  BY Numbers DEF RetryCount, RETRY_STAGES
<1>2. SameCounts(c, d) => GeneratorFailures(d) = GeneratorFailures(c)
  BY DEF SameCounts, GeneratorFailures, RetryCount
<1>3. ASSUME NEW s, Counted(c, d, kind, s)
      PROVE  /\ RetryCount(d, "system", "generator") = RetryCount(c, "system", "generator")
                  + (IF "system" = kind /\ "generator" = s THEN 1 ELSE 0)
             /\ RetryCount(d, "content", "generator") = RetryCount(c, "content", "generator")
                  + (IF "content" = kind /\ "generator" = s THEN 1 ELSE 0)
  BY <1>3 DEF Counted, FailureKinds, RETRY_STAGES
<1>4. Counted(c, d, kind, stage) /\ stage # "generator" =>
        GeneratorFailures(d) = GeneratorFailures(c)
  BY <1>1, <1>3 DEF GeneratorFailures
<1>5. Counted(c, d, kind, "generator") => GeneratorFailures(d) = GeneratorFailures(c) + 1
  <2> SUFFICES ASSUME Counted(c, d, kind, "generator")
               PROVE  GeneratorFailures(d) = GeneratorFailures(c) + 1
    OBVIOUS
  <2>1. CASE kind = "system"
    BY <1>1, <1>3, <2>1 DEF GeneratorFailures
  <2>2. CASE kind = "content"
    BY <1>1, <1>3, <2>2 DEF GeneratorFailures
  <2> QED BY <2>1, <2>2 DEF FailureKinds
<1> QED BY <1>2, <1>4, <1>5

\* A step that leaves the Generator alone leaves the books alone.
LEMMA BooksKept ==
  ASSUME NEW c \in Candidate, NEW d \in Candidate, Accounted(c), ~ c.discard_note,
         d.generation_attempt = c.generation_attempt,
         d.generation_history = c.generation_history,
         d.revision_count = c.revision_count,
         d.discard_note = c.discard_note,
         GeneratorFailures(d) = GeneratorFailures(c),
         Pending(d) <=> Pending(c),
         d.state = "REVISE_REQUIRED" <=> c.state = "REVISE_REQUIRED"
  PROVE  Accounted(d)
BY DEF Accounted

LEMMA GenerationAccounts ==
  ASSUME NEW c \in Candidate, Asked(c), NEW body \in GeneratorBody, NEW crash \in BOOLEAN
  PROVE  Accounted(apply_generation_result(c, body, crash))
<1> DEFINE d == apply_generation_result(c, body, crash)
<1>1. /\ d \in Candidate
      /\ d.generation_attempt = c.generation_attempt
      /\ d.generation_history = c.generation_history + 1
      /\ d.revision_count = c.revision_count
      /\ d.discard_note = c.discard_note
      /\ \/ d.state \in {"REVIEWING", Raised} /\ d.failure = None /\ SameCounts(c, d)
         \/ \E kind \in FailureKinds :
              FailedBy(d, kind, "generator") /\ Counted(c, d, kind, "generator")
  BY GenerationCounts, GenerationEffect
<1> HIDE DEF d
<1>2. CASE d.state \in {"REVIEWING", Raised} /\ d.failure = None /\ SameCounts(c, d)
  <2>1. GeneratorFailures(d) = GeneratorFailures(c)
    BY <1>2, CountedFailures DEF FailureKinds, RETRY_STAGES
  <2>2. ~ Pending(d) /\ d.state # "REVISE_REQUIRED"
    BY <1>2 DEF Pending, Raised
  <2> QED BY <1>1, <2>1, <2>2, FailureNumbers DEF Accounted, Asked, d
<1>3. ASSUME NEW kind \in FailureKinds,
             FailedBy(d, kind, "generator"), Counted(c, d, kind, "generator")
      PROVE  Accounted(d)
  <2>1. GeneratorFailures(d) = GeneratorFailures(c) + 1
    BY <1>3, CountedFailures DEF RETRY_STAGES
  <2>2. Pending(d) /\ d.state # "REVISE_REQUIRED"
    BY <1>3, FailureNotNone, FailedNotRouted DEF Pending, RETRY_STAGES
  <2> QED BY <1>1, <2>1, <2>2, FailureNumbers DEF Accounted, Asked
<1> QED BY <1>1, <1>2, <1>3 DEF d

LEMMA ReviewAccounts ==
  ASSUME NEW c, Saved(c), Accounted(c), AwaitsReview(c),
         NEW out \in ReviewerItem, NEW crash \in BOOLEAN,
         ReviewCandidate(c, out, crash).state # Raised
  PROVE  Accounted(ReviewCandidate(c, out, crash))
<1> DEFINE x == IF FailedAt(c, "reviewer") THEN retry_failed_stage(c) ELSE c
           d == apply_review_result(x, out, crash)
<1>1. c \in Candidate /\ ~ Pending(c) /\ ~ c.discard_note /\ c.state # "REVISE_REQUIRED"
  BY DEF Saved, validate_candidate_invariants, FailureConsistent, AwaitsReview, FailedAt,
     FailedStates, Pending, Accounted
<1>2. /\ x \in Candidate /\ SameAttempts(c, x) /\ SameCounts(c, x) /\ ~ Pending(x)
      /\ x.state \in {"REVIEWING", "MANUAL_REVIEW", Raised}
  <2>1. CASE FailedAt(c, "reviewer")
    BY <1>1, <2>1, RetryEffect, RetryCounts DEF RETRY_STAGES, STAGE_RETRY_STATES, Pending
  <2>2. CASE ~ FailedAt(c, "reviewer")
    BY <1>1, <2>2 DEF AwaitsReview, SameAttempts, SameCounts
  <2> QED BY <2>1, <2>2
<1> HIDE DEF x
<1>3. Accounted(x)
  <2>1. GeneratorFailures(x) = GeneratorFailures(c)
    BY <1>1, <1>2, CountedFailures DEF FailureKinds, RETRY_STAGES
  <2> QED BY <1>1, <1>2, <2>1, BooksKept DEF SameAttempts, Raised
<1>4. ReviewCandidate(c, out, crash) = IF x.state = "REVIEWING" THEN d ELSE x
  BY DEF ReviewCandidate, x
<1>5. ASSUME x.state = "REVIEWING", d.state # Raised PROVE Accounted(d)
  <2>1. /\ d \in Candidate
        /\ d.generation_attempt = x.generation_attempt
        /\ d.generation_history = x.generation_history
        /\ \/ /\ SameCounts(x, d) /\ d.failure = None
              /\ d.revision_count = x.revision_count
                   + (IF out.body.verdict = "REVISE" THEN 1 ELSE 0)
              /\ d.discard_note => d.state \in {"DISCARDED", Raised}
              /\ d.discard_note \/ d.state \in {"REVISE_REQUIRED", Raised}
                   <=> out.body.verdict = "REVISE" \/ d.state = Raised
           \/ /\ d.revision_count = x.revision_count
              /\ d.discard_note = x.discard_note
              /\ \E kind \in FailureKinds :
                   FailedBy(d, kind, "reviewer") /\ Counted(x, d, kind, "reviewer")
    <3>1. d \in Candidate
      <4>1. out # None
        BY NoneAssumption
      <4> QED BY <1>2, <4>1, ApplyReviewType
    <3> QED BY <1>2, <3>1, ReviewCounts
  <2>2. ~ x.discard_note /\ ~ Pending(x)
    BY <1>1, <1>2 DEF SameAttempts
  <2> HIDE DEF d
  <2>3. CASE /\ SameCounts(x, d) /\ d.failure = None
             /\ d.revision_count = x.revision_count
                  + (IF out.body.verdict = "REVISE" THEN 1 ELSE 0)
             /\ d.discard_note => d.state \in {"DISCARDED", Raised}
             /\ d.discard_note \/ d.state \in {"REVISE_REQUIRED", Raised}
                  <=> out.body.verdict = "REVISE" \/ d.state = Raised
    <3>1. GeneratorFailures(d) = GeneratorFailures(x) /\ ~ Pending(d)
      BY <1>2, <2>3, CountedFailures DEF FailureKinds, RETRY_STAGES, Pending
    <3>2. d.discard_note \/ d.state = "REVISE_REQUIRED" <=> out.body.verdict = "REVISE"
      BY <1>5, <2>3
    <3> QED BY <1>2, <1>3, <1>5, <2>1, <2>2, <2>3, <3>1, <3>2, FailureNumbers DEF Accounted
  <2>4. ASSUME d.revision_count = x.revision_count, d.discard_note = x.discard_note,
               NEW kind \in FailureKinds,
               FailedBy(d, kind, "reviewer"), Counted(x, d, kind, "reviewer")
        PROVE  Accounted(d)
    <3>1. GeneratorFailures(d) = GeneratorFailures(x)
      BY <1>2, <2>4, CountedFailures DEF RETRY_STAGES
    <3>2. ~ Pending(d) /\ d.state # "REVISE_REQUIRED"
      BY <2>4, FailureNotNone, FailedNotRouted DEF Pending, RETRY_STAGES
    <3> QED BY <1>2, <1>3, <1>5, <2>1, <2>2, <2>4, <3>1, <3>2, BooksKept
  <2> QED BY <2>1, <2>3, <2>4
<1> QED BY <1>3, <1>4, <1>5

LEMMA ReviseAccounts ==
  ASSUME NEW c, Saved(c), Accounted(c), AwaitsRevision(c),
         NEW body \in GeneratorBody, NEW crash \in BOOLEAN
  PROVE  Accounted(ReviseCandidate(c, body, crash))
<1> DEFINE t == transition(c, "GENERATED")
           attempt == t.generation_attempt + 1
           begun == [t EXCEPT !.reviewer_item = None, !.reviewer_input = None,
                       !.solver_item = None, !.solver_input = None,
                       !.leakage_check = None, !.consensus = None, !.failure = None,
                       !.generation_attempt = attempt]
           x == IF FailedAt(c, "generator") THEN retry_failed_stage(c) ELSE begun
<1>1. /\ c \in Candidate /\ ~ c.discard_note
      /\ Pending(c) <=> FailedAt(c, "generator")
      /\ c.state = "REVISE_REQUIRED" <=> ~ FailedAt(c, "generator")
  BY DEF Saved, validate_candidate_invariants, FailureConsistent, AwaitsRevision, FailedAt,
     FailedStates, Pending, Accounted
<1>2. CASE FailedAt(c, "generator")
  <2>1. x \in Candidate /\ SameAttempts(c, x) /\ SameCounts(c, x)
    BY <1>1, <1>2, RetryEffect, RetryCounts DEF RETRY_STAGES
  <2>2. GeneratorFailures(x) = GeneratorFailures(c)
    <3> HIDE DEF x
    <3> QED BY <1>1, <2>1, CountedFailures DEF FailureKinds, RETRY_STAGES
  <2>3. Asked(x)
    <3> HIDE DEF x
    <3> QED BY <1>1, <1>2, <2>1, <2>2, FailureNumbers DEF Asked, Accounted, SameAttempts
  <2> QED BY <2>1, <2>3, GenerationAccounts DEF ReviseCandidate, begin_revision
<1>3. CASE ~ FailedAt(c, "generator")
  <2>1. t \in Candidate /\ SameAttempts(c, t) /\ SameCounts(c, t)
    BY <1>1, TransitionType, TransitionAttempts, TransitionFields DEF VALID_STATES
  <2>2. /\ begun \in Candidate /\ SameCounts(t, begun)
        /\ begun.generation_attempt = attempt
        /\ begun.generation_history = t.generation_history
        /\ begun.revision_count = t.revision_count
        /\ begun.discard_note = t.discard_note
    <3>1. attempt \in Nat
      <4> HIDE DEF t
      <4> QED BY <2>1 DEF Candidate
    <3> HIDE DEF t, attempt
    <3> QED BY <2>1, <3>1 DEF Candidate, SameCounts
  <2>3. GeneratorFailures(begun) = GeneratorFailures(c)
    <3> HIDE DEF t, begun
    <3>1. SameCounts(c, begun)
      BY <2>1, <2>2 DEF SameCounts
    <3> QED BY <1>1, <3>1, CountedFailures DEF FailureKinds, RETRY_STAGES
  <2>4. attempt = c.generation_attempt + 1
    <3> HIDE DEF t
    <3> QED BY <2>1 DEF SameAttempts
  <2>5. Asked(begun)
    <3> HIDE DEF t, begun, attempt
    <3> QED BY <1>1, <1>3, <2>1, <2>2, <2>3, <2>4, FailureNumbers
            DEF Asked, Accounted, SameAttempts
  <2>6. ReviseCandidate(c, body, crash) = apply_generation_result(begun, body, crash)
    BY <1>3 DEF ReviseCandidate, begin_revision
  <2> HIDE DEF begun
  <2> QED BY <2>2, <2>5, <2>6, GenerationAccounts
<1> QED BY <1>2, <1>3

LEMMA PrepareAccounts ==
  ASSUME NEW c, Saved(c), Accounted(c)
  PROVE  \/ PrepareCandidate(c) = c
         \/ PrepareCandidate(c).state = Raised
         \/ Accounted(PrepareCandidate(c))
<1> DEFINE x == IF FailedAt(c, "solver") THEN retry_failed_stage(c) ELSE c
           d == prepare_solver_input(x)
<1>1. CASE ~ FailedAt(c, "solver") /\ c.state # "SOLVING"
  BY <1>1 DEF PrepareCandidate
<1>2. CASE FailedAt(c, "solver") \/ c.state = "SOLVING"
  <2>1. c \in Candidate /\ ~ Pending(c) /\ ~ c.discard_note /\ c.state # "REVISE_REQUIRED"
    BY <1>2 DEF Saved, validate_candidate_invariants, FailureConsistent, FailedAt,
       FailedStates, Pending, Accounted
  <2>2. /\ x \in Candidate /\ SameAttempts(c, x) /\ SameCounts(c, x) /\ ~ Pending(x)
        /\ x.state \in {"SOLVING", "MANUAL_REVIEW", Raised}
    <3>1. CASE FailedAt(c, "solver")
      BY <2>1, <3>1, RetryEffect, RetryCounts DEF RETRY_STAGES, STAGE_RETRY_STATES, Pending
    <3>2. CASE ~ FailedAt(c, "solver")
      BY <1>2, <2>1, <3>2 DEF SameAttempts, SameCounts
    <3> QED BY <3>1, <3>2
  <2>3. Accounted(x)
    <3> HIDE DEF x
    <3>1. GeneratorFailures(x) = GeneratorFailures(c)
      BY <2>1, <2>2, CountedFailures DEF FailureKinds, RETRY_STAGES
    <3> QED BY <2>1, <2>2, <3>1, BooksKept DEF SameAttempts, Raised
  <2>4. Accounted(d)
    <3> HIDE DEF x
    <3>1. /\ d \in Candidate /\ SameAttempts(x, d)
          /\ \/ SameCounts(x, d) /\ d.failure = x.failure /\ d.state = x.state
             \/ FailedBy(d, "content", "solver") /\ Counted(x, d, "content", "solver")
      BY <2>2, PrepareCounts, PrepareInputType
    <3> HIDE DEF d
    <3>2. GeneratorFailures(d) = GeneratorFailures(x)
      BY <2>2, <3>1, CountedFailures DEF FailureKinds, RETRY_STAGES
    <3>3. ~ Pending(d) /\ d.state # "REVISE_REQUIRED"
      BY <2>2, <3>1, FailureNotNone, FailedNotRouted
         DEF Pending, RETRY_STAGES, FailureKinds, Raised
    <3> QED BY <2>1, <2>2, <2>3, <3>1, <3>2, <3>3, BooksKept DEF SameAttempts, Raised
  <2>5. PrepareCandidate(c) \in {d, x}
    BY DEF PrepareCandidate
  <2> HIDE DEF d, x
  <2> QED BY <2>3, <2>4, <2>5
<1> QED BY <1>1, <1>2

LEMMA SolveAccounts ==
  ASSUME NEW c, Saved(c), Accounted(c), c.state = "SOLVING", c.solver_input # None,
         NEW out \in SolverItem, NEW crash \in BOOLEAN, NEW keep \in BOOLEAN
  PROVE  Accounted(SolveCandidate(c, out, crash, keep))
<1> DEFINE kept == IF keep THEN out ELSE c.solver_item
           e == [c EXCEPT !.solver_item = kept]
           d == SolveCandidate(c, out, crash, keep)
<1>1. /\ c \in Candidate /\ ~ Pending(c) /\ ~ c.discard_note
      /\ c.solver_input \in Nat /\ c.generator_item.body.ident
  BY DEF Saved, validate_candidate_invariants, FailureConsistent, IdentityConsistent,
     FailedStates, Pending, Accounted, Candidate
<1>2. /\ e \in Candidate /\ SameAttempts(c, e) /\ SameCounts(c, e)
      /\ e.state = c.state /\ e.failure = c.failure
      /\ e.generator_item = c.generator_item
  <2>1. kept \in SolverItem \cup {None}
    BY <1>1 DEF Candidate
  <2> HIDE DEF kept
  <2> QED BY <1>1, <2>1 DEF Candidate, SameAttempts, SameCounts
<1>3. d = process_solver_stage(e, out, c.solver_input, crash)
  <2>1. [c EXCEPT !.solver_item = c.solver_item] = c
    BY <1>1 DEF Candidate
  <2>2. e = IF keep THEN [c EXCEPT !.solver_item = out] ELSE c
    BY <2>1
  <2>3. ~ FailedAt(c, "solver")
    BY DEF FailedAt, FailedStates
  <2> HIDE DEF e
  <2> QED BY <2>2, <2>3 DEF SolveCandidate
<1>4. Accounted(e)
  <2> HIDE DEF e
  <2>1. GeneratorFailures(e) = GeneratorFailures(c)
    BY <1>1, <1>2, CountedFailures DEF FailureKinds, RETRY_STAGES
  <2> QED BY <1>1, <1>2, <2>1, BooksKept DEF SameAttempts, Pending
<1>5. /\ d \in Candidate /\ SameAttempts(e, d)
      /\ \/ SameCounts(e, d) /\ d.failure = None
         \/ \E kind \in FailureKinds, stage \in RETRY_STAGES :
              /\ FailedBy(d, kind, stage) /\ Counted(e, d, kind, stage)
              /\ stage # "generator"
  <2> HIDE DEF e, d
  <2> QED BY <1>1, <1>2, <1>3, SolverCounts, SolverStageType
<1>6. GeneratorFailures(d) = GeneratorFailures(e) /\ ~ Pending(d)
  <2> HIDE DEF e, d
  <2>1. CASE SameCounts(e, d) /\ d.failure = None
    BY <1>2, <2>1, CountedFailures DEF FailureKinds, RETRY_STAGES, Pending
  <2>2. ASSUME NEW kind \in FailureKinds, NEW stage \in RETRY_STAGES,
               FailedBy(d, kind, stage), Counted(e, d, kind, stage), stage # "generator"
        PROVE  GeneratorFailures(d) = GeneratorFailures(e) /\ ~ Pending(d)
    <3>1. GeneratorFailures(d) = GeneratorFailures(e)
      BY <1>2, <2>2, CountedFailures
    <3>2. d.failure.stage = stage
      BY <2>2, FailureNotNone
    <3> QED BY <2>2, <3>1, <3>2 DEF Pending
  <2> QED BY <1>5, <2>1, <2>2
<1>7. d.state # "REVISE_REQUIRED"
  <2>1. d.state \in TERMINAL_STATES \cup {Raised} \cup FailedStates
    <3> HIDE DEF e, d
    <3>1. /\ e.solver_input = c.solver_input /\ e.reviewer_input = c.reviewer_input
          /\ e.reviewer_item = c.reviewer_item
      BY <1>1 DEF e, Candidate
    <3>2. InputsCanonical(e) /\ e.reviewer_item.body.ident
      BY <1>2, <3>1 DEF Saved, validate_candidate_invariants, InputsCanonical, ReviewGates,
         IdentityConsistent, canonical_input
    <3>3. e.solver_input # None /\ e.generator_item.body.ident
      BY <1>1, <1>2, <3>1
    <3>4. \/ d.state \in TERMINAL_STATES \cup {Raised}
          \/ \E kind \in FailureKinds : FailedBy(d, kind, "solver")
      BY <1>2, <1>3, <3>1, <3>2, <3>3, SolverEffect
    <3> QED BY <3>4, FailedStatesApart DEF FailedBy, TERMINAL_STATES
  <2> HIDE DEF d
  <2> QED BY <2>1 DEF TERMINAL_STATES, FailedStates, Raised
<1> HIDE DEF e, d
<1>8. Accounted(d)
  BY <1>1, <1>2, <1>4, <1>5, <1>6, <1>7, BooksKept DEF SameAttempts, Pending
<1> QED BY <1>8 DEF d

\* AttemptAccounting: whatever mix of retries, revisions, refusals and
\* crashes, every output is an attempt that counts or a counted failure.
THEOREM AttemptsAccounted == Spec => []AttemptAccounting
<1>1. Init => Accounted(candidate)
  <2> SUFFICES ASSUME Init PROVE Accounted(candidate)
    OBVIOUS
  <2>1. PICK b \in GeneratorBody, crash \in BOOLEAN : candidate = NewCandidate(b, crash)
    BY BodiesAssumption DEF Init
  <2> DEFINE item == [body |-> b, ver |-> 0]
             zero == [s \in RETRY_STAGES |-> 0]
             blank ==
    [state |-> "GENERATED", generation_attempt |-> 1, revision_count |-> 0,
     system_failure_retries |-> zero, validation_failure_retries |-> zero,
     generator_item |-> item,
     reviewer_item |-> None, reviewer_input |-> None,
     solver_item |-> None, solver_input |-> None, leakage_check |-> None,
     consensus |-> None, acceptance_policy |-> None, failure |-> None,
     discard_note |-> FALSE, generation_history |-> 0, review_history |-> {}]
  <2>2. item \in GeneratorItem /\ zero \in Retries /\ zero["generator"] = 0
    BY DEF GeneratorItem, Retries, RETRY_STAGES
  <2>3. blank \in Candidate /\ Asked(blank)
    <3> HIDE DEF item, zero
    <3> QED BY <2>2 DEF Candidate, States, VALID_STATES, Asked, GeneratorFailures, RetryCount
  <2>4. candidate = apply_generation_result(blank, b, crash)
    BY <2>1 DEF NewCandidate
  <2> HIDE DEF blank
  <2> QED BY <2>3, <2>4, GenerationAccounts
<1>2. Saved(candidate) /\ Accounted(candidate) /\ [Next]_vars => Accounted(candidate)'
  <2> SUFFICES ASSUME Saved(candidate), Accounted(candidate), [Next]_vars
               PROVE  Accounted(candidate')
    OBVIOUS
  <2> USE BodiesAssumption
  <2>1. ASSUME NEW d, Save(d), d = candidate \/ d.state = Raised \/ Accounted(d)
        PROVE  Accounted(candidate')
    BY <2>1 DEF Save, validate_candidate_invariants, VALID_STATES, FailedStates,
                TERMINAL_STATES, Raised
  <2>2. CASE ApplyReview
    <3>1. PICK out \in ReviewOutputs, crash \in BOOLEAN :
            Save(ReviewCandidate(candidate, out, crash))
      BY <2>2 DEF ApplyReview
    <3>2. out \in ReviewerItem
      <4>1. candidate.generator_item.ver \in Nat
            /\ \A h \in candidate.review_history : h.output \in ReviewerItem
        BY DEF Saved, Candidate, GeneratorItem
      <4> QED BY <4>1 DEF ReviewOutputs, ReviewerItem
    <3> QED BY <2>1, <2>2, <3>1, <3>2, ReviewAccounts DEF ApplyReview
  <2>3. CASE ApplyRevision
    <3>1. PICK b \in GeneratorBodies, crash \in BOOLEAN :
            Save(ReviseCandidate(candidate, b, crash))
      BY <2>3 DEF ApplyRevision
    <3> QED BY <2>1, <2>3, <3>1, ReviseAccounts DEF ApplyRevision
  <2>4. CASE PrepareSolverBatch
    BY <2>1, <2>4, PrepareAccounts DEF PrepareSolverBatch
  <2>5. CASE ApplySolver
    <3>1. PICK b \in SolverBodies, crash \in BOOLEAN :
            Save(SolveCandidate(candidate, [body |-> b, of |-> candidate.solver_input],
                                crash, KeepSolverOutput))
      BY <2>5 DEF ApplySolver
    <3>2. [body |-> b, of |-> candidate.solver_input] \in SolverItem
      BY <2>5 DEF ApplySolver, Saved, Candidate, SolverItem
    <3> QED BY <2>1, <2>5, <3>1, <3>2, SolveAccounts DEF ApplySolver
  <2>6. CASE UNCHANGED vars
    BY <2>6 DEF vars
  <2> QED BY <2>2, <2>3, <2>4, <2>5, <2>6 DEF Next
<1>3. Saved(candidate) /\ Accounted(candidate) => AttemptAccounting
  <2> SUFFICES ASSUME Saved(candidate), Accounted(candidate) PROVE AttemptAccounting
    OBVIOUS
  <2>1. candidate \in Candidate
    BY DEF Saved
  <2>2. /\ candidate.generation_attempt \in Nat
        /\ Count("system", "generator") \in Nat /\ Count("content", "generator") \in Nat
    BY <2>1, Numbers DEF Count, RetryCount, RETRY_STAGES
  <2>3. /\ GeneratorFailures(candidate)
             = Count("system", "generator") + Count("content", "generator")
        /\ candidate.generation_attempt + GeneratorFailures(candidate)
             = candidate.generation_history + (IF Pending(candidate) THEN 1 ELSE 0)
    BY DEF Accounted, GeneratorFailures, Count
  <2> QED BY <2>2, <2>3 DEF Accounted, AttemptAccounting, Pending
<1> QED BY <1>1, <1>2, <1>3, EvidenceInv, PTL DEF Spec

-----------------------------------------------------------------------------
(* Saves.  No command is refused.  The outputs carry the Candidate's       *)
(* identity: one that does not is stored and then refused by the save,     *)
(* which is what NeverRefused is not about.  Every move the code attempts  *)
(* is in the table, and every record it makes passes the validation.       *)

AllIdent == \A b \in GeneratorBodies \cup ReviewBodies \cup SolverBodies : b.ident

Working == {"GENERATED", "REVIEWING", "SOLVING"}

LEMMA FailureLands ==
  ASSUME NEW c \in Candidate, c.state \in Working,
         NEW kind \in FailureKinds, NEW stage \in RETRY_STAGES
  PROVE  record_stage_failure(c, kind, stage).state \in {FailedStateOf(kind), "MANUAL_REVIEW"}
<1> DEFINE count == RetryCount(c, kind, stage) + 1
           sys == IF kind = "system"
                  THEN [c.system_failure_retries EXCEPT ![stage] = count]
                  ELSE c.system_failure_retries
           val == IF kind = "content"
                  THEN [c.validation_failure_retries EXCEPT ![stage] = count]
                  ELSE c.validation_failure_retries
           fail == [kind |-> kind, stage |-> stage]
           f == [c EXCEPT !.system_failure_retries = sys,
                          !.validation_failure_retries = val,
                          !.failure = fail]
           failed == transition(f, FailedStateOf(kind))
           last == transition(failed, "MANUAL_REVIEW")
<1>1. sys \in Retries /\ val \in Retries /\ fail \in Failure
  <2>1. count \in Nat
    BY DEF RetryCount, Candidate, Retries
  <2> HIDE DEF count
  <2> QED BY <2>1 DEF Candidate, Retries, Failure
<1>2. f \in Candidate /\ f.state = c.state
  <2> HIDE DEF sys, val, fail
  <2> QED BY <1>1 DEF Candidate
<1>3. failed \in Candidate /\ failed.state = FailedStateOf(kind)
  <2> HIDE DEF f
  <2>1. FailedStateOf(kind) \in ALLOWED_TRANSITIONS[f.state]
        /\ f.state \in VALID_STATES /\ FailedStateOf(kind) \in VALID_STATES
    BY <1>2 DEF ALLOWED_TRANSITIONS, VALID_STATES, FailedStateOf, FailedStates, Working
  <2>2. failed \in Candidate
    BY <1>2, <2>1, TransitionType
  <2> QED BY <1>2, <2>1, <2>2 DEF transition, Candidate
<1>4. last.state = "MANUAL_REVIEW"
  <2> HIDE DEF failed
  <2>1. "MANUAL_REVIEW" \in ALLOWED_TRANSITIONS[FailedStateOf(kind)]
        /\ FailedStateOf(kind) \in VALID_STATES
    BY DEF ALLOWED_TRANSITIONS, VALID_STATES, FailedStateOf, FailedStates
  <2> QED BY <1>3, <2>1 DEF transition, Candidate
<1>5. record_stage_failure(c, kind, stage) \in {failed, last}
  BY DEF record_stage_failure, FailWith
<1> HIDE DEF failed, last
<1> QED BY <1>3, <1>4, <1>5

\* Within its budget a failed stage is armed again.
LEMMA RetryArms ==
  ASSUME NEW c \in Candidate, NEW stage \in RETRY_STAGES, FailedAt(c, stage), Within(c)
  PROVE  LET d == retry_failed_stage(c)
         IN  /\ d \in Candidate
             /\ d.state = STAGE_RETRY_STATES[stage]
             /\ d.failure = None /\ d.solver_item = None /\ d.consensus = None
             /\ d.generator_item = c.generator_item
             /\ d.review_history = c.review_history
             /\ d.acceptance_policy = c.acceptance_policy
             /\ d.reviewer_item = IF stage = "generator" THEN None ELSE c.reviewer_item
             /\ d.reviewer_input = IF stage = "generator" THEN None ELSE c.reviewer_input
             /\ d.solver_input = IF stage = "solver" THEN c.solver_input ELSE None
<1> DEFINE armed == transition(c, STAGE_RETRY_STATES[stage])
           rItem == IF stage = "generator" THEN None ELSE armed.reviewer_item
           rInput == IF stage = "generator" THEN None ELSE armed.reviewer_input
           sInput == IF stage = "solver" THEN armed.solver_input ELSE None
           leak == IF stage = "solver" THEN armed.leakage_check ELSE None
           d == [armed EXCEPT !.failure = None, !.reviewer_item = rItem,
                   !.reviewer_input = rInput, !.solver_item = None,
                   !.solver_input = sInput, !.leakage_check = leak, !.consensus = None]
<1>1. c.failure # None /\ c.failure.stage = stage /\ c.failure.kind \in FailureKinds
  BY DEF FailedAt, Candidate, Failure
<1>2. ~ (RetryCount(c, c.failure.kind, stage) > retry_limit(c.failure.kind))
  <2>1. RetryCount(c, c.failure.kind, stage) \in Nat
    BY <1>1 DEF RetryCount, Candidate, Retries
  <2>2. RetryCount(c, c.failure.kind, stage) <= retry_limit(c.failure.kind)
    BY <1>1 DEF Within
  <2> QED BY <1>1, <2>1, <2>2, LimitType
<1>3. /\ STAGE_RETRY_STATES[stage] \in VALID_STATES
      /\ c.state \in VALID_STATES
      /\ STAGE_RETRY_STATES[stage] \in ALLOWED_TRANSITIONS[c.state]
  BY DEF STAGE_RETRY_STATES, RETRY_STAGES, VALID_STATES, ALLOWED_TRANSITIONS, FailedAt,
     FailedStates
<1>4. /\ armed \in Candidate /\ SameItems(c, armed) /\ SameRest(c, armed)
      /\ armed.state = STAGE_RETRY_STATES[stage]
  <2>1. armed.state = STAGE_RETRY_STATES[stage]
    BY <1>3 DEF transition, Candidate
  <2> QED BY <1>3, <2>1, TransitionType, TransitionKeeps
<1>5. /\ d.state = armed.state
      /\ d.failure = None /\ d.solver_item = None /\ d.consensus = None
      /\ d.generator_item = armed.generator_item
      /\ d.review_history = armed.review_history
      /\ d.acceptance_policy = armed.acceptance_policy
      /\ d.reviewer_item = rItem /\ d.reviewer_input = rInput /\ d.solver_input = sInput
  <2> HIDE DEF armed, rItem, rInput, sInput, leak
  <2> QED BY <1>4 DEF Candidate
<1>6. retry_failed_stage(c) = d
  BY <1>1, <1>2 DEF retry_failed_stage
<1>7. d \in Candidate
  <2> HIDE DEF d
  <2> QED BY <1>1, <1>6, RetryType
<1> HIDE DEF d, armed
<1> QED BY <1>4, <1>5, <1>6, <1>7 DEF SameItems, SameRest

LEMMA WithinNow ==
  ASSUME TypeOK, RetryBudgets, NEW stage,
         FailedAt(candidate, stage)
  PROVE  Within(candidate)
BY BudgetsWithin DEF FailedAt, FailedStates

\* A failed stage's record is one the save accepts.
LEMMA FailedIsValid ==
  ASSUME NEW d \in Candidate, NEW kind \in FailureKinds, NEW stage \in RETRY_STAGES,
         FailedBy(d, kind, stage), d.state # Raised,
         IdentityConsistent(d), InputsCanonical(d), d.acceptance_policy = None
  PROVE  validate_candidate_invariants(d)
<1>1. d.failure # None /\ d.failure.kind = kind
  BY FailureNotNone
<1>2. d.state \in {FailedStateOf(kind), "MANUAL_REVIEW"}
  BY DEF FailedBy
<1>3. FailureConsistent(d)
  BY <1>1, <1>2 DEF FailureConsistent, FailedStateOf, FailedStates, FailureKinds
<1>4. d.state \in FailedStates \cup {"MANUAL_REVIEW"}
  BY <1>2, FailedStatesApart
<1> QED BY <1>1, <1>3, <1>4 DEF validate_candidate_invariants, VALID_STATES, FailedStates,
       TERMINAL_STATES, ReviewGates, AcceptanceEvidence, TerminalEvidence

-----------------------------------------------------------------------------
(* Saves: the stages, from the states the commands call them in.           *)

LEMMA GenerationStage ==
  ASSUME NEW c \in Candidate, c.state = "GENERATED", Bare(c), c.reviewer_item = None,
         c.reviewer_input = None, c.acceptance_policy = None,
         \A h \in c.review_history : h.output.body.ident,
         NEW body \in GeneratorBody, body.ident, NEW crash \in BOOLEAN
  PROVE  LET d       == apply_generation_result(c, body, crash)
             outcome == StageOutcome(body, crash)
         IN  /\ validate_candidate_invariants(d)
             /\ outcome \in FailureKinds => Counted(c, d, outcome, "generator")
<1> DEFINE n == c.generation_history + 1
           item == [body |-> body, ver |-> n]
           b == [c EXCEPT !.generator_item = item, !.generation_history = n]
           outcome == StageOutcome(body, crash)
           d == apply_generation_result(c, body, crash)
<1>1. /\ d \in Candidate /\ d.state # Raised /\ Bare(d)
      /\ d.generator_item.body = body
      /\ d.reviewer_item = None /\ d.review_history = c.review_history
      /\ d.acceptance_policy = None
      /\ d.reviewer_input \in {None, canonical_input(d.generator_item)}
      /\ \/ d.state \in {"REVIEWING", Raised} /\ d.failure = None /\ body.shape = "ok"
         \/ \E kind \in FailureKinds : FailedBy(d, kind, "generator")
  BY GenerationEffect, GenerationDoesNotRaise DEF Bare
<1>2. IdentityConsistent(d) /\ InputsCanonical(d)
  <2> HIDE DEF d
  <2> QED BY <1>1 DEF IdentityConsistent, InputsCanonical, Bare
<1>3. validate_candidate_invariants(d)
  <2> HIDE DEF d
  <2>1. CASE d.state = "REVIEWING" /\ d.failure = None
    BY <1>1, <1>2, <2>1 DEF validate_candidate_invariants, VALID_STATES, FailureConsistent,
       ReviewGates, AcceptanceEvidence, TerminalEvidence, FailedStates, Bare
  <2>2. ASSUME NEW kind \in FailureKinds, FailedBy(d, kind, "generator")
        PROVE  validate_candidate_invariants(d)
    BY <1>1, <1>2, <2>2, FailedIsValid DEF RETRY_STAGES
  <2> QED BY <1>1, <2>1, <2>2
<1>4. ASSUME outcome \in FailureKinds PROVE Counted(c, d, outcome, "generator")
  <2>1. b \in Candidate /\ SameCounts(c, b) /\ b.generator_item.body = body
    <3>1. n \in Nat /\ item \in GeneratorItem /\ item.body = body
      BY DEF Candidate, GeneratorItem
    <3> HIDE DEF n, item
    <3> QED BY <3>1 DEF Candidate, SameCounts
  <2>2. d = record_stage_failure(b, outcome, "generator")
    <3>1. d = process_generation_output(b, crash)
      BY DEF apply_generation_result
    <3> HIDE DEF b, d
    <3> QED BY <1>4, <2>1, <3>1 DEF process_generation_output
  <2>3. Counted(b, d, outcome, "generator")
    <3> HIDE DEF b, d, outcome
    <3> QED BY <1>4, <2>1, <2>2, FailureCounts DEF RETRY_STAGES
  <2>4. \A k, s : RetryCount(b, k, s) = RetryCount(c, k, s)
    <3> HIDE DEF b
    <3> QED BY <2>1 DEF SameCounts, RetryCount
  <2> HIDE DEF b, d, outcome
  <2> QED BY <2>3, <2>4 DEF Counted
<1> QED BY <1>3, <1>4

LEMMA RouteLands ==
  ASSUME NEW c \in Candidate, c.state = "REVIEWING", c.reviewer_item # None
  PROVE  LET d == RouteVerdict(c)
             verdict == c.reviewer_item.body.verdict
         IN  /\ SameItems(c, d) /\ SameRest(c, d)
             /\ d.failure = None
             /\ d.discard_note = (d.state = "DISCARDED")
             /\ verdict = "PASS" => d.state = "SOLVING"
             /\ verdict = "REJECT" => d.state = "REJECTED"
             /\ verdict = "REVISE" => d.state \in {"DISCARDED", "REVISE_REQUIRED"}
<1> DEFINE verdict == c.reviewer_item.body.verdict
           count == c.revision_count + 1
           over == count > MaxRevisionCycles
           target == CASE verdict = "PASS"   -> "SOLVING"
                       [] verdict = "REJECT" -> "REJECTED"
                       [] OTHER -> IF over THEN "DISCARDED" ELSE "REVISE_REQUIRED"
           t == transition(c, target)
           rc == IF verdict = "REVISE" THEN count ELSE t.revision_count
           note == (target = "DISCARDED")
           d == [t EXCEPT !.failure = None, !.revision_count = rc,
                          !.discard_note = note]
<1>1. /\ target \in {"SOLVING", "REJECTED", "DISCARDED", "REVISE_REQUIRED"}
      /\ verdict = "PASS" => target = "SOLVING"
      /\ verdict = "REJECT" => target = "REJECTED"
      /\ verdict = "REVISE" => target \in {"DISCARDED", "REVISE_REQUIRED"}
  <2> HIDE DEF over, verdict
  <2> QED OBVIOUS
<1>2. t \in Candidate /\ SameItems(c, t) /\ SameRest(c, t) /\ t.state = target
  <2>1. /\ target \in VALID_STATES /\ c.state \in VALID_STATES
        /\ target \in ALLOWED_TRANSITIONS[c.state]
    <3> HIDE DEF target
    <3> QED BY <1>1 DEF VALID_STATES, TERMINAL_STATES, ALLOWED_TRANSITIONS
  <2> HIDE DEF target
  <2>2. t.state = target
    BY <2>1 DEF transition, Candidate
  <2> QED BY <2>1, <2>2, TransitionType, TransitionKeeps
<1>3. /\ SameItems(t, d) /\ SameRest(t, d) /\ d.state = t.state
      /\ d.failure = None /\ d.discard_note = note
  <2> HIDE DEF t, rc, note
  <2> QED BY <1>2 DEF Candidate, SameItems, SameRest
<1>4. SameItems(c, d) /\ SameRest(c, d)
  <2> HIDE DEF t, d
  <2> QED BY <1>2, <1>3 DEF SameItems, SameRest
<1>5. RouteVerdict(c) = d
  BY DEF RouteVerdict
<1> HIDE DEF t, d, target, verdict
<1>6. note = (d.state = "DISCARDED")
  BY <1>2, <1>3
<1> HIDE DEF note
<1> QED BY <1>1, <1>2, <1>3, <1>4, <1>5, <1>6 DEF verdict

LEMMA ReviewStage ==
  ASSUME NEW c \in Candidate, c.state = "REVIEWING", InputsCanonical(c), Bare(c),
         c.acceptance_policy = None, c.generator_item.body.ident,
         \A h \in c.review_history : h.output.body.ident,
         NEW out \in ReviewerItem, out.body.ident, NEW crash \in BOOLEAN
  PROVE  LET d       == apply_review_result(c, out, crash)
             outcome == StageOutcome(out.body, crash)
         IN  /\ validate_candidate_invariants(d)
             /\ outcome \in FailureKinds => Counted(c, d, outcome, "reviewer")
<1> DEFINE b == [c EXCEPT !.reviewer_item = out]
           outcome == StageOutcome(out.body, crash)
           input == canonical_input(b.generator_item)
           armed == [b EXCEPT !.reviewer_input = input]
           p == process_review_output(b, crash)
           rh == p.review_history \cup {[output |-> out, routed_state |-> p.state]}
           d == [p EXCEPT !.review_history = rh]
           failed == record_stage_failure(armed, outcome, "reviewer")
           routed == RouteVerdict(armed)
           Kept(x) == /\ x.generator_item = c.generator_item
                      /\ x.reviewer_item = out
                      /\ x.solver_item = None /\ x.solver_input = None /\ x.consensus = None
                      /\ x.review_history = c.review_history
                      /\ x.acceptance_policy = None
<1>0. out # None
  BY NoneAssumption
<1>1. /\ b \in Candidate /\ Kept(b) /\ b.reviewer_input = c.reviewer_input
      /\ b.state = "REVIEWING" /\ SameCounts(c, b)
  BY DEF Candidate, Bare, SameCounts
<1>2. /\ armed \in Candidate /\ Kept(armed)
      /\ armed.reviewer_input = canonical_input(c.generator_item)
      /\ armed.state = "REVIEWING" /\ SameCounts(c, armed)
  <2>1. input \in Nat /\ input = canonical_input(c.generator_item)
    <3> HIDE DEF b
    <3> QED BY <1>1 DEF canonical_input, Candidate, GeneratorItem
  <2> HIDE DEF b, input
  <2> QED BY <1>1, <2>1 DEF Candidate, SameCounts
<1>3. p = IF outcome \in FailureKinds THEN failed ELSE routed
  <2>1. ~ ReviewInputMismatch(b) /\ b.reviewer_item = out
    <3> HIDE DEF b
    <3> QED BY <1>1 DEF ReviewInputMismatch, InputsCanonical
  <2> QED BY <2>1 DEF process_review_output
<1>4. p \in Candidate
  <2> HIDE DEF b
  <2> QED BY <1>0, <1>1, ReviewType
<1>5. ASSUME outcome \in FailureKinds
      PROVE  /\ Kept(p) /\ p.reviewer_input = canonical_input(c.generator_item)
             /\ FailedBy(p, outcome, "reviewer") /\ p.state # Raised
             /\ Counted(c, p, outcome, "reviewer")
  <2>1. /\ FailedBy(failed, outcome, "reviewer")
        /\ SameItems(armed, failed) /\ SameRest(armed, failed)
        /\ failed.state \in {FailedStateOf(outcome), "MANUAL_REVIEW"}
        /\ Counted(armed, failed, outcome, "reviewer")
    <3> HIDE DEF armed, outcome
    <3> QED BY <1>2, <1>5, FailureEffect, FailureLands, FailureCounts DEF RETRY_STAGES, Working
  <2>2. FailedStateOf(outcome) # Raised
    <3> HIDE DEF outcome
    <3> QED BY DEF FailedStateOf, Raised
  <2>3. Counted(c, failed, outcome, "reviewer")
    <3> HIDE DEF armed, failed, outcome
    <3> QED BY <1>2, <2>1 DEF SameCounts, Counted, RetryCount
  <2> HIDE DEF armed, failed, outcome, p
  <2> QED BY <1>2, <1>3, <1>5, <2>1, <2>2, <2>3 DEF SameItems, SameRest, Raised
<1>6. ASSUME outcome \notin FailureKinds
      PROVE  /\ Kept(p) /\ p.reviewer_input = canonical_input(c.generator_item)
             /\ p.failure = None /\ p.discard_note = (p.state = "DISCARDED")
             /\ out.body.verdict = "PASS" => p.state = "SOLVING"
             /\ out.body.verdict = "REJECT" => p.state = "REJECTED"
             /\ out.body.verdict = "REVISE" => p.state \in {"DISCARDED", "REVISE_REQUIRED"}
  <2>1. /\ SameItems(armed, routed) /\ SameRest(armed, routed)
        /\ routed.failure = None /\ routed.discard_note = (routed.state = "DISCARDED")
        /\ out.body.verdict = "PASS" => routed.state = "SOLVING"
        /\ out.body.verdict = "REJECT" => routed.state = "REJECTED"
        /\ out.body.verdict = "REVISE" => routed.state \in {"DISCARDED", "REVISE_REQUIRED"}
    <3> HIDE DEF armed
    <3> QED BY <1>0, <1>2, RouteLands
  <2> HIDE DEF armed, routed, outcome, p
  <2> QED BY <1>2, <1>3, <1>6, <2>1 DEF SameItems, SameRest
<1>7. /\ d.generator_item = p.generator_item /\ d.reviewer_item = p.reviewer_item
      /\ d.solver_item = p.solver_item /\ d.solver_input = p.solver_input
      /\ d.consensus = p.consensus /\ d.review_history = rh
      /\ d.acceptance_policy = p.acceptance_policy /\ d.reviewer_input = p.reviewer_input
      /\ d.discard_note = p.discard_note
      /\ d.state = p.state /\ d.failure = p.failure /\ SameCounts(p, d)
  <2> HIDE DEF p, rh
  <2> QED BY <1>4 DEF Candidate, SameCounts
<1>8. d = apply_review_result(c, out, crash)
  BY DEF apply_review_result
<1>9. d \in Candidate
  <2> HIDE DEF d
  <2> QED BY <1>0, <1>8, ApplyReviewType
<1>10. /\ IdentityConsistent(d) /\ InputsCanonical(d)
       /\ d.acceptance_policy = None /\ d.consensus = None /\ d.reviewer_item = out
  <2>1. Kept(p) /\ p.reviewer_input = canonical_input(c.generator_item)
    <3> HIDE DEF p, outcome, Kept
    <3> QED BY <1>5, <1>6
  <2> HIDE DEF p, d
  <2> QED BY <1>7, <2>1 DEF IdentityConsistent, InputsCanonical
<1>11. ASSUME outcome \in FailureKinds
       PROVE  validate_candidate_invariants(d) /\ Counted(c, d, outcome, "reviewer")
  <2>1. FailedBy(d, outcome, "reviewer") /\ d.state # Raised
    <3> HIDE DEF d, p, outcome
    <3> QED BY <1>5, <1>7, <1>11 DEF FailedBy
  <2>2. Counted(c, d, outcome, "reviewer")
    <3> HIDE DEF d, p, outcome
    <3> QED BY <1>5, <1>7, <1>11 DEF SameCounts, Counted, RetryCount
  <2> HIDE DEF d, outcome
  <2> QED BY <1>9, <1>10, <1>11, <2>1, <2>2, FailedIsValid DEF RETRY_STAGES
<1>12. ASSUME outcome \notin FailureKinds
       PROVE  validate_candidate_invariants(d)
  <2>1. out.body.verdict \in Verdicts
    BY DEF ReviewerItem, ReviewBody
  <2>2. /\ d.failure = None /\ d.discard_note = (d.state = "DISCARDED")
        /\ out.body.verdict = "PASS" => d.state = "SOLVING"
        /\ out.body.verdict = "REJECT" => d.state = "REJECTED"
        /\ out.body.verdict = "REVISE" => d.state \in {"DISCARDED", "REVISE_REQUIRED"}
    <3> HIDE DEF d, p, outcome
    <3> QED BY <1>6, <1>7, <1>12
  <2> HIDE DEF d
  <2> QED BY <1>0, <1>9, <1>10, <2>1, <2>2 DEF Verdicts, validate_candidate_invariants,
         VALID_STATES, FailedStates, TERMINAL_STATES, FailureConsistent, ReviewGates,
         AcceptanceEvidence, TerminalEvidence
<1> HIDE DEF d, outcome
<1> QED BY <1>8, <1>11, <1>12 DEF outcome

LEMMA PrepareStage ==
  ASSUME NEW c \in Candidate, c.state = "SOLVING", validate_candidate_invariants(c)
  PROVE  validate_candidate_invariants(prepare_solver_input(c))
<1> DEFINE canon == canonical_input(c.generator_item)
           d == [c EXCEPT !.solver_input = canon, !.leakage_check = "ok"]
<1>1. prepare_solver_input(c) = d
  BY DEF prepare_solver_input, validate_candidate_invariants, InputsCanonical
<1>2. /\ d.state = c.state /\ d.failure = c.failure /\ d.generator_item = c.generator_item
      /\ d.reviewer_item = c.reviewer_item /\ d.solver_item = c.solver_item
      /\ d.consensus = c.consensus /\ d.review_history = c.review_history
      /\ d.reviewer_input = c.reviewer_input /\ d.acceptance_policy = c.acceptance_policy
      /\ d.solver_input = canonical_input(c.generator_item)
  <2> HIDE DEF canon
  <2>1. /\ d.state = c.state /\ d.failure = c.failure /\ d.generator_item = c.generator_item
        /\ d.reviewer_item = c.reviewer_item /\ d.solver_item = c.solver_item
        /\ d.consensus = c.consensus /\ d.review_history = c.review_history
        /\ d.reviewer_input = c.reviewer_input /\ d.acceptance_policy = c.acceptance_policy
        /\ d.solver_input = canon
    BY DEF Candidate
  <2> QED BY <2>1 DEF canon
<1> HIDE DEF d
<1> QED BY <1>1, <1>2 DEF validate_candidate_invariants, IdentityConsistent, InputsCanonical,
       FailureConsistent, FailedStates, ReviewGates, AcceptanceEvidence, TerminalEvidence

LEMMA SolverStage ==
  ASSUME NEW c \in Candidate, c.state = "SOLVING", InputsCanonical(c),
         IdentityConsistent(c), c.reviewer_item # None, c.solver_input # None,
         c.acceptance_policy = None, c.consensus = None,
         NEW out \in SolverItem, out.body.ident, NEW crash \in BOOLEAN
  PROVE  LET d       == process_solver_stage(c, out, c.solver_input, crash)
             outcome == StageOutcome(out.body, crash)
         IN  /\ validate_candidate_invariants(d)
             /\ outcome \in FailureKinds => Counted(c, d, outcome, "solver")
<1> DEFINE input == c.solver_input
           outcome == StageOutcome(out.body, crash)
           guarded == [c EXCEPT !.solver_input = input, !.leakage_check = "ok"]
           result == evaluate_consensus(c.generator_item.body, c.reviewer_item.body, out.body)
           t == transition(guarded, result.routing)
           policy == IF result.routing = "ACCEPTED" THEN acceptance_policy_record ELSE None
           decided == [t EXCEPT !.solver_item = out, !.failure = None,
                                !.consensus = result, !.acceptance_policy = policy]
           failed == record_stage_failure(guarded, outcome, "solver")
           d == process_solver_stage(c, out, c.solver_input, crash)
<1>1. /\ guarded \in Candidate /\ SameItems(c, guarded) /\ SameRest(c, guarded)
      /\ guarded.state = "SOLVING" /\ guarded.leakage_check = "ok"
      /\ SameCounts(c, guarded)
  BY DEF Candidate, SameItems, SameRest, SameCounts
<1>2. d = IF outcome \in FailureKinds THEN failed ELSE decided
  BY DEF process_solver_stage, InputsCanonical, IdentityConsistent
<1>3. ASSUME outcome \in FailureKinds
      PROVE  validate_candidate_invariants(d) /\ Counted(c, d, outcome, "solver")
  <2>1. /\ failed \in Candidate /\ FailedBy(failed, outcome, "solver")
        /\ SameItems(guarded, failed) /\ SameRest(guarded, failed)
        /\ failed.state \in {FailedStateOf(outcome), "MANUAL_REVIEW"}
        /\ Counted(guarded, failed, outcome, "solver")
    <3> HIDE DEF guarded, outcome
    <3> QED BY <1>1, <1>3, FailureEffect, FailureLands, FailureCounts DEF RETRY_STAGES, Working
  <2>2. failed.state # Raised
    <3> HIDE DEF failed, outcome
    <3> QED BY <2>1 DEF FailedStateOf, Raised
  <2>3. IdentityConsistent(failed) /\ InputsCanonical(failed)
        /\ failed.acceptance_policy = None
    <3> HIDE DEF guarded, failed, outcome
    <3> QED BY <1>1, <2>1 DEF SameItems, SameRest, IdentityConsistent, InputsCanonical
  <2>4. Counted(c, failed, outcome, "solver")
    <3> HIDE DEF guarded, failed, outcome
    <3> QED BY <1>1, <2>1 DEF SameCounts, Counted, RetryCount
  <2> HIDE DEF failed, d, outcome
  <2> QED BY <1>2, <1>3, <2>1, <2>2, <2>3, <2>4, FailedIsValid DEF RETRY_STAGES
<1>4. ASSUME outcome \notin FailureKinds
      PROVE  validate_candidate_invariants(d)
  <2>1. /\ result \in Consensus /\ result # None
        /\ result.routing \in {"ACCEPTED", "MANUAL_REVIEW", "DISCARDED"}
        /\ result.routing = "ACCEPTED" <=> result.auto_accept
    <3>1. result \in Consensus
      BY ConsensusType
    <3>2. result.routing = "ACCEPTED" <=> result.auto_accept
      BY DEF evaluate_consensus
    <3> HIDE DEF result
    <3> QED BY <3>1, <3>2, NoneAssumption DEF Consensus
  <2>2. /\ t \in Candidate /\ SameItems(guarded, t) /\ SameRest(guarded, t)
        /\ t.state = result.routing /\ t.leakage_check = "ok"
    <3> HIDE DEF guarded, result
    <3>1. /\ result.routing \in VALID_STATES /\ guarded.state \in VALID_STATES
          /\ result.routing \in ALLOWED_TRANSITIONS[guarded.state]
      BY <1>1, <2>1 DEF VALID_STATES, TERMINAL_STATES, ALLOWED_TRANSITIONS
    <3>2. t.state = result.routing /\ t.leakage_check = "ok"
      BY <1>1, <3>1 DEF transition, Candidate
    <3> QED BY <1>1, <3>1, <3>2, TransitionType, TransitionKeeps
  <2>3. /\ decided.generator_item = t.generator_item
        /\ decided.reviewer_item = t.reviewer_item
        /\ decided.solver_input = t.solver_input
        /\ decided.reviewer_input = t.reviewer_input
        /\ decided.review_history = t.review_history
        /\ decided.solver_item = out /\ decided.state = t.state
        /\ decided.failure = None /\ decided.consensus = result
        /\ decided.acceptance_policy = policy /\ decided.leakage_check = t.leakage_check
    <3> HIDE DEF t, result, policy
    <3> QED BY <2>2 DEF Candidate
  <2>4. /\ decided.generator_item = c.generator_item
        /\ decided.reviewer_item = c.reviewer_item
        /\ decided.solver_input = c.solver_input
        /\ decided.reviewer_input = c.reviewer_input
        /\ decided.review_history = c.review_history
        /\ decided.state = result.routing /\ decided.leakage_check = "ok"
    <3> HIDE DEF guarded, t, result, decided
    <3> QED BY <1>1, <2>2, <2>3 DEF SameItems, SameRest
  <2>5. out # None
    BY NoneAssumption
  <2>6. IdentityConsistent(decided) /\ InputsCanonical(decided) /\ FailureConsistent(decided)
    <3> HIDE DEF decided, result, t
    <3> QED BY <2>1, <2>3, <2>4 DEF IdentityConsistent, InputsCanonical, FailureConsistent,
           FailedStates
  <2>7. result = evaluate_consensus(decided.generator_item.body, decided.reviewer_item.body,
                                    decided.solver_item.body)
    <3> HIDE DEF decided, t
    <3> QED BY <2>3, <2>4
  <2>8. AcceptanceEvidence(decided)
    <3> HIDE DEF decided, result, t
    <3> QED BY <2>1, <2>3, <2>4, <2>5, <2>7 DEF AcceptanceEvidence
  <2>9. ReviewGates(decided) /\ TerminalEvidence(decided) /\ decided.state \in VALID_STATES
    <3> HIDE DEF decided, result, t
    <3> QED BY <2>1, <2>3, <2>4 DEF ReviewGates, TerminalEvidence, VALID_STATES, TERMINAL_STATES
  <2> HIDE DEF decided, outcome, d
  <2> QED BY <1>2, <1>4, <2>6, <2>8, <2>9 DEF validate_candidate_invariants
<1> HIDE DEF d, outcome
<1> QED BY <1>3, <1>4 DEF d, outcome

-----------------------------------------------------------------------------
(* Saves: the commands.                                                    *)

LEMMA ReviewIsSaved ==
  ASSUME NEW c, Saved(c), AwaitsReview(c), Within(c),
         NEW out \in ReviewerItem, out.body.ident, NEW crash \in BOOLEAN
  PROVE  LET d       == ReviewCandidate(c, out, crash)
             outcome == StageOutcome(out.body, crash)
         IN  /\ validate_candidate_invariants(d)
             /\ outcome \in FailureKinds => Counted(c, d, outcome, "reviewer")
<1> DEFINE x == IF FailedAt(c, "reviewer") THEN retry_failed_stage(c) ELSE c
<1>1. /\ c \in Candidate /\ InputsCanonical(c) /\ Bare(c)
      /\ c.acceptance_policy = None /\ c.generator_item.body.ident
      /\ \A h \in c.review_history : h.output.body.ident
  BY DEF Saved, Evidence, validate_candidate_invariants, IdentityConsistent, AwaitsReview,
     ReviewSettled, FailedAt, FailedStates, TERMINAL_STATES, AcceptanceEvidence
<1>2. /\ x \in Candidate /\ x.state = "REVIEWING" /\ InputsCanonical(x) /\ Bare(x)
      /\ x.acceptance_policy = None /\ x.generator_item.body.ident
      /\ \A h \in x.review_history : h.output.body.ident
      /\ SameCounts(c, x)
  <2>1. CASE FailedAt(c, "reviewer")
    <3> DEFINE r == retry_failed_stage(c)
    <3>1. /\ r \in Candidate /\ r.state = "REVIEWING"
          /\ r.solver_item = None /\ r.consensus = None
          /\ r.generator_item = c.generator_item
          /\ r.review_history = c.review_history
          /\ r.acceptance_policy = c.acceptance_policy
          /\ r.reviewer_input = c.reviewer_input /\ r.solver_input = None
          /\ SameCounts(c, r)
      BY <1>1, <2>1, RetryArms, RetryCounts DEF RETRY_STAGES, STAGE_RETRY_STATES
    <3> HIDE DEF r
    <3>2. InputsCanonical(r) /\ Bare(r)
      BY <1>1, <3>1 DEF InputsCanonical, Bare
    <3> QED BY <1>1, <2>1, <3>1, <3>2 DEF r
  <2>2. CASE ~ FailedAt(c, "reviewer")
    BY <1>1, <2>2 DEF AwaitsReview, SameCounts
  <2> QED BY <2>1, <2>2
<1>3. ReviewCandidate(c, out, crash) = apply_review_result(x, out, crash)
  <2>1. ReviewCandidate(c, out, crash)
          = IF x.state = "REVIEWING" THEN apply_review_result(x, out, crash) ELSE x
    BY DEF ReviewCandidate
  <2> HIDE DEF x
  <2> QED BY <1>2, <2>1
<1> HIDE DEF x
<1> QED BY <1>2, <1>3, ReviewStage DEF SameCounts, Counted, RetryCount

LEMMA ReviseIsSaved ==
  ASSUME NEW c, Saved(c), AwaitsRevision(c), Within(c),
         NEW body \in GeneratorBody, body.ident, NEW crash \in BOOLEAN
  PROVE  LET d       == ReviseCandidate(c, body, crash)
             outcome == StageOutcome(body, crash)
         IN  /\ validate_candidate_invariants(d)
             /\ outcome \in FailureKinds => Counted(c, d, outcome, "generator")
<1> DEFINE t == transition(c, "GENERATED")
           attempt == t.generation_attempt + 1
           begun == [t EXCEPT !.reviewer_item = None, !.reviewer_input = None,
                       !.solver_item = None, !.solver_input = None,
                       !.leakage_check = None, !.consensus = None, !.failure = None,
                       !.generation_attempt = attempt]
           x == IF FailedAt(c, "generator") THEN retry_failed_stage(c) ELSE begun
<1>1. /\ c \in Candidate /\ Bare(c) /\ c.acceptance_policy = None
      /\ \A h \in c.review_history : h.output.body.ident
  BY DEF Saved, Evidence, validate_candidate_invariants, IdentityConsistent, AwaitsRevision,
     ReviewSettled, FailedAt, FailedStates, TERMINAL_STATES, AcceptanceEvidence
<1>2. /\ x \in Candidate /\ x.state = "GENERATED" /\ Bare(x)
      /\ x.reviewer_item = None /\ x.reviewer_input = None
      /\ x.acceptance_policy = None
      /\ \A h \in x.review_history : h.output.body.ident
      /\ SameCounts(c, x)
  <2>1. CASE FailedAt(c, "generator")
    <3> DEFINE r == retry_failed_stage(c)
    <3>1. /\ r \in Candidate /\ r.state = "GENERATED"
          /\ r.solver_item = None /\ r.consensus = None
          /\ r.review_history = c.review_history
          /\ r.acceptance_policy = c.acceptance_policy
          /\ r.reviewer_item = None /\ r.reviewer_input = None /\ r.solver_input = None
          /\ SameCounts(c, r)
      BY <1>1, <2>1, RetryArms, RetryCounts DEF RETRY_STAGES, STAGE_RETRY_STATES
    <3> HIDE DEF r
    <3> QED BY <1>1, <2>1, <3>1 DEF r, Bare
  <2>2. CASE ~ FailedAt(c, "generator")
    <3>1. c.state = "REVISE_REQUIRED"
      BY <2>2 DEF AwaitsRevision
    <3>2. /\ t \in Candidate /\ SameItems(c, t) /\ SameRest(c, t) /\ SameCounts(c, t)
          /\ t.state = "GENERATED"
      <4>1. "GENERATED" \in VALID_STATES
        BY DEF VALID_STATES
      <4>2. t.state = "GENERATED"
        BY <1>1, <3>1 DEF transition, Candidate, VALID_STATES, ALLOWED_TRANSITIONS
      <4> QED BY <1>1, <4>1, <4>2, TransitionType, TransitionKeeps, TransitionFields
    <3>3. /\ begun \in Candidate /\ begun.state = t.state /\ Bare(begun)
          /\ begun.reviewer_item = None /\ begun.reviewer_input = None
          /\ begun.acceptance_policy = t.acceptance_policy
          /\ begun.review_history = t.review_history
          /\ SameCounts(t, begun)
      <4>1. attempt \in Nat
        <5> HIDE DEF t
        <5> QED BY <3>2 DEF Candidate
      <4> HIDE DEF t, attempt
      <4> QED BY <3>2, <4>1 DEF Candidate, Bare, SameCounts
    <3>4. /\ begun.acceptance_policy = None
          /\ \A h \in begun.review_history : h.output.body.ident
          /\ SameCounts(c, begun) /\ begun.state = "GENERATED"
      <4> HIDE DEF t, begun
      <4> QED BY <1>1, <3>2, <3>3 DEF SameItems, SameRest, SameCounts
    <3> HIDE DEF t, begun
    <3> QED BY <2>2, <3>3, <3>4
  <2> QED BY <2>1, <2>2
<1>3. ReviseCandidate(c, body, crash) = apply_generation_result(x, body, crash)
  BY DEF ReviseCandidate, begin_revision
<1> HIDE DEF x
<1> QED BY <1>2, <1>3, GenerationStage DEF SameCounts, Counted, RetryCount

LEMMA PrepareIsSaved ==
  ASSUME NEW c, Saved(c), FailedAt(c, "solver") => Within(c)
  PROVE  validate_candidate_invariants(PrepareCandidate(c))
<1> DEFINE r == retry_failed_stage(c)
<1>1. CASE FailedAt(c, "solver")
  <2>1. /\ c \in Candidate /\ PassedReview(c) /\ IdentityConsistent(c) /\ InputsCanonical(c)
        /\ c.acceptance_policy = None
    BY <1>1 DEF Saved, Evidence, validate_candidate_invariants, FailedAt, FailedStates,
       AcceptanceEvidence
  <2>2. /\ r \in Candidate /\ r.state = "SOLVING"
        /\ r.failure = None /\ r.solver_item = None /\ r.consensus = None
        /\ r.generator_item = c.generator_item
        /\ r.review_history = c.review_history
        /\ r.acceptance_policy = None
        /\ r.reviewer_item = c.reviewer_item /\ r.reviewer_input = c.reviewer_input
        /\ r.solver_input = c.solver_input
    BY <1>1, <2>1, RetryArms DEF RETRY_STAGES, STAGE_RETRY_STATES
  <2>3. PrepareCandidate(c) = prepare_solver_input(r)
    BY <1>1, <2>2 DEF PrepareCandidate
  <2> HIDE DEF r
  <2>4. validate_candidate_invariants(r)
    BY <2>1, <2>2 DEF validate_candidate_invariants, VALID_STATES, IdentityConsistent,
       InputsCanonical, FailureConsistent, FailedStates, ReviewGates, AcceptanceEvidence,
       TerminalEvidence, PassedReview
  <2> QED BY <2>2, <2>3, <2>4, PrepareStage
<1>2. CASE ~ FailedAt(c, "solver")
  <2>1. PrepareCandidate(c) = IF c.state = "SOLVING" THEN prepare_solver_input(c) ELSE c
    BY <1>2 DEF PrepareCandidate
  <2> QED BY <2>1, PrepareStage DEF Saved
<1> QED BY <1>1, <1>2

LEMMA SolveIsSaved ==
  ASSUME NEW c, Saved(c), c.state = "SOLVING", c.solver_input # None,
         NEW out \in SolverItem, out.body.ident, NEW crash \in BOOLEAN, NEW keep \in BOOLEAN
  PROVE  LET d       == SolveCandidate(c, out, crash, keep)
             outcome == StageOutcome(out.body, crash)
         IN  /\ validate_candidate_invariants(d)
             /\ outcome \in FailureKinds => Counted(c, d, outcome, "solver")
<1> DEFINE kept == IF keep THEN out ELSE c.solver_item
           e == [c EXCEPT !.solver_item = kept]
<1>1. /\ c \in Candidate /\ c.reviewer_item # None /\ c.acceptance_policy = None
      /\ c.consensus = None /\ IdentityConsistent(c) /\ InputsCanonical(c)
  BY DEF Saved, Evidence, PassedReview, validate_candidate_invariants, AcceptanceEvidence,
     TERMINAL_STATES
<1>2. /\ e \in Candidate /\ e.state = c.state /\ SameCounts(c, e)
      /\ e.generator_item = c.generator_item /\ e.reviewer_item = c.reviewer_item
      /\ e.reviewer_input = c.reviewer_input /\ e.solver_input = c.solver_input
      /\ e.acceptance_policy = c.acceptance_policy /\ e.consensus = c.consensus
      /\ e.review_history = c.review_history /\ e.solver_item \in {out, c.solver_item}
  <2>1. kept \in SolverItem \cup {None} /\ kept \in {out, c.solver_item}
    BY <1>1 DEF Candidate
  <2> HIDE DEF kept
  <2> QED BY <1>1, <2>1 DEF Candidate, SameCounts
<1>3. InputsCanonical(e) /\ IdentityConsistent(e)
  <2> HIDE DEF e
  <2> QED BY <1>1, <1>2 DEF InputsCanonical, IdentityConsistent, canonical_input
<1>4. SolveCandidate(c, out, crash, keep) = process_solver_stage(e, out, e.solver_input, crash)
  <2>1. [c EXCEPT !.solver_item = c.solver_item] = c
    BY <1>1 DEF Candidate
  <2>2. e = IF keep THEN [c EXCEPT !.solver_item = out] ELSE c
    BY <2>1
  <2>3. ~ FailedAt(c, "solver")
    BY DEF FailedAt, FailedStates
  <2> HIDE DEF e
  <2> QED BY <1>2, <2>2, <2>3 DEF SolveCandidate
<1> HIDE DEF e
<1> QED BY <1>1, <1>2, <1>3, <1>4, SolverStage DEF SameCounts, Counted, RetryCount

-----------------------------------------------------------------------------
(* Saves: the theorems.                                                    *)

\* What a step may do, when all outputs carry the Candidate's identity: the
\* save goes through, and what was supplied and failed was counted.
LEMMA StepSaves ==
  ASSUME AllIdent, TypeOK, Saved(candidate), RetryBudgets, Next
  PROVE  /\ ~ refused'
         /\ candidate' \in Candidate /\ Grows(candidate, candidate')
         /\ \/ supplied' = supplied
            \/ \E k \in FailureKinds, s \in RETRY_STAGES :
                 /\ supplied' = [supplied EXCEPT ![<<k, s>>] = @ + 1]
                 /\ Counted(candidate, candidate', k, s)
<1> USE BodiesAssumption
<1>1. ASSUME NEW d \in Candidate, Save(d), validate_candidate_invariants(d), Grows(candidate, d)
      PROVE  /\ ~ refused' /\ candidate' = d
             /\ candidate' \in Candidate /\ Grows(candidate, candidate')
  BY <1>1 DEF Save
<1>2. ASSUME NEW body, NEW crash \in BOOLEAN, NEW s \in RETRY_STAGES, NEW d,
             Supply(body, crash, s), candidate' = d,
             StageOutcome(body, crash) \in FailureKinds =>
               Counted(candidate, d, StageOutcome(body, crash), s)
      PROVE  \/ supplied' = supplied
             \/ \E k \in FailureKinds, st \in RETRY_STAGES :
                  /\ supplied' = [supplied EXCEPT ![<<k, st>>] = @ + 1]
                  /\ Counted(candidate, candidate', k, st)
  BY <1>2 DEF Supply
<1>3. CASE ApplyReview
  <2>1. PICK out \in ReviewOutputs, crash \in BOOLEAN :
          /\ Supply(out.body, crash, "reviewer")
          /\ Save(ReviewCandidate(candidate, out, crash))
    BY <1>3 DEF ApplyReview
  <2>2. out \in ReviewerItem /\ out.body.ident
    <3>1. candidate.generator_item.ver \in Nat
          /\ \A h \in candidate.review_history : h.output \in ReviewerItem /\ h.output.body.ident
      BY DEF Saved, Candidate, GeneratorItem, validate_candidate_invariants, IdentityConsistent
    <3> QED BY <3>1 DEF ReviewOutputs, ReviewerItem, AllIdent
  <2>3. AwaitsReview(candidate) /\ Within(candidate)
    BY <1>3, BudgetsWithin DEF ApplyReview, AwaitsReview, FailedAt, FailedStates
  <2> DEFINE d == ReviewCandidate(candidate, out, crash)
  <2>4. /\ d \in Candidate /\ Grows(candidate, d) /\ validate_candidate_invariants(d)
        /\ StageOutcome(out.body, crash) \in FailureKinds =>
             Counted(candidate, d, StageOutcome(out.body, crash), "reviewer")
    BY <2>2, <2>3, ReviewIsSaved, ReviewCandidateType, ReviewCandidateGrows DEF Saved
  <2> HIDE DEF d
  <2>5. Save(d)
    BY <2>1 DEF d
  <2>6. candidate' = d /\ ~ refused'
    BY <1>1, <2>4, <2>5
  <2> QED BY <1>2, <2>1, <2>4, <2>6 DEF RETRY_STAGES
<1>4. CASE ApplyRevision
  <2>1. PICK b \in GeneratorBodies, crash \in BOOLEAN :
          /\ Supply(b, crash, "generator")
          /\ Save(ReviseCandidate(candidate, b, crash))
    BY <1>4 DEF ApplyRevision
  <2>2. b \in GeneratorBody /\ b.ident
    BY DEF AllIdent
  <2>3. AwaitsRevision(candidate) /\ Within(candidate)
    BY <1>4, BudgetsWithin DEF ApplyRevision, AwaitsRevision, FailedAt, FailedStates
  <2> DEFINE d == ReviseCandidate(candidate, b, crash)
  <2>4. /\ d \in Candidate /\ Grows(candidate, d) /\ validate_candidate_invariants(d)
        /\ StageOutcome(b, crash) \in FailureKinds =>
             Counted(candidate, d, StageOutcome(b, crash), "generator")
    BY <2>2, <2>3, ReviseIsSaved, ReviseCandidateType, ReviseCandidateGrows DEF Saved
  <2> HIDE DEF d
  <2>5. Save(d)
    BY <2>1 DEF d
  <2>6. candidate' = d /\ ~ refused'
    BY <1>1, <2>4, <2>5
  <2> QED BY <1>2, <2>1, <2>4, <2>6 DEF RETRY_STAGES
<1>5. CASE PrepareSolverBatch
  <2> DEFINE d == PrepareCandidate(candidate)
  <2>1. FailedAt(candidate, "solver") => Within(candidate)
    BY WithinNow
  <2>2. d \in Candidate /\ Grows(candidate, d) /\ validate_candidate_invariants(d)
    BY <2>1, PrepareIsSaved, PrepareCandidateType, PrepareCandidateGrows DEF Saved
  <2>3. Save(d) /\ supplied' = supplied
    BY <1>5 DEF PrepareSolverBatch
  <2> HIDE DEF d
  <2> QED BY <1>1, <2>2, <2>3
<1>6. CASE ApplySolver
  <2>1. PICK b \in SolverBodies, crash \in BOOLEAN :
          LET out == [body |-> b, of |-> candidate.solver_input] IN
          /\ Supply(b, crash, "solver")
          /\ Save(SolveCandidate(candidate, out, crash, KeepSolverOutput))
    BY <1>6 DEF ApplySolver
  <2> DEFINE out == [body |-> b, of |-> candidate.solver_input]
             d == SolveCandidate(candidate, out, crash, KeepSolverOutput)
  <2>2. /\ candidate.state = "SOLVING" /\ candidate.solver_input # None
        /\ out \in SolverItem /\ out.body = b /\ b.ident
    BY <1>6 DEF ApplySolver, Saved, Candidate, SolverItem, AllIdent
  <2> HIDE DEF out
  <2>3. /\ d \in Candidate /\ Grows(candidate, d) /\ validate_candidate_invariants(d)
        /\ StageOutcome(b, crash) \in FailureKinds =>
             Counted(candidate, d, StageOutcome(b, crash), "solver")
    BY <2>2, SolveIsSaved, SolveCandidateType, SolveCandidateGrows DEF Saved
  <2>4. Save(d) /\ Supply(b, crash, "solver")
    BY <2>1 DEF out
  <2> HIDE DEF d
  <2>5. candidate' = d /\ ~ refused'
    BY <1>1, <2>3, <2>4
  <2> QED BY <1>2, <2>3, <2>4, <2>5 DEF RETRY_STAGES
<1> QED BY <1>3, <1>4, <1>5, <1>6 DEF Next

\* NeverRefused: whatever the outputs say and whichever validator crashes, no
\* command attempts a move outside the table or makes a record its own save
\* refuses, as long as the outputs name the Candidate they are for.
THEOREM NothingRefused == AllIdent => (Spec => []NeverRefused)
<1> SUFFICES ASSUME AllIdent PROVE Spec => []NeverRefused
  OBVIOUS
<1>1. Init => ~ refused
  BY DEF Init
<1>2. TypeOK /\ Saved(candidate) /\ RetryBudgets /\ ~ refused /\ [Next]_vars => ~ refused'
  BY StepSaves DEF vars
<1> QED BY <1>1, <1>2, TypeCorrect, EvidenceInv, BudgetsHold, PTL DEF Spec, NeverRefused

\* RetryPolicyEnforced: one failing output more than the limit of its kind and
\* stage, and the Candidate is in MANUAL_REVIEW: no retry, revision or
\* redelivery makes the code forget a failure it was shown.
THEOREM RetryPolicyHolds == AllIdent => (Spec => []RetryPolicyEnforced)
<1> SUFFICES ASSUME AllIdent PROVE Spec => []RetryPolicyEnforced
  OBVIOUS
<1> DEFINE Remembered ==
             \A k \in FailureKinds, s \in RETRY_STAGES :
               supplied[<<k, s>>] <= RetryCount(candidate, k, s)
<1>1. Init => Remembered
  <2> SUFFICES ASSUME Init, NEW k \in FailureKinds, NEW s \in RETRY_STAGES
               PROVE  supplied[<<k, s>>] <= RetryCount(candidate, k, s)
    OBVIOUS
  <2>1. PICK b \in GeneratorBodies, crash \in BOOLEAN :
          /\ b.ident
          /\ candidate = NewCandidate(b, crash)
          /\ supplied = [p \in FailureKinds \X RETRY_STAGES |->
                     IF p = <<StageOutcome(b, crash), "generator">> THEN 1 ELSE 0]
    BY DEF Init
  <2>2. b \in GeneratorBody
    BY BodiesAssumption
  <2> DEFINE item == [body |-> b, ver |-> 0]
             zero == [st \in RETRY_STAGES |-> 0]
             blank ==
    [state |-> "GENERATED", generation_attempt |-> 1, revision_count |-> 0,
     system_failure_retries |-> zero, validation_failure_retries |-> zero,
     generator_item |-> item,
     reviewer_item |-> None, reviewer_input |-> None,
     solver_item |-> None, solver_input |-> None, leakage_check |-> None,
     consensus |-> None, acceptance_policy |-> None, failure |-> None,
     discard_note |-> FALSE, generation_history |-> 0, review_history |-> {}]
             outcome == StageOutcome(b, crash)
  <2>3. /\ blank \in Candidate /\ blank.state = "GENERATED" /\ Bare(blank)
        /\ blank.reviewer_item = None /\ blank.reviewer_input = None
        /\ blank.acceptance_policy = None /\ blank.review_history = {}
        /\ \A kk \in FailureKinds, st \in RETRY_STAGES : RetryCount(blank, kk, st) = 0
    <3>1. item \in GeneratorItem /\ zero \in Retries /\ \A st \in RETRY_STAGES : zero[st] = 0
      BY <2>2 DEF GeneratorItem, Retries
    <3> HIDE DEF item, zero
    <3> QED BY <3>1 DEF Candidate, States, VALID_STATES, Bare, RetryCount
  <2>4. candidate = apply_generation_result(blank, b, crash)
    BY <2>1 DEF NewCandidate
  <2> HIDE DEF blank
  <2>5. outcome \in FailureKinds => Counted(blank, candidate, outcome, "generator")
    BY <2>1, <2>2, <2>3, <2>4, GenerationStage
  <2>6. candidate \in Candidate /\ RetryCount(candidate, k, s) \in Nat
    <3>1. candidate \in Candidate
      BY <2>2, <2>3, <2>4, ApplyGenerationType
    <3> QED BY <3>1, Numbers DEF RetryCount
  <2>7. supplied[<<k, s>>] = IF k = outcome /\ s = "generator" THEN 1 ELSE 0
    BY <2>1
  <2> HIDE DEF outcome
  <2>8. CASE k = outcome /\ s = "generator"
    BY <2>3, <2>5, <2>7, <2>8 DEF Counted
  <2>9. CASE ~ (k = outcome /\ s = "generator")
    BY <2>6, <2>7, <2>9
  <2> QED BY <2>8, <2>9
<1>2. TypeOK /\ Saved(candidate) /\ RetryBudgets /\ Remembered /\ [Next]_vars => Remembered'
  <2> SUFFICES ASSUME TypeOK, Saved(candidate), RetryBudgets, Remembered, [Next]_vars,
                      NEW k \in FailureKinds, NEW s \in RETRY_STAGES
               PROVE  supplied'[<<k, s>>] <= RetryCount(candidate', k, s)
    OBVIOUS
  <2>1. CASE UNCHANGED vars
    BY <2>1 DEF vars
  <2>2. CASE Next
    <3>1. /\ candidate \in Candidate /\ candidate' \in Candidate /\ Grows(candidate, candidate')
          /\ \/ supplied' = supplied
             \/ \E kk \in FailureKinds, st \in RETRY_STAGES :
                  /\ supplied' = [supplied EXCEPT ![<<kk, st>>] = @ + 1]
                  /\ Counted(candidate, candidate', kk, st)
      BY <2>2, StepSaves DEF TypeOK
    <3>2. /\ RetryCount(candidate, k, s) \in Nat /\ RetryCount(candidate', k, s) \in Nat
          /\ RetryCount(candidate, k, s) <= RetryCount(candidate', k, s)
      BY <3>1, Numbers DEF Grows, RetryCount
    <3>3. supplied[<<k, s>>] \in Nat /\ supplied[<<k, s>>] <= RetryCount(candidate, k, s)
      BY DEF TypeOK
    <3>4. CASE supplied' = supplied
      BY <3>2, <3>3, <3>4
    <3>5. ASSUME NEW kk \in FailureKinds, NEW st \in RETRY_STAGES,
                 supplied' = [supplied EXCEPT ![<<kk, st>>] = @ + 1],
                 Counted(candidate, candidate', kk, st)
          PROVE  supplied'[<<k, s>>] <= RetryCount(candidate', k, s)
      <4>1. CASE k = kk /\ s = st
        <5>1. supplied'[<<k, s>>] = supplied[<<k, s>>] + 1
          BY <3>5, <4>1 DEF TypeOK
        <5>2. RetryCount(candidate', k, s) = RetryCount(candidate, k, s) + 1
          BY <3>5, <4>1 DEF Counted
        <5> QED BY <3>2, <3>3, <5>1, <5>2
      <4>2. CASE ~ (k = kk /\ s = st)
        <5>1. supplied'[<<k, s>>] = supplied[<<k, s>>]
          BY <3>5, <4>2 DEF TypeOK
        <5> QED BY <3>2, <3>3, <5>1
      <4> QED BY <4>1, <4>2
    <3> QED BY <3>1, <3>4, <3>5
  <2> QED BY <2>1, <2>2
<1>3. TypeOK /\ RetryBudgets /\ Remembered => RetryPolicyEnforced
  <2> SUFFICES ASSUME TypeOK, RetryBudgets, Remembered,
                      NEW k \in FailureKinds, NEW s \in RETRY_STAGES,
                      supplied[<<k, s>>] > retry_limit(k)
               PROVE  candidate.state = "MANUAL_REVIEW"
    BY DEF RetryPolicyEnforced
  <2>1. supplied[<<k, s>>] \in Nat /\ RetryCount(candidate, k, s) \in Nat
    BY Numbers DEF TypeOK, RetryCount
  <2>2. RetryCount(candidate, k, s) > retry_limit(k)
    BY <2>1, LimitType
  <2> QED BY <2>2 DEF RetryBudgets, Count
<1> HIDE DEF Remembered
<1> QED BY <1>1, <1>2, <1>3, TypeCorrect, EvidenceInv, BudgetsHold, PTL DEF Spec
=============================================================================
