------------------------------- MODULE Reading -------------------------------
(***************************************************************************)
(* reading/pipeline.py: one passage with its questions, made by the        *)
(* Generator and judged by blind agents, in the three modes that exist:    *)
(* the v0.1 pipeline, the v0.2 pipeline as a batch worker, and its draft   *)
(* mode.  v0.2 repairs INFERENCE questions at most once.                   *)
(*                                                                         *)
(* A question is known by the version that fills its slot: 0 is the        *)
(* Generator's, 1 and 2 are the repair candidates.  What an agent says of  *)
(* a question is reduced to what the gates tell apart, relative to the key *)
(* of the version it was shown.  Run 1 is the run modelled; its directory  *)
(* may hold the files of an earlier accepted run, run 0.                   *)
(***************************************************************************)
EXTENDS Naturals, FiniteSets

CONSTANTS
  Items,      \* the questions of the plan
  Inference,  \* those of type INFERENCE
  None

VARIABLES
  plan,      \* the mode and the INFERENCE questions planned
  run,       \* the pipeline object's run
  verified,  \* history: the <<question, version>> pairs a verifier passed
  disk,      \* generator.json, provenance.json and result.json
  batch      \* the decision batch_result.json records of the passage

vars == <<plan, run, verified, disk, batch>>

Sets == [Items -> 0..2]
Stages == {"generator", "verifier", "review", "repair", "candidate verifier",
           "final review", "solver"}
Steps == Stages \cup {"blind", "check", "provenance", "result", "rewrite", "report",
                      "failure", "failure result", "failure provenance", "ended"}
Decisions == {"ACCEPT", "QUARANTINE", "INFRASTRUCTURE_FAILURE", "UNVALIDATED_DRAFT"}

\* clean: the key, every flag in order.  awkward: the same, but the wording is
\* not natural.  wrong: another letter, flags in order.  unsound: no single
\* letter, or a defect the flags name.
Judgments == {"clean", "awkward", "wrong", "unsound"}

\* What validate_reviewer_contract lets through, and what it does not.
Reviews(shown) ==
  [of : {shown}, ok : {TRUE}, pass : BOOLEAN, item : [Items -> Judgments]]
    \cup {[of |-> shown, ok |-> FALSE, pass |-> FALSE,
           item |-> [i \in Items |-> "unsound"]]}

\* The same of validate_solver_contract: the key of each question, or not.
Solutions(shown) ==
  [of : {shown}, ok : {TRUE}, item : [Items -> {"key", "other"}]]
    \cup {[of |-> shown, ok |-> FALSE, item |-> [i \in Items |-> "other"]]}

Written(number, generator) == [run |-> number, generator |-> generator]
EarlierRun ==
  LET made == Written(0, [i \in Items |-> 0])
  IN  [generator |-> made, provenance |-> 0,
       result |-> [made |-> made, run |-> 0, decision |-> "ACCEPT"]]
EmptyDirectory == [generator |-> None, provenance |-> None, result |-> None]

ReviewRecords == [of : Sets, ok : BOOLEAN, pass : BOOLEAN, item : [Items -> Judgments]]
SolveRecords == [of : Sets, ok : BOOLEAN, item : [Items -> {"key", "other"}]]
Files == [run : {0, 1}, generator : Sets]
Results == [made : Files \cup {None}, run : {0, 1}, decision : Decisions]

ASSUME ReadingAssumption ==
  /\ Inference \subseteq Items
  /\ None \notin Sets \cup Stages \cup Decisions \cup Files \cup Results

TypeOK ==
  /\ plan \in [mode : {"v0.1", "v0.2", "draft"}, inference : SUBSET Items]
  /\ run \in [pc : Steps, generator : Sets \cup {None}, sound : BOOLEAN,
              blind : Sets \cup {None}, leak : BOOLEAN, flagged : SUBSET Items,
              candidates : SUBSET (Items \X {1, 2}), review : ReviewRecords \cup {None},
              solve : SolveRecords \cup {None}, gate : BOOLEAN,
              failure : Stages \cup {None}, decision : Decisions \cup {None}]
  /\ run.flagged \subseteq plan.inference
  /\ run.candidates \subseteq run.flagged \X {1, 2}
  /\ verified \subseteq Items \X (0..2)
  /\ disk \in [generator : Files \cup {None}, provenance : {0, 1, None},
               result : Results \cup {None}]
  /\ batch \in Decisions \cup {None}

Init ==
  /\ plan \in [mode : {"v0.1", "v0.2", "draft"}, inference : {{}, Inference}]
  /\ run = [pc |-> "generator", generator |-> None, sound |-> FALSE, blind |-> None,
            leak |-> FALSE, flagged |-> {}, candidates |-> {}, review |-> None,
            solve |-> None, gate |-> FALSE, failure |-> None, decision |-> None]
  /\ verified = {}
  /\ disk \in {EmptyDirectory, EarlierRun}
  /\ batch = None

-----------------------------------------------------------------------------
(* The stages.  _invoke records a failed call and raises; run catches it     *)
(* and invokes no later stage.                                               *)

Fail ==
  /\ run.pc \in Stages
  /\ run' = [run EXCEPT !.pc = "check", !.failure = run.pc]
  /\ UNCHANGED <<plan, verified, disk, batch>>

StopHere == [run EXCEPT !.pc = "check"]

\* What the checks of the Generator's set may find: any verdict.
GeneratorContract == BOOLEAN
Diagnostics == BOOLEAN

\* Permuted, bound to the plan, written, and only then validated.
NotBound ==
  /\ run' = StopHere
  /\ UNCHANGED disk

Bound ==
  LET made == [i \in Items |-> 0]
  IN  /\ disk' = IF plan.mode = "v0.1" THEN disk
                 ELSE [disk EXCEPT !.generator = Written(1, made)]
      /\ \E contract \in GeneratorContract, hard \in Diagnostics :
           LET sound == contract /\ ~ hard
           IN  run' = [run EXCEPT
                 !.pc = IF ~ sound \/ plan.mode = "draft" THEN "check"
                        ELSE IF plan.mode = "v0.2" /\ plan.inference # {} THEN "verifier"
                        ELSE "blind",
                 !.generator = made,
                 !.sound = sound,
                 !.gate = sound /\ plan.mode = "v0.2" /\ plan.inference = {}]

Generate ==
  /\ run.pc = "generator"
  /\ NotBound \/ Bound
  /\ UNCHANGED <<plan, verified, batch>>

\* What the verifier says of each INFERENCE question, which it is shown without
\* the key: whether it is a valid inference, and whether it solves it to the key.
InferenceJudgments == [plan.inference -> [valid : BOOLEAN, key : BOOLEAN]]

\* _inference_gate_evaluation.
Flagged(judgments) ==
  {i \in plan.inference : ~ (judgments[i].valid /\ judgments[i].key)}

Verify ==
  /\ run.pc = "verifier"
  /\ \/ /\ run' = StopHere
        /\ UNCHANGED verified
     \/ \E judgments \in InferenceJudgments :
          /\ run' = [run EXCEPT !.pc = "blind", !.flagged = Flagged(judgments)]
          /\ verified' = verified \cup
                {<<i, run.generator[i]>> : i \in plan.inference \ Flagged(judgments)}
  /\ UNCHANGED <<plan, disk, batch>>

BlindInput ==
  /\ run.pc = "blind"
  /\ \/ run' = [run EXCEPT !.pc = "review", !.blind = run.generator]
     \/ run' = [run EXCEPT !.pc = "check", !.leak = TRUE]
  /\ UNCHANGED <<plan, verified, disk, batch>>

\* _reviewer_quality_pass, which does not know the key.
QualityPass(review) ==
  /\ review.ok /\ review.pass
  /\ \A i \in Items : review.item[i] \in {"clean", "wrong"}

\* _reviewer_gate_evaluation.
Blocking(review) == \E i \in Items \ plan.inference : review.item[i] # "clean"

\* Mutant: the question type is not looked at.
AnyFinding(review) == {i \in Items : review.item[i] \in {"wrong", "unsound"}}

Repairable(review) == {i \in plan.inference : review.item[i] \in {"wrong", "unsound"}}

ToRepair(review) == run.flagged \cup Repairable(review)

\* v0.1 and passages without INFERENCE questions go on to the Solver whatever
\* the Reviewer said.
Review ==
  /\ run.pc = "review"
  /\ \E review \in Reviews(run.blind) :
       LET gated == plan.mode = "v0.2" /\ plan.inference # {}
           next == IF ~ gated THEN "solver"
                   ELSE IF ~ review.ok \/ Blocking(review) THEN "check"
                   ELSE IF ToRepair(review) # {} THEN "repair"
                   ELSE IF QualityPass(review) THEN "solver" ELSE "check"
       IN  run' = [run EXCEPT
             !.pc = next,
             !.review = review,
             !.flagged = IF gated /\ review.ok THEN ToRepair(review) ELSE @,
             !.gate = @ \/ (gated /\ next = "solver")]
  /\ UNCHANGED <<plan, verified, disk, batch>>

-----------------------------------------------------------------------------
(* The one repair.                                                           *)

\* Two candidates, 1 and 2, for every question flagged and for no other.
Requested == run.flagged \X {1, 2}

\* _validate_repair_candidates: the candidates that pass the contract and the
\* diagnostics; a question without one ends the repair.
Survive(candidates) == \A i \in run.flagged : \E n \in {1, 2} : <<i, n>> \in candidates

Repair ==
  /\ run.pc = "repair"
  /\ \/ run' = StopHere
     \/ \E candidates \in SUBSET Requested :
          run' = [run EXCEPT
            !.pc = IF Survive(candidates) THEN "candidate verifier" ELSE "check",
            !.candidates = candidates]
  /\ UNCHANGED <<plan, verified, disk, batch>>

\* status_rank; 0 stands for every status, and every answer but the key, that
\* makes a candidate ineligible.
Ranks == 0..3

\* One judgment of every candidate shown, each without its key.
CandidateJudgments == [run.candidates -> Ranks]

\* Mutant: a candidate that only survived validation may be selected.
AnySurvivor(rank, i) == {n \in {1, 2} : <<i, n>> \in DOMAIN rank}

Eligible(rank, i) == {n \in {1, 2} : <<i, n>> \in DOMAIN rank /\ rank[<<i, n>>] > 0}

\* The best status; at equal status the lower index.
Selected(rank, i) ==
  CHOOSE n \in Eligible(rank, i) :
    \A m \in Eligible(rank, i) :
      \/ rank[<<i, n>>] > rank[<<i, m>>]
      \/ rank[<<i, n>>] = rank[<<i, m>>] /\ n <= m

\* _candidate_selection and the merge into a copy of the Generator's set.
Merge(rank) ==
  LET merged == [i \in Items |->
                   IF i \in run.flagged THEN Selected(rank, i) ELSE run.generator[i]]
  IN  /\ disk' = [disk EXCEPT !.generator = Written(1, merged)]
      /\ \/ run' = [run EXCEPT !.pc = "check", !.generator = merged, !.sound = FALSE]
         \/ run' = [run EXCEPT !.pc = "check", !.generator = merged, !.blind = merged,
                               !.leak = TRUE]
         \/ run' = [run EXCEPT !.pc = "final review", !.generator = merged, !.blind = merged]

VerifyCandidates ==
  /\ run.pc = "candidate verifier"
  /\ \/ /\ run' = StopHere
        /\ UNCHANGED <<verified, disk>>
     \/ \E rank \in CandidateJudgments :
          /\ verified' = verified \cup {c \in run.candidates : rank[c] > 0}
          /\ \/ /\ \E i \in run.flagged : Eligible(rank, i) = {}
                /\ run' = StopHere
                /\ UNCHANGED disk
             \/ /\ \A i \in run.flagged : Eligible(rank, i) # {}
                /\ Merge(rank)
  /\ UNCHANGED <<plan, batch>>

FinalReview ==
  /\ run.pc = "final review"
  /\ \E review \in Reviews(run.blind) :
       run' = [run EXCEPT !.pc = IF QualityPass(review) THEN "solver" ELSE "check",
                          !.review = review,
                          !.gate = QualityPass(review)]
  /\ UNCHANGED <<plan, verified, disk, batch>>

Solve ==
  /\ run.pc = "solver"
  /\ \E solve \in Solutions(run.blind) :
       run' = [run EXCEPT !.pc = "check", !.solve = solve]
  /\ UNCHANGED <<plan, verified, disk, batch>>

-----------------------------------------------------------------------------
(* The decision and the files.                                               *)

\* post_blind_comparison: Generator, Reviewer and Solver name one letter.
AllAgree ==
  \A i \in Items : run.review.item[i] \in {"clean", "awkward"} /\ run.solve.item[i] = "key"

NoDefects ==
  /\ run.review.pass
  /\ \A i \in Items : run.review.item[i] \in {"clean", "wrong"}

\* Mutant: the Solver's answers are not compared.
ReviewSuffices ==
  /\ run.failure = None
  /\ run.sound /\ ~ run.leak
  /\ plan.mode = "v0.2" => run.gate
  /\ run.review # None /\ run.review.ok /\ NoDefects
  /\ run.solve # None /\ run.solve.ok

Accepts ==
  /\ run.failure = None
  /\ run.sound /\ ~ run.leak
  /\ plan.mode = "v0.2" => run.gate
  /\ run.review # None /\ run.review.ok /\ NoDefects
  /\ run.solve # None /\ run.solve.ok /\ AllAgree

\* A result the schema refuses is quarantined.
Decide ==
  /\ run.pc = "check"
  /\ \E valid \in BOOLEAN :
       run' = [run EXCEPT !.pc = "provenance",
         !.decision = IF plan.mode = "draft" THEN "UNVALIDATED_DRAFT"
                      ELSE IF run.failure # None /\ plan.mode = "v0.2"
                           THEN "INFRASTRUCTURE_FAILURE"
                      ELSE IF Accepts /\ valid THEN "ACCEPT" ELSE "QUARANTINE"]
  /\ UNCHANGED <<plan, verified, disk, batch>>

\* v0.1 keeps its provenance, like its questions, in files of other names.
WriteProvenance ==
  /\ run.pc = "provenance"
  /\ run' = [run EXCEPT !.pc = "result"]
  /\ disk' = IF plan.mode = "v0.1" THEN disk ELSE [disk EXCEPT !.provenance = 1]
  /\ UNCHANGED <<plan, verified, batch>>

Result == [made |-> IF run.generator = None THEN None ELSE Written(1, run.generator),
           run |-> 1, decision |-> run.decision]

\* run writes result.json; the batch worker writes it again with its time.
WriteResult ==
  /\ run.pc \in {"result", "rewrite"}
  /\ run' = [run EXCEPT !.pc = IF plan.mode = "v0.1" THEN "ended"
                               ELSE IF run.pc = "result" THEN "rewrite" ELSE "report"]
  /\ disk' = [disk EXCEPT !.result = Result]
  /\ UNCHANGED <<plan, verified, batch>>

WriteBatchResult ==
  /\ run.pc = "report"
  /\ run' = [run EXCEPT !.pc = "ended"]
  /\ batch' = run.decision
  /\ UNCHANGED <<plan, verified, disk>>

-----------------------------------------------------------------------------
(* Faults.                                                                   *)

\* Anything but a failed invocation, a write that raises above all: v0.1 dies
\* of it, the batch worker turns it into a failure result.
Raise ==
  /\ run.pc \in Steps \ {"failure", "failure result", "failure provenance", "report", "ended"}
  /\ run' = [run EXCEPT !.pc = IF plan.mode = "v0.1" THEN "ended" ELSE "failure"]
  /\ UNCHANGED <<plan, verified, disk, batch>>

\* Mutant: the worker returns the result it could not write again.
KeepResult ==
  /\ run.pc = "failure"
  /\ run' = [run EXCEPT !.pc = "failure result",
               !.decision = IF @ = None THEN "INFRASTRUCTURE_FAILURE" ELSE @]
  /\ UNCHANGED <<plan, verified, disk, batch>>

\* _unexpected_failure_result, whose own writes may raise and are then given up.
RecordFailure ==
  /\ run.pc = "failure"
  /\ run' = [run EXCEPT !.pc = "failure result", !.decision = "INFRASTRUCTURE_FAILURE"]
  /\ UNCHANGED <<plan, verified, disk, batch>>

WriteFailureResult ==
  /\ run.pc = "failure result"
  /\ run' = [run EXCEPT !.pc = "failure provenance"]
  /\ disk' = [disk EXCEPT !.result =
                [made |-> None, run |-> 1, decision |-> "INFRASTRUCTURE_FAILURE"]]
  /\ UNCHANGED <<plan, verified, batch>>

WriteFailureProvenance ==
  /\ run.pc = "failure provenance"
  /\ run' = [run EXCEPT !.pc = "report"]
  /\ disk' = [disk EXCEPT !.provenance = 1]
  /\ UNCHANGED <<plan, verified, batch>>

GiveUpFailure ==
  /\ run.pc \in {"failure result", "failure provenance"}
  /\ run' = [run EXCEPT !.pc = "report"]
  /\ UNCHANGED <<plan, verified, disk, batch>>

Die ==
  /\ run.pc # "ended"
  /\ run' = [run EXCEPT !.pc = "ended"]
  /\ UNCHANGED <<plan, verified, disk, batch>>

Next ==
  \/ Fail \/ Generate \/ Verify \/ BlindInput \/ Review
  \/ Repair \/ VerifyCandidates \/ FinalReview \/ Solve
  \/ Decide \/ WriteProvenance \/ WriteResult \/ WriteBatchResult
  \/ Raise \/ RecordFailure \/ WriteFailureResult \/ WriteFailureProvenance
  \/ GiveUpFailure \/ Die

Spec == Init /\ [][Next]_vars

-----------------------------------------------------------------------------
(* Properties. *)

Verified == \A i \in plan.inference : <<i, run.generator[i]>> \in verified
Reviewed ==
  /\ run.review # None /\ run.review.ok /\ run.review.pass
  /\ run.review.of = run.generator
  /\ \A i \in Items : run.review.item[i] = "clean"
Solved ==
  /\ run.solve # None /\ run.solve.ok
  /\ run.solve.of = run.generator
  /\ \A i \in Items : run.solve.item[i] = "key"

\* An accepted passage was judged as it ships: one review and one solution of
\* exactly these questions, without a fault and in agreement with the key, and
\* every INFERENCE question, repaired or not, passed by a blind verifier in the
\* version that ships; no question was replaced that nobody found fault with.
ShippedIsJudged ==
  run.decision = "ACCEPT" =>
    /\ run.generator # None /\ run.failure = None
    /\ Reviewed /\ Solved
    /\ plan.mode = "v0.2" => Verified
    /\ \A i \in Items : run.generator[i] # 0 => i \in run.flagged

\* What production/adapters.py loads as a Reading source.
load_reading_source ==
  /\ plan.mode # "v0.1"
  /\ disk.result # None /\ disk.generator # None
  /\ disk.result.decision = "ACCEPT"
  /\ disk.result.made = disk.generator
  /\ disk.provenance = disk.result.run

\* At every moment, and whatever raised or died, a loadable directory holds one
\* run's work: the earlier run's as it was, or this run's accepted passage; and
\* what the batch reports as accepted can be loaded.  (The converse is not
\* so: a passage may be loadable that the batch reports as a failure.)
AcceptIsWhole ==
  /\ load_reading_source =>
       \/ disk = EarlierRun
       \/ /\ disk.generator = Written(1, run.generator)
          /\ Reviewed /\ Solved /\ Verified
  /\ batch = "ACCEPT" => load_reading_source /\ disk.result.run = 1

\* The pipeline implements JudgedSet: the verifier judges questions, and does
\* so before a candidate is put in; Reviewer and Solver judge the set.
Needed == {"reviewer", "solver"} \cup
          (IF plan.mode = "v0.2" /\ plan.inference # {} THEN {"verifier"} ELSE {})
Approvals ==
  IF run.generator = None THEN {}
  ELSE {j \in Needed : \/ j = "reviewer" /\ Reviewed
                       \/ j = "solver" /\ Solved
                       \/ j = "verifier" /\ Verified}
Promise == INSTANCE JudgedSet WITH
  Judges <- {"reviewer", "solver", "verifier"}, Ahead <- {"verifier"}, NoSet <- None,
  judges <- Needed, judged <- Approvals,
  set <- run.generator,
  decision <- IF run.decision = None THEN "none" ELSE run.decision
IsJudgedSet == Promise!Spec
=============================================================================
