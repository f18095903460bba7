------------------------------ MODULE LiveCohort ------------------------------
(***************************************************************************)
(* scripts/run_live_e2e.py: a cohort of items taken once through the three *)
(* live agents under a freeze of the sources (runtime/freeze.py), the      *)
(* evidence files it leaves, and the report-only mode that trusts them.    *)
(*                                                                         *)
(* The protected sources are known by their version; a freeze is known by  *)
(* the run that made it.  The output directory is not cleared between      *)
(* runs.  A call of a runtime is what AgentCall promises: it may answer,   *)
(* fail with a category, or raise anything else.                           *)
(***************************************************************************)
EXTENDS LiveMetrics

CONSTANTS
  Cohorts,           \* the values of --count
  GENERATOR_VALIDATION_RETRIES,
  GeneratorBodies, ReviewBodies, SolverBodies,  \* what the agents may answer
  Statuses,          \* and what the Reviewer counts
  Categories,        \* how a call may fail
  MaxItems,          \* bound: items, over all runs into one output directory
  MaxDrift,          \* bound: changes of the protected sources
  Tamperable,        \* bound: the evidence files changed behind the harness
  MaxTampers         \* bound: how often one is

ASSUME LiveAssumption ==
  /\ Cohorts # {} /\ Cohorts \subseteq Nat \ {0}
  /\ GENERATOR_VALIDATION_RETRIES \in Nat
  /\ GeneratorBodies \subseteq {b \in GeneratorBody : b.ident /\ b.shape = "ok"}
  /\ ReviewBodies \subseteq {b \in ReviewBody : b.ident /\ b.shape = "ok"}
  /\ SolverBodies \subseteq {b \in SolverBody : b.ident /\ b.shape = "ok"}
  /\ Statuses \subseteq ErrorStatuses
  /\ Categories \subseteq LiveErrors \ {"schema"}
  /\ Tamperable \subseteq {"generator", "reviewer", "solver", "provenance", "outcomes"}

VARIABLES
  src,       \* the protected sources: [version, changes so far]
  run,       \* the harness process
  mem,       \* its lists
  disk,      \* the output directory
  reporter,  \* a report-only process, and whether it is told to run the tests anew
  tampers

vars == <<src, run, mem, disk, reporter, tampers>>

Lists == {"generator", "reviewer", "solver", "provenance", "outcomes"}
Evidence == Lists \cup {"tests", "freeze"}

\* The order of the five writes after an item.
WriteOrder == <<"generator", "reviewer", "solver", "provenance", "outcomes">>

Steps == {"generator", "generator call", "generator check",
          "reviewer", "reviewer call", "reviewer check",
          "solver", "solver call", "solver check",
          "write", "tests", "metrics", "manifest", "ended"}

\* The steps of an item at which a stage's call is out, and its answer in.
Calling == [generator |-> "generator call", reviewer |-> "reviewer call",
            solver |-> "solver call"]
Checking == [generator |-> "generator check", reviewer |-> "reviewer check",
             solver |-> "solver check"]

NoLists == [a \in Lists \cup {"tests"} |-> IF a = "tests" THEN FALSE ELSE <<>>]

Init ==
  /\ src = [version |-> 0, changes |-> 0]
  /\ run = [pc |-> "ended", id |-> 0, items |-> 0, frozen |-> 0, cohort |-> CHOOSE n \in Cohorts : TRUE,
            order |-> 0, attempt |-> 0, written |-> 0, candidate |-> None]
  /\ mem = NoLists
  /\ disk = [a \in Evidence \cup {"manifest", "verdict", "drift"} |-> None]
  /\ reporter = [pc |-> "idle", freeze |-> None, retest |-> FALSE, seen |-> None]
  /\ tampers = 0

-----------------------------------------------------------------------------
(* The sources and the freeze. *)

\* Somebody edits a protected file, or puts it back.
Drift ==
  /\ src.changes < MaxDrift
  /\ src' = [version |-> 1 - src.version, changes |-> src.changes + 1]
  /\ UNCHANGED <<run, mem, disk, reporter, tampers>>

\* RunFreeze.verify: the manifest on disk is the one in memory, and the
\* sources are those it names.
Intact == disk.freeze = [run |-> run.id, value |-> run.frozen] /\ src.version = run.frozen

Set(step) == run' = [run EXCEPT !.pc = step]

\* A failed check: FreezeDriftError ends the run, and inside the item loop it
\* leaves freeze_drift.json.
Abort ==
  /\ Set("ended")
  /\ disk' = [disk EXCEPT !.drift =
       IF run.pc \in {"metrics", "manifest"} THEN @ ELSE [run |-> run.id]]
  /\ UNCHANGED mem

Harness == UNCHANGED <<src, reporter, tampers>>

\* The manifest names the sources as they are, and is written before it is used.
create_run_freeze(id) == [run |-> id, value |-> src.version]

\* main: the freeze is taken and persisted before the first agent call.
Start ==
  /\ run.pc = "ended"
  /\ \E n \in Cohorts :
       /\ run.items + n <= MaxItems
       /\ run' = [pc |-> "generator", id |-> run.id + 1, items |-> run.items + n,
                  frozen |-> src.version, cohort |-> n, order |-> 1, attempt |-> 1,
                  written |-> 0, candidate |-> None]
  /\ mem' = NoLists
  /\ disk' = [disk EXCEPT !.freeze = create_run_freeze(run.id + 1)]
  /\ Harness

\* The process dies, or an exception that nothing catches ends it.
Die ==
  /\ run.pc # "ended"
  /\ Set("ended")
  /\ UNCHANGED <<mem, disk>> /\ Harness

-----------------------------------------------------------------------------
(* process_one *)

sidecar(stage, valid, category) ==
  [stage |-> stage, order |-> run.order, contract_valid |-> valid, category |-> category]

outcome(state, category, accept) ==
  [order |-> run.order, state |-> state, category |-> category, auto_accept |-> accept]

\* Mutant: on drift the harness waits for the sources to be put back.
WaitForSources(stage) ==
  /\ run.pc = stage
  /\ Intact
  /\ Set(Calling[stage]) /\ UNCHANGED <<mem, disk>>
  /\ Harness

\* invoke: the check before, then the call.
BeginCall(stage) ==
  /\ run.pc = stage
  /\ IF Intact THEN Set(Calling[stage]) /\ UNCHANGED <<mem, disk>> ELSE Abort
  /\ Harness

\* candidate_from_generator
candidate_from_generator(body) ==
  [state |-> "GENERATED", generation_attempt |-> 1, revision_count |-> 0,
   system_failure_retries |-> [s \in RETRY_STAGES |-> 0],
   validation_failure_retries |-> [s \in RETRY_STAGES |-> 0],
   generator_item |-> [body |-> body, ver |-> 0],
   reviewer_item |-> None, reviewer_input |-> None,
   solver_item |-> None, solver_input |-> None, leakage_check |-> None,
   consensus |-> None, acceptance_policy |-> None, failure |-> None,
   discard_note |-> FALSE, generation_history |-> 0, review_history |-> {}]

\* Mutant: every failure is worth another attempt.
RetryAnyFailure(category) ==
  LET again == run.attempt <= GENERATOR_VALIDATION_RETRIES /\ run.cohort # 1
  IN  /\ mem' = [mem EXCEPT
           !.provenance = Append(@, sidecar("generator", FALSE, category)),
           !.outcomes = IF again THEN @
                        ELSE Append(@, outcome("GENERATION_FAILED", category, FALSE))]
      /\ run' = [run EXCEPT !.pc = IF again THEN "generator" ELSE "write",
                            !.attempt = IF again THEN @ + 1 ELSE @]
      /\ UNCHANGED disk

\* A Generator attempt that failed: another one, only after a schema failure,
\* within the budget and never for a cohort of one; or the item's outcome.
GeneratorFailed(category) ==
  LET again == /\ category = "schema"
               /\ run.attempt <= GENERATOR_VALIDATION_RETRIES
               /\ run.cohort # 1
  IN  /\ mem' = [mem EXCEPT
           !.provenance = Append(@, sidecar("generator", FALSE, category)),
           !.outcomes = IF again THEN @
                        ELSE Append(@, outcome("GENERATION_FAILED", category, FALSE))]
      /\ run' = [run EXCEPT !.pc = IF again THEN "generator" ELSE "write",
                            !.attempt = IF again THEN @ + 1 ELSE @]
      /\ UNCHANGED disk

\* record_live_stage_failure: the item's outcome, without a retry.
StageFailed(stage, category) ==
  LET failed == record_stage_failure(run.candidate,
                  IF category = "schema" THEN "content" ELSE "system", stage)
  IN  /\ mem' = [mem EXCEPT
           !.provenance = Append(@, sidecar(stage, FALSE, category)),
           !.outcomes = Append(@, outcome(failed.state, category, FALSE))]
      /\ run' = [run EXCEPT !.pc = "write", !.candidate = failed]
      /\ UNCHANGED disk

Failed(stage, category) ==
  IF stage = "generator" THEN GeneratorFailed(category) ELSE StageFailed(stage, category)

\* Mutant: a failed invocation is handled without the check after it.
UncheckedFailure(stage) ==
  /\ run.pc = Calling[stage]
  /\ \/ IF Intact THEN Set(Checking[stage]) /\ UNCHANGED <<mem, disk>> ELSE Abort
     \/ \E category \in Categories : Failed(stage, category)
  /\ Harness

\* The call comes back.  The check after it is made also when it failed, and
\* drift found there takes the place of the failure.
EndCall(stage) ==
  /\ run.pc = Calling[stage]
  /\ IF ~ Intact THEN Abort
     ELSE \/ Set(Checking[stage]) /\ UNCHANGED <<mem, disk>>
          \/ \E category \in Categories : Failed(stage, category)
  /\ Harness

\* The item passed get_single_item, the schema, the identity check,
\* finalization and the precheck: it is listed, and moves to REVIEWING.
ListGenerated(outcomes, candidate) ==
  LET body == candidate.generator_item.body IN
  /\ mem' = [mem EXCEPT
       !.generator = Append(@, [order |-> run.order, body |-> body]),
       !.provenance = Append(@, sidecar("generator", TRUE, "none")),
       !.outcomes = outcomes]
  /\ run' = [run EXCEPT !.pc = "reviewer", !.candidate = candidate]

Generated(body) ==
  ListGenerated(mem.outcomes, transition(candidate_from_generator(body), "REVIEWING"))

\* A review: what is listed, and in which states the Solver is asked.
RouteReview(body, status, crash, listed(_), asked) ==
  LET given == [run.candidate EXCEPT !.reviewer_item = [body |-> body, of |-> 0]]
      routed == process_review_output(given, crash)
      solving == routed.state \in asked
  IN  /\ mem' = [mem EXCEPT
           !.reviewer = IF listed(routed.state)
                        THEN Append(@, [order |-> run.order, body |-> body, status |-> status])
                        ELSE @,
           !.provenance = Append(@, sidecar("reviewer", TRUE, "none")),
           !.outcomes = IF solving THEN @ ELSE Append(@, outcome(routed.state, "none", FALSE))]
      /\ run' = [run EXCEPT !.pc = IF solving THEN "solver" ELSE "write", !.candidate = routed]

\* Mutants: the review is listed on the way out only; a revision is solved too.
ListedOnTheWayOut(body, status, crash) ==
  RouteReview(body, status, crash, LAMBDA state : state # "SOLVING", {"SOLVING"})

RevisionSolved(body, status, crash) ==
  RouteReview(body, status, crash, LAMBDA state : TRUE, {"SOLVING", "REVISE_REQUIRED"})

\* The formal review is listed whatever the state machine makes of it.
Reviewed(body, status, crash) ==
  RouteReview(body, status, crash, LAMBDA state : TRUE, {"SOLVING"})

Solved(body, crash) ==
  LET solved == process_solver_stage(run.candidate, [body |-> body, of |-> 0],
                  canonical_input(run.candidate.generator_item), crash)
  IN  /\ mem' = [mem EXCEPT
           !.solver = Append(@, [order |-> run.order, body |-> body]),
           !.provenance = Append(@, sidecar("solver", TRUE, "none")),
           !.outcomes = Append(@, outcome(solved.state, "none",
                          solved.consensus # None /\ solved.consensus.auto_accept))]
      /\ run' = [run EXCEPT !.pc = "write", !.candidate = solved]

\* What the validators passed.
Passed(stage) ==
  /\ \/ stage = "generator" /\ \E body \in GeneratorBodies : Generated(body)
     \/ /\ stage = "reviewer"
        /\ \E body \in ReviewBodies, status \in Statuses, crash \in BOOLEAN :
             Reviewed(body, status, crash)
     \/ stage = "solver" /\ \E body \in SolverBodies, crash \in BOOLEAN : Solved(body, crash)
  /\ UNCHANGED disk

\* The answer is validated.  Every validator is bracketed by checks, so that no
\* answer passes over changed sources; but one that is not a single object, is of
\* another item, or that the adapter of a review refuses, fails without a check.
CheckAnswer(stage) ==
  /\ run.pc = Checking[stage]
  /\ \/ Failed(stage, "schema")
     \/ IF Intact THEN Passed(stage) ELSE Abort
  /\ Harness

-----------------------------------------------------------------------------
(* main: the evidence files. *)

Written(a) == [run |-> run.id, value |-> mem[a]]

\* The five lists are rewritten after every item.
WriteList ==
  /\ run.pc = "write"
  /\ LET a == WriteOrder[run.written + 1] IN disk' = [disk EXCEPT ![a] = Written(a)]
  /\ run' = IF run.written < 4 THEN [run EXCEPT !.written = @ + 1]
            ELSE IF run.order < run.cohort
            THEN [run EXCEPT !.written = 0, !.order = @ + 1, !.attempt = 1,
                             !.pc = "generator", !.candidate = None]
            ELSE [run EXCEPT !.written = 0, !.pc = "tests"]
  /\ UNCHANGED mem /\ Harness

\* run_existing_tests, and the outcomes once more.
RunTests ==
  /\ run.pc = "tests"
  /\ \E passed \in BOOLEAN :
       /\ mem' = [mem EXCEPT !.tests = passed]
       /\ disk' = [disk EXCEPT !.outcomes = Written("outcomes"),
                               !.tests = [run |-> run.id, value |-> passed]]
  /\ Set("metrics")
  /\ Harness

WriteMetrics ==
  /\ run.pc = "metrics"
  /\ IF ~ Intact THEN Abort
     ELSE /\ disk' = [disk EXCEPT !.verdict =
               [run |-> run.id, value |-> final_decision(mem, run.cohort)]]
          /\ Set("manifest")
          /\ UNCHANGED mem
  /\ Harness

\* write_artifact_manifest: the hashes of the files as they are on disk.
WriteManifest ==
  /\ run.pc = "manifest"
  /\ IF ~ Intact THEN Abort
     ELSE /\ disk' = [disk EXCEPT !.manifest =
               [run |-> run.id, files |-> [a \in Evidence |-> disk[a]]]]
          /\ Set("ended")
          /\ UNCHANGED mem
  /\ Harness

-----------------------------------------------------------------------------
(* report_existing_run *)

verify_artifact_manifest(freeze) ==
  /\ disk.manifest # None
  /\ disk.manifest.run = freeze.run
  /\ \A a \in Evidence : disk[a] = disk.manifest.files[a]

\* RunFreeze.verify of the freeze that was loaded.
verify(freeze) == disk.freeze = freeze /\ src.version = freeze.value

Trusted(freeze) == verify(freeze) /\ verify_artifact_manifest(freeze)

Others == UNCHANGED <<src, run, mem, tampers>>

Refuse == reporter' = [pc |-> "idle", freeze |-> None, retest |-> FALSE, seen |-> None]

OpenReport ==
  /\ reporter.pc = "idle"
  /\ disk.freeze # None
  /\ Trusted(disk.freeze)
  /\ reporter' = [reporter EXCEPT !.pc = "verified", !.freeze = disk.freeze]
  /\ UNCHANGED disk /\ Others

\* validate_frozen_run_contract: the provenance is bound to the freeze, every
\* formal output has its sidecar, and the outcomes are read.
Represented ==
  /\ disk.provenance.run = reporter.freeze.run
  /\ \A stage \in Stages : disk[stage].value # <<>> =>
       \E k \in DOMAIN disk.provenance.value :
         disk.provenance.value[k].stage = stage /\ disk.provenance.value[k].contract_valid

ReadContract ==
  /\ reporter.pc = "verified"
  /\ IF /\ verify(reporter.freeze)
        /\ Represented
        /\ disk.outcomes.value # <<>>
     THEN reporter' = [reporter EXCEPT !.pc = "half read",
            !.seen = [outcomes |-> disk.outcomes.value, tests |-> disk.tests.value]]
     ELSE Refuse
  /\ UNCHANGED disk /\ Others

\* The formal outputs and the provenance are read a second time, unchecked; and
\* with WE_E2E_REPORT_ONLY_RUN_TESTS the tests are run again, whose result
\* takes the place of the recorded one.
ReadEvidence ==
  /\ reporter.pc = "half read"
  /\ \E retest \in BOOLEAN :
       \E tests \in IF retest THEN BOOLEAN ELSE {reporter.seen.tests} :
         reporter' = [reporter EXCEPT !.pc = "read", !.retest = retest, !.seen =
           [a \in Lists \cup {"tests"} |->
              CASE a = "tests" -> tests
                [] a = "outcomes" -> reporter.seen.outcomes
                [] OTHER -> disk[a].value]]
  /\ UNCHANGED disk /\ Others

\* Mutant: the cohort is what was generated.
GeneratedCohort(e) == Len(e.generator)

\* _cohort_size_from_outcomes
cohort_size_from(e) == Len(e.outcomes)

\* One of the checks on the way to the report.
Verify(from, to, passed) ==
  /\ reporter.pc = from
  /\ IF passed THEN reporter' = [reporter EXCEPT !.pc = to] ELSE Refuse
  /\ UNCHANGED disk /\ Others

\* Before and after the metrics are built both the evidence and the freeze are
\* checked; before the write only the freeze is.
Recheck == Verify("read", "measured", Trusted(reporter.freeze))
LastCheck == Verify("measured", "decided", Trusted(reporter.freeze))
FreezeCheck == Verify("decided", "writing", verify(reporter.freeze))

\* The write itself looks at nothing: a change since the check before it goes
\* unnoticed.
PublishReport ==
  /\ reporter.pc = "writing"
  /\ disk' = [disk EXCEPT !.verdict =
       [run |-> reporter.freeze.run,
        value |-> final_decision(reporter.seen, cohort_size_from(reporter.seen))]]
  /\ Refuse
  /\ Others

\* A published evidence file is changed behind the harness.
Tamper ==
  /\ tampers < MaxTampers
  /\ tampers' = tampers + 1
  /\ disk.freeze # None /\ disk.manifest # None /\ disk.manifest.run = disk.freeze.run
  /\ \E a \in Tamperable : disk' = [disk EXCEPT ![a].value = <<>>]
  /\ UNCHANGED <<src, run, mem, reporter>>

-----------------------------------------------------------------------------

HarnessStep ==
  \/ \E stage \in Stages : BeginCall(stage) \/ EndCall(stage) \/ CheckAnswer(stage)
  \/ WriteList \/ RunTests \/ WriteMetrics \/ WriteManifest

Report == \/ OpenReport \/ ReadContract \/ ReadEvidence
          \/ Recheck \/ LastCheck \/ FreezeCheck \/ PublishReport

Next == Drift \/ Start \/ Die \/ HarnessStep \/ Report \/ Tamper

Spec == Init /\ [][Next]_vars

\* The harness runs on, and a call comes back, as Ends of Invocation says.
FairSpec == Spec /\ WF_vars(HarnessStep)

-----------------------------------------------------------------------------
(* Properties. *)

InItem == run.pc \in Steps \ {"write", "tests", "metrics", "manifest", "ended"}

\* process_one has eleven ways out, and each item gets exactly one outcome, in
\* the order of the items.  What its sidecars say of its attempts is what
\* happened: the Generator was tried again only after schema failures, within
\* the budget and never in a cohort of one; the formal lists hold exactly the
\* items of the valid sidecars; nothing is reviewed or solved that the stage
\* before refused.
Of(e, n, stage) ==
  {k \in DOMAIN e.provenance : e.provenance[k].order = n /\ e.provenance[k].stage = stage}
Valid(e, n, stage) == {k \in Of(e, n, stage) : e.provenance[k].contract_valid}
MaxTries(cohort) == IF cohort = 1 THEN 1 ELSE GENERATOR_VALIDATION_RETRIES + 1
EvidenceAccounted ==
  /\ run.pc # "ended" => Len(mem.outcomes) = run.order - (IF InItem THEN 1 ELSE 0)
  /\ \A n \in DOMAIN mem.outcomes :
       LET tries == Of(mem, n, "generator") IN
       /\ mem.outcomes[n].order = n
       /\ Cardinality(tries) \in 1..MaxTries(run.cohort)
       /\ \A k \in tries : (\E later \in tries : later > k) => mem.provenance[k].category = "schema"
       /\ Cardinality(Of(mem, n, "reviewer")) = IF Valid(mem, n, "generator") # {} THEN 1 ELSE 0
       /\ Cardinality(Of(mem, n, "solver")) <= Cardinality(Valid(mem, n, "reviewer"))
       /\ \A stage \in Stages : n \in Orders(mem[stage]) <=> Valid(mem, n, stage) # {}

\* An accepted item has its evidence in the formal outputs: a PASS review and
\* a solution, both of the Generator's key.
AcceptedIsEvidenced ==
  \A k \in DOMAIN mem.outcomes : mem.outcomes[k].state = "ACCEPTED" =>
    /\ \A stage \in Stages : k \in Orders(mem[stage])
    /\ ByOrder(mem.reviewer, k).verdict = "PASS"
    /\ ByOrder(mem.reviewer, k).answer = ByOrder(mem.generator, k).key
    /\ ByOrder(mem.solver, k).answer = ByOrder(mem.generator, k).key

\* The verdict A, though no gate looks at verdicts, is only given to a run in
\* which the Reviewer passed every item and the Solver answered it: by the run
\* itself, and by any report on it, with the tests run again or not.
ReadyMeansThrough ==
  disk.verdict # None /\ disk.verdict.run = run.id /\ disk.verdict.value = "A" =>
    \A n \in 1..run.cohort :
      /\ n \in Orders(mem.reviewer) \cap Orders(mem.solver)
      /\ ByOrder(mem.reviewer, n).verdict = "PASS"

\* While the sources, or the freeze, are not as they were frozen no answer of an
\* agent becomes a formal output, and no failure of a call is blamed on the
\* runtime (README "Protected or non-allowlisted source drift fails closed").
\* What may still be recorded of an item is that its answer was refused.
DriftFailsClosed ==
  [][ ~ Intact /\ mem' # mem /\ mem' # NoLists /\ run.pc # "tests" =>
        /\ \A stage \in Stages : mem'[stage] = mem[stage]
        /\ LET last == mem'.provenance[Len(mem'.provenance)] IN
           ~ last.contract_valid /\ last.category = "schema" ]_vars

\* A report on the last run publishes final_decision of the very evidence the
\* run gathered, for the run's own cohort: not of what was changed behind it
\* before or while it was read, and with other tests only when told to run them.
ReportReproduces ==
  [][ reporter.pc = "writing" /\ reporter.freeze.run = run.id /\ reporter' # reporter =>
        LET tests == IF reporter.retest THEN reporter.seen.tests ELSE mem.tests IN
        disk'.verdict =
          [run |-> run.id,
           value |-> final_decision([mem EXCEPT !.tests = tests], run.cohort)] ]_vars

\* A run ends, whatever the agents answer.
RunEnds == (run.pc # "ended") ~> (run.pc = "ended")
=============================================================================
