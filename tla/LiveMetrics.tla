----------------------------- MODULE LiveMetrics -----------------------------
(***************************************************************************)
(* build_metrics and final_decision of scripts/run_live_e2e.py: what a live *)
(* cohort's evidence is worth.  Evidence is a record of the five lists the  *)
(* run writes and the result of the regression tests; an item is known by   *)
(* its order in the cohort.                                                 *)
(***************************************************************************)
EXTENDS CandidateOps, Sequences, FiniteSetsExt

\* reviewer_error_status
ErrorStatuses == {"one_genuine_error", "zero_genuine_errors", "multiple_errors",
                  "ambiguous_one_error"}

\* Categories of a LiveInvocationError; the harness sorts them further only by
\* looking at the texts of the CLI.
LiveErrors == {"schema", "parsing", "infrastructure"}

Ended == VALID_STATES \cup {"GENERATION_FAILED"}

Stages == RETRY_STAGES

FormalItem(stage) ==
  CASE stage = "generator" -> [order : Nat, body : GeneratorBody]
    [] stage = "reviewer"  -> [order : Nat, body : ReviewBody, status : ErrorStatuses]
    [] OTHER               -> [order : Nat, body : SolverBody]

\* One invocation's provenance; category "none" is a success.
Sidecar == [stage : Stages, order : Nat, contract_valid : BOOLEAN,
            category : LiveErrors \cup {"none"}]

Outcome == [order : Nat, state : Ended, category : LiveErrors \cup {"none"},
            auto_accept : BOOLEAN]

classify_invocation_failure(category) ==
  CASE category = "schema"  -> "CONTRACT_VALIDATION_ERROR"
    [] category = "parsing" -> "MODEL_OUTPUT_ERROR"
    [] OTHER                -> "PROCESS_ERROR"

Orders(items) == {items[k].order : k \in DOMAIN items}

\* by_gen, by_review, by_solver: a later item with the same id replaces it.
ByOrder(items, n) == items[Max({k \in DOMAIN items : items[k].order = n})].body

Records(e, stage) == {k \in DOMAIN e.provenance : e.provenance[k].stage = stage}

Agreement(e) ==
  {n \in Orders(e.solver) \cap Orders(e.generator) :
     ByOrder(e.solver, n).answer = ByOrder(e.generator, n).key}

StructuralConflict(e) ==
  {n \in Orders(e.solver) \cap Orders(e.reviewer) :
     ByOrder(e.solver, n).answer # ByOrder(e.reviewer, n).answer}

WithStatus(e, status) == {k \in DOMAIN e.reviewer : e.reviewer[k].status = status}
SolverSays(e, answer) == {k \in DOMAIN e.solver : e.solver[k].body.answer = answer}

AcceptanceInvariantFailures(e) ==
  {k \in DOMAIN e.outcomes : e.outcomes[k].state = "ACCEPTED" /\ ~ e.outcomes[k].auto_accept}

\* The gates that hold.  The leakage gate is left out: a payload that leaks is
\* never part of the evidence.
Gates(e, cohort_size) ==
  LET allowed == cohort_size \div 10 IN
  [generator_schema         |-> Cardinality(Orders(e.generator)) = cohort_size,
   reviewer_contract        |-> Cardinality(Orders(e.reviewer)) = cohort_size,
   solver_contract          |-> Cardinality(Orders(e.solver)) = cohort_size,
   reviewer_live_invocation |-> Cardinality(Records(e, "reviewer")) = cohort_size,
   solver_live_invocation   |-> Cardinality(Records(e, "solver")) = cohort_size,
   reviewer_genuine_error_failure |->
     WithStatus(e, "one_genuine_error") = DOMAIN e.reviewer,
   solver_none              |-> SolverSays(e, "NONE") = {},
   solver_ambiguous         |-> Cardinality(SolverSays(e, "AMBIGUOUS")) <= allowed,
   generator_solver_agreement |-> Cardinality(Agreement(e)) >= cohort_size - allowed,
   reviewer_solver_structural_conflict |-> Cardinality(StructuralConflict(e)) <= allowed,
   orchestrator_acceptance_logic |-> AcceptanceInvariantFailures(e) = {},
   single_item_production_acceptance |->
     cohort_size = 1 => /\ Len(e.outcomes) = 1
                        /\ e.outcomes[1].state = "ACCEPTED"
                        /\ AcceptanceInvariantFailures(e) = {}]

\* failure_classification, from the sidecars: every failed outcome has one.
FailureCategories(e) ==
  {classify_invocation_failure(e.provenance[k].category) :
     k \in {j \in DOMAIN e.provenance : e.provenance[j].category # "none"}}

ReviewerGates == {"reviewer_contract", "reviewer_live_invocation",
                  "reviewer_genuine_error_failure"}
SolverGates == {"solver_contract", "solver_live_invocation", "solver_none", "solver_ambiguous",
                "generator_solver_agreement", "reviewer_solver_structural_conflict"}

\* A ready, B Reviewer, C Solver, D Orchestrator, E infrastructure.
final_decision(e, cohort_size) ==
  LET gate == Gates(e, cohort_size)
      unlive == ~ gate.reviewer_live_invocation \/ ~ gate.solver_live_invocation
      logic == gate.orchestrator_acceptance_logic /\ gate.single_item_production_acceptance
  IN  IF e.tests /\ \A k \in DOMAIN gate : gate[k] THEN "A"
      ELSE IF unlive /\ FailureCategories(e) \ {"CONTRACT_VALIDATION_ERROR"} # {} THEN "E"
      ELSE IF \E k \in ReviewerGates : ~ gate[k] THEN "B"
      ELSE IF \E k \in SolverGates : ~ gate[k] THEN "C"
      ELSE IF ~ logic THEN "D" ELSE "E"
=============================================================================
