--------------------------------- MODULE Driver ---------------------------------
(***************************************************************************)
(* The commands of pilot_driver.py and validation_driver.py as concurrent  *)
(* processes on one run directory: the state document, the batches and the *)
(* feedback derived from it, the lock around the read-modify-write cycle,  *)
(* and commands that die, or whose artifact write fails, half-way.         *)
(*                                                                         *)
(* A command reads its agent output before it takes the lock, commits the  *)
(* state and the Reviewer batch under it, and writes the rest without it.  *)
(* Candidates move as in CandidateOps, with a validator that always gives  *)
(* a verdict.  A batch carries a digest of all Candidates and is derived   *)
(* from them, so it is represented by the Candidates it was built from.    *)
(***************************************************************************)
EXTENDS CandidateOps

CONSTANTS
  Processes,        \* driver commands running at the same time
  Items,
  GeneratorBodies,  \* what each agent may answer
  ReviewBodies,
  SolverBodies,
  Partial,          \* the values --allow-partial may have
  KeepSolverOutput, \* TRUE: validation_driver.py, FALSE: pilot_driver.py
  MaxCrashes        \* bound: commands that die or whose write fails

ASSUME DriverAssumption ==
  /\ GeneratorBodies \subseteq GeneratorBody
  /\ ReviewBodies \subseteq ReviewBody
  /\ SolverBodies \subseteq SolverBody
  /\ Partial \subseteq BOOLEAN
  /\ KeepSolverOutput \in BOOLEAN
  /\ MaxCrashes \in Nat
  /\ None \notin Processes \cup States

VARIABLES
  doc,            \* the state file
  reviewerBatch,  \* reviewer_input_batch.json: the Candidates it was built from
  solverBatch,    \* solver_input_batch.json, likewise, or None
  feedback,       \* round_feedback_<label>.json: the items told to revise
  lock,           \* exclusive_file_lock(STATE_PATH): the holder, or None
  job,            \* process |-> the command it runs
  torn,           \* history: a command died between its two locked writes
  crashes

vars == <<doc, reviewerBatch, solverBatch, feedback, lock, job, torn, crashes>>
artifacts == <<reviewerBatch, solverBatch, feedback>>

\* A document is the Candidates and, as routed, the routed_state of each item's
\* latest review_history entry of the round whose label is being used.  Of a
\* command, mem is the document in memory; input the agent outputs, or None;
\* again: the same command, with the same input, once more after a failure.
NoInput == [i \in Items |-> None]

Starting(command, input, partial) ==
  [command |-> command, step |-> "start", again |-> FALSE, partial |-> partial,
   input |-> input, mem |-> None]

Idle == Starting("none", NoInput, FALSE)

\* cmd_init: state and Reviewer batch are saved before anything else runs.
Init ==
  /\ \E first \in [Items -> GeneratorBodies] :
       doc = [candidates |-> [i \in Items |-> NewCandidate(first[i], FALSE)],
              routed |-> NoInput]
  /\ \A i \in Items : validate_candidate_invariants(doc.candidates[i])
  /\ reviewerBatch = doc.candidates
  /\ solverBatch = None
  /\ feedback = None
  /\ lock = None
  /\ job = [p \in Processes |-> Idle]
  /\ torn = FALSE
  /\ crashes = 0

-----------------------------------------------------------------------------
(* Artifacts and stages, as functions of the document. *)

expected_stage_item_ids(cs, command) ==
  {i \in Items : CASE command = "review"   -> AwaitsReview(cs[i])
                   [] command = "revision" -> AwaitsRevision(cs[i])
                   [] OTHER                -> AwaitsSolver(cs[i])}

Supplied(j) == {i \in Items : j.input[i] # None}

validate_stage_item_ids(j) ==
  j.partial \/ Supplied(j) = expected_stage_item_ids(j.mem.candidates, j.command)

\* The items of a Reviewer batch are those that await a review.
BatchedForReview(cs) == expected_stage_item_ids(cs, "review")

SolvingIn(cs) == {i \in Items : cs[i].state = "SOLVING"}

\* build_solver_batch_artifact raises unless all payloads are persisted.
SolverBatchBuilds(cs) == \A i \in SolvingIn(cs) : cs[i].solver_input # None

\* Mutant: feedback for every reviewed item, whatever became of it.
FeedbackForReviewed(d) == {i \in Items : d.routed[i] # None}

build_review_feedback_from_state(d) ==
  {i \in Items : d.routed[i] = "REVISE_REQUIRED"}

\* The command raises before it changes anything.  Nothing but the batch file
\* as it now is ties the Reviewer's output to the document.
Refuses(j) ==
  CASE j.command = "review"   -> \/ reviewerBatch # j.mem.candidates
                                 \/ ~ validate_stage_item_ids(j)
    [] j.command = "revision" -> ~ validate_stage_item_ids(j)
    [] j.command = "solver"   -> \/ ~ validate_stage_item_ids(j)
                                 \/ solverBatch # j.mem.candidates
                                 \/ ~ SolverBatchBuilds(j.mem.candidates)
    [] OTHER                  -> FALSE

\* What the command makes of one Candidate: the prepare command sees to every
\* one, the others to those it has an expected output for.
Stage(j, i) ==
  LET c == j.mem.candidates[i]
      seen == j.command = "prepare"
                \/ i \in Supplied(j) \cap expected_stage_item_ids(j.mem.candidates, j.command)
  IN  IF ~ seen THEN c ELSE
      CASE j.command = "prepare"  -> PrepareCandidate(c)
        [] j.command = "review"   -> ReviewCandidate(c, j.input[i], FALSE)
        [] j.command = "revision" -> ReviseCandidate(c, j.input[i], FALSE)
        [] OTHER                  -> SolveCandidate(c, j.input[i], FALSE, KeepSolverOutput)

Result(j) ==
  LET cs == [i \in Items |-> Stage(j, i)]
      reviewed == IF j.command = "review"
                  THEN Supplied(j) \cap expected_stage_item_ids(j.mem.candidates, "review")
                  ELSE {}
  IN  [candidates |-> cs,
       routed |-> [i \in Items |-> IF i \in reviewed THEN cs[i].state
                                   ELSE j.mem.routed[i]]]

-----------------------------------------------------------------------------
(* Commands are started. *)

Begin(p, new) ==
  /\ job[p] = Idle
  /\ job' = [job EXCEPT ![p] = new]
  /\ UNCHANGED <<doc, artifacts, lock, torn, crashes>>

\* An output file answers some or all of the items asked about.
Answered(asked) ==
  {s \in SUBSET asked : s # {} /\ (s = asked \/ TRUE \in Partial)}

\* The Reviewer has answered the batch as it was when the command starts.
BeginReview(p) ==
  \E s \in Answered(BatchedForReview(reviewerBatch)), partial \in Partial :
  \E bodies \in [s -> ReviewBodies] :
    Begin(p, Starting("review",
      [i \in Items |-> IF i \in s
         THEN [body |-> bodies[i], of |-> canonical_input(reviewerBatch[i].generator_item)]
         ELSE None],
      partial))

BeginRevision(p) ==
  \E s \in Answered(expected_stage_item_ids(doc.candidates, "revision")),
     partial \in Partial :
  \E bodies \in [s -> GeneratorBodies] :
    Begin(p, Starting("revision",
      [i \in Items |-> IF i \in s THEN bodies[i] ELSE None], partial))

\* The Solver has answered the Solver batch.
BeginSolver(p) ==
  /\ solverBatch # None
  /\ \E s \in Answered(SolvingIn(solverBatch)), partial \in Partial :
     \E bodies \in [s -> SolverBodies] :
       Begin(p, Starting("solver",
         [i \in Items |-> IF i \in s
            THEN [body |-> bodies[i], of |-> solverBatch[i].solver_input] ELSE None],
         partial))

BeginPrepareSolver(p) == Begin(p, Starting("prepare", NoInput, FALSE))

BeginPrepareReviewer(p) ==
  Begin(p, [Starting("reviewer_batch", NoInput, FALSE) EXCEPT !.step = "rebatch"])

BeginRebuildFeedback(p) == Begin(p, Starting("feedback", NoInput, FALSE))

-----------------------------------------------------------------------------
(* Their steps. *)

GoOn(p, step, mem) ==
  job' = [job EXCEPT ![p] = [@ EXCEPT !.step = step, !.mem = mem]]

Finish(p) == job' = [job EXCEPT ![p] = Idle]

\* Mutant: the state is loaded without waiting for the lock.
LoadUnlocked(p) ==
  /\ job[p].step = "start"
  /\ job[p].command \in {"review", "revision", "prepare", "solver"}
  /\ lock' = p
  /\ GoOn(p, "save", doc)
  /\ UNCHANGED <<doc, artifacts, torn, crashes>>

\* exclusive_state_transaction: the lock is taken, then the state loaded.
LoadState(p) ==
  /\ job[p].step = "start"
  /\ job[p].command \in {"review", "revision", "prepare", "solver"}
  /\ lock = None
  /\ lock' = p
  /\ GoOn(p, "save", doc)
  /\ UNCHANGED <<doc, artifacts, torn, crashes>>

\* The stage and save_candidate_state, which is all or nothing.
SaveState(p) ==
  /\ job[p].step = "save"
  /\ IF Refuses(job[p])
          \/ \E i \in Items : ~ validate_candidate_invariants(Result(job[p]).candidates[i])
     THEN Finish(p) /\ lock' = None /\ UNCHANGED doc
     ELSE doc' = Result(job[p]) /\ GoOn(p, "batch", doc') /\ UNCHANGED lock
  /\ UNCHANGED <<artifacts, torn, crashes>>

\* save_state's second write; then the lock is released.
PublishBatch(p) ==
  /\ reviewerBatch' = job[p].mem.candidates
  /\ torn' = FALSE
  /\ lock' = None

WriteBatch(p) ==
  /\ job[p].step = "batch"
  /\ PublishBatch(p)
  /\ CASE job[p].command = "review"   -> GoOn(p, "feedback", job[p].mem)
       [] job[p].command = "revision" -> GoOn(p, "rebatch", None)
       [] job[p].command = "prepare"  -> GoOn(p, "read", None)
       [] OTHER                       -> Finish(p)
  /\ UNCHANGED <<doc, solverBatch, feedback, crashes>>

\* cmd_rebuild_feedback takes its snapshot under the lock.
SnapshotFeedback(p) ==
  /\ job[p].step = "start"
  /\ job[p].command = "feedback"
  /\ lock = None
  /\ GoOn(p, "feedback", doc)
  /\ UNCHANGED <<doc, artifacts, lock, torn, crashes>>

\* Written without the lock, from the snapshot.
WriteFeedback(p) ==
  /\ job[p].step = "feedback"
  /\ feedback' = build_review_feedback_from_state(job[p].mem)
  /\ IF job[p].command = "review" THEN GoOn(p, "rebatch", None) ELSE Finish(p)
  /\ UNCHANGED <<doc, reviewerBatch, solverBatch, lock, torn, crashes>>

\* Mutant: write_reviewer_batch loads without the lock.
RebatchUnlocked(p) ==
  /\ job[p].step = "rebatch"
  /\ GoOn(p, "republish", doc)
  /\ UNCHANGED <<doc, artifacts, lock, torn, crashes>>

\* write_reviewer_batch loads and writes under the lock.
Rebatch(p) ==
  /\ job[p].step = "rebatch"
  /\ lock = None
  /\ lock' = p
  /\ GoOn(p, "republish", doc)
  /\ UNCHANGED <<doc, artifacts, torn, crashes>>

Republish(p) ==
  /\ job[p].step = "republish"
  /\ PublishBatch(p)
  /\ Finish(p)
  /\ UNCHANGED <<doc, solverBatch, feedback, crashes>>

\* cmd_prepare_solver_batch loads the committed state without the lock, and
\* raises if the batch cannot be built from it.
ReadCommitted(p) ==
  /\ job[p].step = "read"
  /\ IF SolverBatchBuilds(doc.candidates) THEN GoOn(p, "export", doc) ELSE Finish(p)
  /\ UNCHANGED <<doc, artifacts, lock, torn, crashes>>

WriteSolverBatch(p) ==
  /\ job[p].step = "export"
  /\ solverBatch' = job[p].mem.candidates
  /\ Finish(p)
  /\ UNCHANGED <<doc, reviewerBatch, feedback, lock, torn, crashes>>

\* Mutant: a lock that outlives its process, as a lock file that merely exists.
LockOutlives(p) ==
  /\ job[p] # Idle
  /\ crashes < MaxCrashes
  /\ crashes' = crashes + 1
  /\ torn' = (torn \/ job[p].step = "batch")
  /\ Finish(p)
  /\ UNCHANGED <<doc, artifacts, lock>>

\* The command dies, or a write of it raises.  The operator may rerun it.
Crash(p) ==
  /\ job[p] # Idle
  /\ crashes < MaxCrashes
  /\ crashes' = crashes + 1
  /\ lock' = IF lock = p THEN None ELSE lock
  /\ torn' = (torn \/ job[p].step = "batch")
  /\ \/ Finish(p)
     \/ /\ Supplied(job[p]) # {}
        /\ job' = [job EXCEPT ![p] =
             [@ EXCEPT !.step = "start", !.mem = None,
                       !.again = job[p].step \notin {"start", "save"}]]
  /\ UNCHANGED <<doc, artifacts>>

Step(p) ==
  \/ LoadState(p) \/ SaveState(p) \/ WriteBatch(p)
  \/ SnapshotFeedback(p) \/ WriteFeedback(p)
  \/ Rebatch(p) \/ Republish(p)
  \/ ReadCommitted(p) \/ WriteSolverBatch(p)

Next ==
  \E p \in Processes :
    \/ BeginReview(p) \/ BeginRevision(p) \/ BeginSolver(p)
    \/ BeginPrepareSolver(p) \/ BeginPrepareReviewer(p) \/ BeginRebuildFeedback(p)
    \/ Step(p) \/ Crash(p)

Spec == Init /\ [][Next]_vars

\* A command that runs goes on; and the operator gives every command again and
\* again, as long as the files it starts from are there.
FairSpec ==
  /\ Spec
  /\ \A p \in Processes :
       /\ WF_vars(Step(p))
       /\ SF_vars(BeginReview(p)) /\ SF_vars(BeginRevision(p))
       /\ SF_vars(BeginSolver(p))
       /\ SF_vars(BeginPrepareSolver(p)) /\ SF_vars(BeginPrepareReviewer(p))

-----------------------------------------------------------------------------
(* Properties. *)

Current(i) == doc.candidates[i]

\* Whenever no command is between its two locked writes, and none died there,
\* the Reviewer batch is the one of the current document: no slower command's
\* write_reviewer_batch ever puts an older one back.
ReviewerBatchFresh ==
  (\A p \in Processes : job[p].step # "batch") /\ ~ torn =>
    reviewerBatch = doc.candidates

\* No command's save drops what another command saved: every Candidate only
\* moves forward, in its histories and its counters, and a terminal one stays.
Advances(c, d) ==
  /\ c.review_history \subseteq d.review_history
  /\ c.generation_history <= d.generation_history
  /\ c.generation_attempt <= d.generation_attempt
  /\ c.revision_count <= d.revision_count
  /\ \A s \in RETRY_STAGES :
       /\ c.system_failure_retries[s] <= d.system_failure_retries[s]
       /\ c.validation_failure_retries[s] <= d.validation_failure_retries[s]
  /\ c.state \in TERMINAL_STATES => d = c

NoLostUpdate == [][\A i \in Items : Advances(Current(i), Current(i)')]_vars

\* A Solver is never shown, and no Solver output is ever kept on, an item that
\* has been replaced, although prepare_solver_batch reads the state and writes
\* the batch without the lock, and outputs are not tied to their batch.
SolverNeverStale ==
  /\ \A i \in Items : Current(i).solver_item # None =>
       Current(i).solver_item.of = Current(i).generator_item.ver
  /\ solverBatch # None => \A i \in SolvingIn(solverBatch) :
       solverBatch[i].solver_input = Current(i).generator_item.ver

\* The Generator is never told to revise an item that no saved review sent
\* back: not by a review whose save was refused, nor by one that discarded it.
FeedbackNotAhead ==
  feedback # None =>
    \A i \in feedback :
      \E h \in Current(i).review_history : h.routed_state = "REVISE_REQUIRED"

\* PIPELINE.md section 6: "Reviewer output is accepted only after that batch
\* is present and still matches the persisted Candidate state".
ReviewAboutCurrentItem ==
  \A i \in Items : Current(i).reviewer_item # None =>
    Current(i).reviewer_item.of = Current(i).generator_item.ver

\* README.md: "If an artifact write fails, rerun the same command": what the
\* failed run committed is not counted a second time.
RerunIsHarmless ==
  [][ \A p \in Processes : job[p].again => doc' = doc \/ job'[p] = job[p] ]_vars

\* Whatever dies or fails half-way, the commands bring every item to its end.
EveryItemEnds == <>(\A i \in Items : Current(i).state \in TERMINAL_STATES)
=============================================================================
