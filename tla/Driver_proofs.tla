----------------------------- MODULE Driver_proofs -----------------------------
(***************************************************************************)
(* The commands of any number of processes on any number of items never    *)
(* lose a saved update, never put an old Reviewer batch back, and never    *)
(* tell the Generator to revise an item no saved review sent back.  For    *)
(* every set of agent answers, every policy and any number of crashes.     *)
(*                                                                         *)
(* The argument is the lock: a command between its load and its last       *)
(* locked write holds it, and so has the current document in memory        *)
(* (Exclusion).  From then on it is about one document and one command: a  *)
(* stage that runs forward moves every Candidate forward (StageAdvances).  *)
(* A snapshot taken under the lock and written later is an old document,   *)
(* of which only what never goes back can be relied on (Told).             *)
(***************************************************************************)
EXTENDS Driver, CandidateOps_proofs

-----------------------------------------------------------------------------
(* Types. *)

Commands == {"none", "review", "revision", "prepare", "solver", "reviewer_batch",
             "feedback"}
Saving == {"review", "revision", "prepare", "solver"}
Steps == {"start", "save", "batch", "feedback", "rebatch", "republish", "read", "export"}
Holding == {"save", "batch", "feedback", "republish", "export"}
Locking == {"save", "batch", "republish"}

Documents == [candidates : [Items -> Candidate], routed : [Items -> States \cup {None}]]
Inputs == [Items -> ReviewerItem \cup GeneratorBody \cup SolverItem \cup {None}]
Job == [command : Commands, step : Steps, again : BOOLEAN, partial : BOOLEAN,
        input : Inputs, mem : Documents \cup {None}]

\* The answers are of the kind the command asked for.
AnswersFit(j) ==
  /\ j.command = "review"   => \A i \in Items : j.input[i] \in ReviewerItem \cup {None}
  /\ j.command = "revision" => \A i \in Items : j.input[i] \in GeneratorBody \cup {None}
  /\ j.command = "solver"   => \A i \in Items : j.input[i] \in SolverItem \cup {None}

JobFits(j) ==
  /\ AnswersFit(j)
  /\ j.step \in Holding => j.mem \in Documents
  /\ j.step = "save" => j.command \in Saving
  /\ j.step = "export" => SolverBatchBuilds(j.mem.candidates)

TypeInv ==
  /\ doc \in Documents
  /\ reviewerBatch \in [Items -> Candidate]
  /\ solverBatch # None =>
       solverBatch \in [Items -> Candidate] /\ SolverBatchBuilds(solverBatch)
  /\ feedback # None => feedback \subseteq Items
  /\ job \in [Processes -> Job]
  /\ \A p \in Processes : JobFits(job[p])

LEMMA IdleFits == Idle \in Job /\ JobFits(Idle) /\ Idle.step = "start"
<1>1. NoInput \in Inputs
  BY DEF NoInput, Inputs
<1> QED BY <1>1 DEF Idle, Starting, Job, JobFits, AnswersFit, Commands, Steps, Holding

\* A job that only changes its step and its document keeps its answers.
LEMMA GoOnFits ==
  ASSUME job \in [Processes -> Job], NEW p \in Processes, AnswersFit(job[p]),
         NEW step \in Steps, NEW mem \in Documents \cup {None}, GoOn(p, step, mem)
  PROVE  /\ job' \in [Processes -> Job]
         /\ AnswersFit(job'[p])
         /\ job'[p].step = step /\ job'[p].mem = mem
         /\ job'[p].command = job[p].command /\ job'[p].input = job[p].input
         /\ \A q \in Processes \ {p} : job'[q] = job[q]
<1> DEFINE j == [job[p] EXCEPT !.step = step, !.mem = mem]
<1>1. job' = [job EXCEPT ![p] = j]
  BY DEF GoOn
<1>2. /\ j \in Job /\ j.step = step /\ j.mem = mem
      /\ j.command = job[p].command /\ j.input = job[p].input
  BY DEF Job
<1>3. AnswersFit(j)
  <2> HIDE DEF j
  <2> QED BY <1>2 DEF AnswersFit
<1> HIDE DEF j
<1> QED BY <1>1, <1>2, <1>3

LEMMA BeginFits ==
  ASSUME job \in [Processes -> Job], NEW p \in Processes, NEW new \in Job, Begin(p, new)
  PROVE  /\ job' \in [Processes -> Job]
         /\ job'[p] = new
         /\ \A q \in Processes \ {p} : job'[q] = job[q]
BY DEF Begin

LEMMA FinishFits ==
  ASSUME job \in [Processes -> Job], NEW p \in Processes, Finish(p)
  PROVE  /\ job' \in [Processes -> Job]
         /\ job'[p] = Idle
         /\ \A q \in Processes \ {p} : job'[q] = job[q]
BY IdleFits DEF Finish

\* A rerun starts from the answers of the run that failed.
LEMMA RerunFits ==
  ASSUME job \in [Processes -> Job], NEW p \in Processes, AnswersFit(job[p]),
         NEW again \in BOOLEAN,
         job' = [job EXCEPT ![p] = [@ EXCEPT !.step = "start", !.mem = None,
                                              !.again = again]]
  PROVE  /\ job' \in [Processes -> Job]
         /\ AnswersFit(job'[p])
         /\ job'[p].step = "start"
         /\ job'[p].command = job[p].command /\ job'[p].input = job[p].input
         /\ \A q \in Processes \ {p} : job'[q] = job[q]
<1> DEFINE j == [job[p] EXCEPT !.step = "start", !.mem = None, !.again = again]
<1>1. job' = [job EXCEPT ![p] = j]
  OBVIOUS
<1>2. /\ j \in Job /\ j.step = "start"
      /\ j.command = job[p].command /\ j.input = job[p].input
  BY DEF Job, Steps
<1>3. AnswersFit(j)
  <2> HIDE DEF j
  <2> QED BY <1>2 DEF AnswersFit
<1> HIDE DEF j
<1> QED BY <1>1, <1>2, <1>3

-----------------------------------------------------------------------------
(* A stage moves every Candidate forward.                                   *)

LEMMA GrowsAdvances ==
  ASSUME NEW c, NEW d, Grows(c, d), c.state \notin TERMINAL_STATES
  PROVE  Advances(c, d)
BY DEF Grows, Advances

LEMMA StaysAdvances ==
  ASSUME NEW c \in Candidate
  PROVE  Advances(c, c)
BY GrowsReflexive DEF Grows, Advances

\* A terminal Candidate awaits nothing.
LEMMA TerminalAwaitsNothing ==
  ASSUME NEW c \in Candidate, c.state \in TERMINAL_STATES
  PROVE  /\ ~ AwaitsReview(c) /\ ~ AwaitsRevision(c) /\ ~ AwaitsSolver(c)
         /\ PrepareCandidate(c) = c
BY DEF TERMINAL_STATES, FailedStates, FailedAt, AwaitsReview, AwaitsRevision, AwaitsSolver,
   PrepareCandidate

\* For an item the command has an expected output for, the output is a fitting
\* one and the Candidate awaits it.
LEMMA SuppliedIsExpected ==
  ASSUME NEW j \in Job, JobFits(j), NEW i \in Items, j.mem \in Documents,
         i \in Supplied(j) \cap expected_stage_item_ids(j.mem.candidates, j.command)
  PROVE  LET c == j.mem.candidates[i]
         IN  /\ j.command = "review" => AwaitsReview(c) /\ j.input[i] \in ReviewerItem
             /\ j.command = "revision" => AwaitsRevision(c) /\ j.input[i] \in GeneratorBody
             /\ j.command \notin {"review", "revision"} => AwaitsSolver(c)
             /\ j.command = "solver" => j.input[i] \in SolverItem
BY DEF JobFits, AnswersFit, Supplied, expected_stage_item_ids

LEMMA StageAdvances ==
  ASSUME NEW j \in Job, JobFits(j), j.step = "save", NEW i \in Items
  PROVE  Stage(j, i) \in Candidate /\ Advances(j.mem.candidates[i], Stage(j, i))
<1> DEFINE c == j.mem.candidates[i]
           given == i \in Supplied(j) \cap expected_stage_item_ids(j.mem.candidates, j.command)
<1>1. j.mem \in Documents /\ j.command \in Saving
  BY DEF JobFits, Holding
<1>2. c \in Candidate
  BY <1>1 DEF Documents
<1>3. CASE j.command = "prepare"
  <2>1. Stage(j, i) = PrepareCandidate(c)
    BY <1>3 DEF Stage
  <2>2. Advances(c, PrepareCandidate(c))
    <3>1. CASE c.state \in TERMINAL_STATES
      BY <1>2, <3>1, TerminalAwaitsNothing, StaysAdvances
    <3>2. CASE c.state \notin TERMINAL_STATES
      BY <1>2, <3>2, PrepareCandidateGrows, GrowsAdvances
    <3> QED BY <3>1, <3>2
  <2> QED BY <1>2, <2>1, <2>2, PrepareCandidateType
<1>4. CASE j.command # "prepare" /\ ~ given
  <2>1. Stage(j, i) = c
    BY <1>4 DEF Stage
  <2> QED BY <1>2, <2>1, StaysAdvances
<1>5. CASE j.command # "prepare" /\ given
  <2>1. /\ j.command = "review" => AwaitsReview(c) /\ j.input[i] \in ReviewerItem
        /\ j.command = "revision" => AwaitsRevision(c) /\ j.input[i] \in GeneratorBody
        /\ j.command \notin {"review", "revision"} => AwaitsSolver(c)
        /\ j.command = "solver" => j.input[i] \in SolverItem
    BY <1>1, <1>5, SuppliedIsExpected
  <2>2. c.state \notin TERMINAL_STATES
    BY <1>2, <2>1, TerminalAwaitsNothing
  <2>3. CASE j.command = "review"
    <3>1. Stage(j, i) = ReviewCandidate(c, j.input[i], FALSE)
      BY <1>5, <2>3 DEF Stage
    <3> QED BY <1>2, <2>1, <2>2, <2>3, <3>1, ReviewCandidateType, ReviewCandidateGrows,
               GrowsAdvances
  <2>4. CASE j.command = "revision"
    <3>1. Stage(j, i) = ReviseCandidate(c, j.input[i], FALSE)
      BY <1>5, <2>4 DEF Stage
    <3> QED BY <1>2, <2>1, <2>2, <2>4, <3>1, ReviseCandidateType, ReviseCandidateGrows,
               GrowsAdvances
  <2>5. CASE j.command = "solver"
    <3>1. Stage(j, i) = SolveCandidate(c, j.input[i], FALSE, KeepSolverOutput)
      BY <1>5, <2>5 DEF Stage
    <3> QED BY <1>2, <2>1, <2>2, <2>5, <3>1, SolveCandidateType, SolveCandidateGrows,
               GrowsAdvances, DriverAssumption
  <2> QED BY <1>1, <1>5, <2>3, <2>4, <2>5 DEF Saving
<1> QED BY <1>3, <1>4, <1>5

\* A saved review sends an item back only with an entry that says so.
SentBack(c) == \E h \in c.review_history : h.routed_state = "REVISE_REQUIRED"

LEMMA ReviewSendsBack ==
  ASSUME NEW c \in Candidate, NEW out \in ReviewerItem, AwaitsReview(c),
         ReviewCandidate(c, out, FALSE).state = "REVISE_REQUIRED"
  PROVE  SentBack(ReviewCandidate(c, out, FALSE))
<1> DEFINE x == IF FailedAt(c, "reviewer") THEN retry_failed_stage(c) ELSE c
           b == [x EXCEPT !.reviewer_item = out]
           d == process_review_output(b, FALSE)
           entry == [output |-> out, routed_state |-> d.state]
           e == [d EXCEPT !.review_history = d.review_history \cup {entry}]
<1>1. x \in Candidate /\ x.state \in {"REVIEWING", "MANUAL_REVIEW", Raised}
  <2>1. CASE FailedAt(c, "reviewer")
    BY <2>1, RetryEffect DEF RETRY_STAGES, STAGE_RETRY_STATES
  <2>2. CASE ~ FailedAt(c, "reviewer")
    BY <2>2 DEF AwaitsReview
  <2> QED BY <2>1, <2>2
<1>2. x.state = "REVIEWING" /\ ReviewCandidate(c, out, FALSE) = e
  <2>1. ReviewCandidate(c, out, FALSE) = IF x.state = "REVIEWING" THEN e ELSE x
    BY DEF ReviewCandidate, apply_review_result
  <2> HIDE DEF x, e
  <2> QED BY <1>1, <2>1 DEF Raised
<1>3. d \in Candidate
  <2>1. b \in Candidate /\ b.reviewer_item # None
    <3>1. out # None
      BY NoneAssumption
    <3> HIDE DEF x
    <3> QED BY <1>1, <3>1 DEF Candidate
  <2> HIDE DEF b
  <2> QED BY <2>1, ReviewType
<1>4. e.state = d.state /\ entry \in e.review_history
  <2> HIDE DEF d, b, entry
  <2> QED BY <1>3 DEF Candidate
<1>5. entry.routed_state = d.state
  OBVIOUS
<1> HIDE DEF d, e, entry
<1> QED BY <1>2, <1>4, <1>5 DEF SentBack

\* The saved document is one, moves every item forward, and routes an item to
\* REVISE_REQUIRED only with an entry that says so.
LEMMA ResultAdvances ==
  ASSUME NEW j \in Job, JobFits(j), j.step = "save"
  PROVE  /\ Result(j) \in Documents
         /\ \A i \in Items :
              /\ Advances(j.mem.candidates[i], Result(j).candidates[i])
              /\ Result(j).routed[i] = "REVISE_REQUIRED" =>
                   \/ j.mem.routed[i] = "REVISE_REQUIRED"
                   \/ SentBack(Result(j).candidates[i])
<1> DEFINE cs == [i \in Items |-> Stage(j, i)]
           reviewed == IF j.command = "review"
                       THEN Supplied(j) \cap expected_stage_item_ids(j.mem.candidates, "review")
                       ELSE {}
           routed == [i \in Items |-> IF i \in reviewed THEN cs[i].state ELSE j.mem.routed[i]]
<1>1. j.mem \in Documents
  BY DEF JobFits, Holding
<1>2. Result(j) = [candidates |-> cs, routed |-> routed]
  BY DEF Result
<1>3. cs \in [Items -> Candidate] /\ \A i \in Items : cs[i] = Stage(j, i)
  BY StageAdvances
<1>4. routed \in [Items -> States \cup {None}]
  <2>1. \A i \in Items : cs[i].state \in States
    <3> HIDE DEF cs
    <3> QED BY <1>3 DEF Candidate
  <2>2. \A i \in Items : j.mem.routed[i] \in States \cup {None}
    BY <1>1 DEF Documents
  <2> HIDE DEF cs, reviewed
  <2> QED BY <2>1, <2>2
<1>5. ASSUME NEW i \in Items, routed[i] = "REVISE_REQUIRED"
      PROVE  j.mem.routed[i] = "REVISE_REQUIRED" \/ SentBack(cs[i])
  <2>1. CASE i \notin reviewed
    <3> HIDE DEF cs, reviewed
    <3> QED BY <1>5, <2>1
  <2>2. CASE i \in reviewed
    <3>1. /\ j.command = "review"
          /\ i \in Supplied(j) \cap expected_stage_item_ids(j.mem.candidates, j.command)
      BY <2>2
    <3>2. AwaitsReview(j.mem.candidates[i]) /\ j.input[i] \in ReviewerItem
      BY <1>1, <3>1, SuppliedIsExpected
    <3>3. cs[i] = ReviewCandidate(j.mem.candidates[i], j.input[i], FALSE)
      BY <3>1 DEF Stage
    <3>4. cs[i].state = "REVISE_REQUIRED"
      <4> HIDE DEF cs, reviewed
      <4> QED BY <1>5, <2>2
    <3>5. j.mem.candidates[i] \in Candidate
      BY <1>1 DEF Documents
    <3> HIDE DEF cs, reviewed
    <3> QED BY <3>2, <3>3, <3>4, <3>5, ReviewSendsBack
  <2> QED BY <2>1, <2>2
<1>6. \A i \in Items : Advances(j.mem.candidates[i], cs[i])
  BY <1>3, StageAdvances
<1> HIDE DEF cs, routed
<1> QED BY <1>2, <1>3, <1>4, <1>5, <1>6 DEF Documents

-----------------------------------------------------------------------------
(* The types are kept: each step changes one job and what it writes.        *)

Frame(p) ==
  /\ job' \in [Processes -> Job]
  /\ \A q \in Processes \ {p} : job'[q] = job[q]

Same == UNCHANGED <<doc, reviewerBatch, solverBatch, feedback>>

LEMMA OneJob ==
  ASSUME TypeInv, NEW p \in Processes, Frame(p), JobFits(job'[p]),
         doc' \in Documents, reviewerBatch' \in [Items -> Candidate],
         solverBatch' # None =>
           solverBatch' \in [Items -> Candidate] /\ SolverBatchBuilds(solverBatch'),
         feedback' # None => feedback' \subseteq Items
  PROVE  TypeInv'
BY DEF TypeInv, Frame

LEMMA SameTypes ==
  ASSUME TypeInv, NEW p \in Processes, Frame(p), JobFits(job'[p]), Same
  PROVE  TypeInv'
<1>1. doc' = doc /\ reviewerBatch' = reviewerBatch /\ solverBatch' = solverBatch
      /\ feedback' = feedback
  BY DEF Same
<1> QED BY <1>1, OneJob DEF TypeInv

\* A command that starts.
StartFits(new) ==
  new \in Job /\ JobFits(new) /\ new.step \in {"start", "rebatch"}

LEMMA StartingFits ==
  ASSUME NEW command \in Commands, NEW input \in Inputs, NEW partial \in Partial,
         AnswersFit(Starting(command, input, partial))
  PROVE  StartFits(Starting(command, input, partial))
<1> DEFINE j == Starting(command, input, partial)
<1>1. j \in Job /\ j.step = "start" /\ AnswersFit(j)
  BY DriverAssumption DEF Starting, Job, Steps
<1>2. StartFits(j)
  <2> HIDE DEF j
  <2> QED BY <1>1 DEF StartFits, JobFits, Holding
<1> QED BY <1>2

\* A driver command is started with a fitting input.
LEMMA BeginEffect ==
  ASSUME TypeInv, NEW p \in Processes,
         \/ BeginReview(p) \/ BeginRevision(p) \/ BeginSolver(p)
         \/ BeginPrepareSolver(p) \/ BeginPrepareReviewer(p) \/ BeginRebuildFeedback(p)
  PROVE  \E new : StartFits(new) /\ Begin(p, new)
<1>1. CASE BeginReview(p)
  <2>1. PICK s \in Answered(BatchedForReview(reviewerBatch)), partial \in Partial :
        \E bodies \in [s -> ReviewBodies] :
          Begin(p, Starting("review",
            [i \in Items |-> IF i \in s
               THEN [body |-> bodies[i],
                     of |-> canonical_input(reviewerBatch[i].generator_item)]
               ELSE None],
            partial))
    BY <1>1 DEF BeginReview
  <2>2. PICK bodies \in [s -> ReviewBodies] :
          Begin(p, Starting("review",
            [i \in Items |-> IF i \in s
               THEN [body |-> bodies[i],
                     of |-> canonical_input(reviewerBatch[i].generator_item)]
               ELSE None],
            partial))
    BY <2>1
  <2> DEFINE input == [i \in Items |-> IF i \in s
               THEN [body |-> bodies[i],
                     of |-> canonical_input(reviewerBatch[i].generator_item)]
               ELSE None]
             new == Starting("review", input, partial)
  <2>3. \A i \in Items : input[i] \in ReviewerItem \cup {None}
    <3> SUFFICES ASSUME NEW i \in Items PROVE input[i] \in ReviewerItem \cup {None}
      OBVIOUS
    <3>1. reviewerBatch[i].generator_item.ver \in Nat
      BY DEF TypeInv, Candidate, GeneratorItem
    <3>2. i \in s => bodies[i] \in ReviewBody
      BY DriverAssumption
    <3> QED BY <3>1, <3>2 DEF ReviewerItem, canonical_input
  <2>4. input \in Inputs
    <3>1. input \in [Items -> ReviewerItem \cup {None}]
      BY <2>3
    <3> HIDE DEF input
    <3> QED BY <3>1 DEF Inputs
  <2> HIDE DEF input
  <2>5. new.input = input /\ new.command = "review"
    BY DEF Starting
  <2>6. AnswersFit(new)
    <3> HIDE DEF new
    <3> QED BY <2>3, <2>5 DEF AnswersFit
  <2>7. StartFits(new)
    BY <2>4, <2>6, StartingFits DEF Commands
  <2>8. Begin(p, new)
    BY <2>2 DEF input
  <2> HIDE DEF new
  <2> QED BY <2>7, <2>8
<1>2. CASE BeginRevision(p)
  <2>1. PICK s \in Answered(expected_stage_item_ids(doc.candidates, "revision")),
             partial \in Partial :
        \E bodies \in [s -> GeneratorBodies] :
          Begin(p, Starting("revision",
            [i \in Items |-> IF i \in s THEN bodies[i] ELSE None], partial))
    BY <1>2 DEF BeginRevision
  <2>2. PICK bodies \in [s -> GeneratorBodies] :
          Begin(p, Starting("revision",
            [i \in Items |-> IF i \in s THEN bodies[i] ELSE None], partial))
    BY <2>1
  <2> DEFINE input == [i \in Items |-> IF i \in s THEN bodies[i] ELSE None]
             new == Starting("revision", input, partial)
  <2>3. \A i \in Items : input[i] \in GeneratorBody \cup {None}
    BY DriverAssumption
  <2>4. input \in Inputs
    <3>1. input \in [Items -> GeneratorBody \cup {None}]
      BY <2>3
    <3> HIDE DEF input
    <3> QED BY <3>1 DEF Inputs
  <2> HIDE DEF input
  <2>5. new.input = input /\ new.command = "revision"
    BY DEF Starting
  <2>6. AnswersFit(new)
    <3> HIDE DEF new
    <3> QED BY <2>3, <2>5 DEF AnswersFit
  <2>7. StartFits(new)
    BY <2>4, <2>6, StartingFits DEF Commands
  <2>8. Begin(p, new)
    BY <2>2 DEF input
  <2> HIDE DEF new
  <2> QED BY <2>7, <2>8
<1>3. CASE BeginSolver(p)
  <2>1. solverBatch \in [Items -> Candidate] /\ SolverBatchBuilds(solverBatch)
    BY <1>3 DEF BeginSolver, TypeInv
  <2>2. PICK s \in Answered(SolvingIn(solverBatch)), partial \in Partial :
        \E bodies \in [s -> SolverBodies] :
          Begin(p, Starting("solver",
            [i \in Items |-> IF i \in s
               THEN [body |-> bodies[i], of |-> solverBatch[i].solver_input] ELSE None],
            partial))
    BY <1>3 DEF BeginSolver
  <2>3. PICK bodies \in [s -> SolverBodies] :
          Begin(p, Starting("solver",
            [i \in Items |-> IF i \in s
               THEN [body |-> bodies[i], of |-> solverBatch[i].solver_input] ELSE None],
            partial))
    BY <2>2
  <2> DEFINE input == [i \in Items |-> IF i \in s
               THEN [body |-> bodies[i], of |-> solverBatch[i].solver_input] ELSE None]
             new == Starting("solver", input, partial)
  <2>4. \A i \in Items : input[i] \in SolverItem \cup {None}
    <3> SUFFICES ASSUME NEW i \in Items PROVE input[i] \in SolverItem \cup {None}
      OBVIOUS
    <3>1. i \in s => i \in SolvingIn(solverBatch)
      BY DEF Answered
    <3>2. i \in s => solverBatch[i].solver_input \in Nat
      BY <2>1, <3>1 DEF SolverBatchBuilds, Candidate
    <3>3. i \in s => bodies[i] \in SolverBody
      BY DriverAssumption
    <3> QED BY <3>2, <3>3 DEF SolverItem
  <2>5. input \in Inputs
    <3>1. input \in [Items -> SolverItem \cup {None}]
      BY <2>4
    <3> HIDE DEF input
    <3> QED BY <3>1 DEF Inputs
  <2> HIDE DEF input
  <2>6. new.input = input /\ new.command = "solver"
    BY DEF Starting
  <2>7. AnswersFit(new)
    <3> HIDE DEF new
    <3> QED BY <2>4, <2>6 DEF AnswersFit
  <2>8. StartFits(new)
    BY <2>5, <2>7, StartingFits DEF Commands
  <2>9. Begin(p, new)
    BY <2>3 DEF input
  <2> HIDE DEF new
  <2> QED BY <2>8, <2>9
<1>4. \A command \in {"prepare", "feedback", "reviewer_batch"} :
        LET new == Starting(command, NoInput, FALSE)
        IN  StartFits(new) /\ StartFits([new EXCEPT !.step = "rebatch"])
  <2> SUFFICES ASSUME NEW command \in {"prepare", "feedback", "reviewer_batch"}
               PROVE  LET new == Starting(command, NoInput, FALSE)
                      IN  StartFits(new) /\ StartFits([new EXCEPT !.step = "rebatch"])
    OBVIOUS
  <2> DEFINE new == Starting(command, NoInput, FALSE)
             re == [new EXCEPT !.step = "rebatch"]
  <2>1. NoInput \in Inputs
    BY DEF NoInput, Inputs
  <2>2. new \in Job /\ new.step = "start" /\ new.command = command
        /\ re \in Job /\ re.step = "rebatch" /\ re.command = command
    BY <2>1 DEF Starting, Job, Steps, Commands
  <2> HIDE DEF new, re
  <2>3. AnswersFit(new) /\ AnswersFit(re)
    BY <2>2 DEF AnswersFit
  <2>4. StartFits(new) /\ StartFits(re)
    BY <2>2, <2>3 DEF StartFits, JobFits, Holding
  <2> QED BY <2>4 DEF new, re
<1>5. CASE BeginPrepareSolver(p)
  BY <1>4, <1>5 DEF BeginPrepareSolver
<1>6. CASE BeginPrepareReviewer(p)
  BY <1>4, <1>6 DEF BeginPrepareReviewer
<1>7. CASE BeginRebuildFeedback(p)
  BY <1>4, <1>7 DEF BeginRebuildFeedback
<1> QED BY <1>1, <1>2, <1>3, <1>5, <1>6, <1>7

-----------------------------------------------------------------------------
(* The invariant.                                                           *)

\* Between its load and its last locked write a command holds the lock, and
\* what it has in memory is the state file.
Exclusion ==
  \A p \in Processes : job[p].step \in Locking => lock = p /\ job[p].mem = doc

\* The reviews a document, perhaps an old one, says sent an item back are in the
\* history of the item as it is now.
ToldBy(d) ==
  \A i \in Items : d.routed[i] = "REVISE_REQUIRED" => SentBack(Current(i))

Told ==
  /\ ToldBy(doc)
  /\ \A p \in Processes : job[p].step = "feedback" => ToldBy(job[p].mem)
  /\ FeedbackNotAhead

Inv == TypeInv /\ Exclusion /\ ReviewerBatchFresh /\ Told

Forward == \A i \in Items : Advances(Current(i), Current(i)')

\* A step that leaves the files and the lock alone, and neither enters nor
\* leaves the locked part of its command.
LEMMA QuietStep ==
  ASSUME Inv, NEW p \in Processes, Frame(p), JobFits(job'[p]), Same,
         UNCHANGED <<lock, torn>>,
         job[p].step # "batch", job'[p].step \notin Locking \cup {"feedback"}
  PROVE  Inv' /\ Forward
<1>1. doc' = doc /\ reviewerBatch' = reviewerBatch
      /\ feedback' = feedback /\ lock' = lock /\ torn' = torn
  BY DEF Same
<1>2. TypeInv'
  BY SameTypes DEF Inv
<1>3. Exclusion'
  BY <1>1 DEF Inv, Exclusion, Frame
<1>4. ReviewerBatchFresh'
  <2>1. ASSUME \A q \in Processes : job'[q].step # "batch"
        PROVE  \A q \in Processes : job[q].step # "batch"
    BY <2>1 DEF Frame
  <2> QED BY <1>1, <2>1 DEF Inv, ReviewerBatchFresh
<1>5. Told'
  <2>1. \A d : ToldBy(d) => ToldBy(d)'
    BY <1>1 DEF ToldBy, Current
  <2>2. FeedbackNotAhead'
    BY <1>1 DEF Inv, Told, FeedbackNotAhead, Current
  <2>3. ASSUME NEW q \in Processes, job'[q].step = "feedback"
        PROVE  ToldBy(job[q].mem)' /\ job'[q] = job[q]
    BY <2>1, <2>3 DEF Inv, Told, Frame
  <2> QED BY <1>1, <2>1, <2>2, <2>3 DEF Inv, Told
<1>6. Forward
  BY <1>1, StaysAdvances DEF Inv, TypeInv, Documents, Forward, Current
<1> QED BY <1>2, <1>3, <1>4, <1>5, <1>6 DEF Inv

LEMMA BeginKeeps ==
  ASSUME Inv, NEW p \in Processes,
         \/ BeginReview(p) \/ BeginRevision(p) \/ BeginSolver(p)
         \/ BeginPrepareSolver(p) \/ BeginPrepareReviewer(p) \/ BeginRebuildFeedback(p)
  PROVE  Inv' /\ Forward
<1>1. PICK new : StartFits(new) /\ Begin(p, new)
  BY BeginEffect DEF Inv
<1>2. Frame(p) /\ job'[p] = new
  BY <1>1, BeginFits DEF Inv, TypeInv, Frame, StartFits
<1>3. job[p].step = "start" /\ Same /\ UNCHANGED <<lock, torn>>
  BY <1>1, IdleFits DEF Begin, Same, artifacts
<1> QED BY <1>1, <1>2, <1>3, QuietStep DEF StartFits, Locking

\* A step that leaves the state file alone.
LEMMA SameDocument ==
  ASSUME Inv, NEW p \in Processes, Frame(p), JobFits(job'[p]), doc' = doc,
         reviewerBatch' \in [Items -> Candidate],
         solverBatch' # None =>
           solverBatch' \in [Items -> Candidate] /\ SolverBatchBuilds(solverBatch'),
         feedback' # None => feedback' \subseteq Items,
         \A q \in Processes \ {p} : job[q].step \in Locking => lock' = q,
         job'[p].step \in Locking => lock' = p /\ job'[p].mem = doc,
         job'[p].step = "feedback" => ToldBy(job'[p].mem),
         ReviewerBatchFresh', FeedbackNotAhead'
  PROVE  Inv' /\ Forward
<1>1. TypeInv'
  BY OneJob DEF Inv, TypeInv
<1>2. Exclusion'
  <2> SUFFICES ASSUME NEW q \in Processes, job'[q].step \in Locking
               PROVE  lock' = q /\ job'[q].mem = doc'
    BY DEF Exclusion
  <2> QED BY DEF Inv, Exclusion, Frame
<1>3. Told'
  <2>1. \A d : ToldBy(d) => ToldBy(d)'
    BY DEF ToldBy, Current
  <2>2. ASSUME NEW q \in Processes, job'[q].step = "feedback"
        PROVE  ToldBy(job'[q].mem)
    BY <2>2 DEF Inv, Told, Frame
  <2>3. ASSUME NEW q \in Processes, job'[q].step = "feedback"
        PROVE  ToldBy(job[q].mem)'
    BY <2>1, <2>2, <2>3
  <2> QED BY <2>1, <2>3 DEF Inv, Told
<1>4. Forward
  BY StaysAdvances DEF Inv, TypeInv, Documents, Forward, Current
<1> QED BY <1>1, <1>2, <1>3, <1>4 DEF Inv

\* Only a command that holds the lock is between its two locked writes.
LEMMA OthersOutside ==
  ASSUME Inv, NEW p \in Processes, lock \in {None, p}
  PROVE  \A q \in Processes \ {p} : job[q].step \notin Locking
BY DriverAssumption DEF Inv, Exclusion

\* exclusive_state_transaction and write_reviewer_batch: lock, then load.
LEMMA LockedLoad ==
  ASSUME Inv, NEW p \in Processes, NEW step \in {"save", "republish"},
         job[p].step \in {"start", "rebatch"},
         step = "save" => job[p].command \in Saving,
         lock = None, lock' = p, GoOn(p, step, doc), UNCHANGED <<doc, artifacts, torn>>
  PROVE  Inv' /\ Forward
<1>1. doc \in Documents /\ JobFits(job[p]) /\ job \in [Processes -> Job]
  BY DEF Inv, TypeInv
<1>2. /\ Frame(p) /\ AnswersFit(job'[p]) /\ job'[p].step = step
      /\ job'[p].mem = doc /\ job'[p].command = job[p].command
  BY <1>1, GoOnFits DEF JobFits, Steps, Frame
<1>3. JobFits(job'[p])
  BY <1>1, <1>2 DEF JobFits
<1>4. doc' = doc /\ reviewerBatch' = reviewerBatch /\ solverBatch' = solverBatch
      /\ feedback' = feedback /\ torn' = torn
  BY DEF artifacts
<1>5. \A q \in Processes \ {p} : job[q].step \notin Locking
  BY OthersOutside
<1>6. ReviewerBatchFresh'
  <2>1. \A q \in Processes : job[q].step # "batch"
    BY <1>5 DEF Locking
  <2> QED BY <1>4, <2>1 DEF Inv, ReviewerBatchFresh
<1>7. FeedbackNotAhead'
  BY <1>4 DEF Inv, Told, FeedbackNotAhead, Current
<1> QED BY <1>2, <1>3, <1>4, <1>5, <1>6, <1>7, SameDocument DEF Inv, TypeInv

\* save_state's second write, or write_reviewer_batch's only one: the batch of
\* the state file, for that is what the command has in memory.
LEMMA Published ==
  ASSUME Inv, NEW p \in Processes, job[p].step \in {"batch", "republish"},
         PublishBatch(p), Frame(p), JobFits(job'[p]), job'[p].step \notin Locking,
         job'[p].step = "feedback" => job'[p].mem = job[p].mem,
         UNCHANGED <<doc, solverBatch, feedback>>
  PROVE  Inv' /\ Forward
<1>1. lock = p /\ job[p].mem = doc
  BY DEF Inv, Exclusion, Locking
<1>2. reviewerBatch' = doc.candidates /\ reviewerBatch' \in [Items -> Candidate]
  BY <1>1 DEF PublishBatch, Inv, TypeInv, Documents
<1>3. \A q \in Processes \ {p} : job[q].step \notin Locking
  BY <1>1, OthersOutside
<1>4. ReviewerBatchFresh'
  BY <1>2 DEF ReviewerBatchFresh
<1>5. FeedbackNotAhead'
  BY DEF Inv, Told, FeedbackNotAhead, Current
<1> QED BY <1>1, <1>2, <1>3, <1>4, <1>5, SameDocument DEF Inv, TypeInv, Told

\* The save: refused, or of a document that is further on in every item.
LEMMA SaveKeeps ==
  ASSUME Inv, NEW p \in Processes, SaveState(p)
  PROVE  Inv' /\ Forward
<1> DEFINE j == job[p]
           new == Result(j)
           refused == \/ Refuses(j)
                      \/ \E i \in Items : ~ validate_candidate_invariants(new.candidates[i])
<1>1. /\ j \in Job /\ JobFits(j) /\ j.step = "save" /\ job \in [Processes -> Job]
      /\ lock = p /\ j.mem = doc /\ doc \in Documents
  BY DEF SaveState, Inv, TypeInv, Exclusion, Locking
<1>2. \A q \in Processes \ {p} : job[q].step \notin Locking
  BY <1>1, OthersOutside
<1>3. UNCHANGED <<artifacts, torn, crashes>>
      /\ IF refused THEN Finish(p) /\ lock' = None /\ UNCHANGED doc
                    ELSE doc' = new /\ GoOn(p, "batch", doc') /\ UNCHANGED lock
  BY DEF SaveState
<1>4. /\ new \in Documents
      /\ \A i \in Items :
           /\ Advances(doc.candidates[i], new.candidates[i])
           /\ new.routed[i] = "REVISE_REQUIRED" =>
                doc.routed[i] = "REVISE_REQUIRED" \/ SentBack(new.candidates[i])
  BY <1>1, ResultAdvances
<1>5. reviewerBatch' = reviewerBatch /\ solverBatch' = solverBatch /\ feedback' = feedback
      /\ torn' = torn
  BY <1>3 DEF artifacts
<1> HIDE DEF j, new, refused
<1>6. CASE refused
  <2>1. Finish(p) /\ lock' = None /\ doc' = doc
    BY <1>3, <1>6
  <2>2. Frame(p) /\ job'[p] = Idle
    BY <1>1, <2>1, FinishFits DEF Frame
  <2>3. JobFits(job'[p]) /\ job'[p].step = "start"
    BY <2>2, IdleFits
  <2>4. ReviewerBatchFresh'
    <3>1. \A q \in Processes : job[q].step # "batch"
      BY <1>1, <1>2 DEF Locking, j
    <3> QED BY <1>5, <2>1, <3>1 DEF Inv, ReviewerBatchFresh
  <2>5. FeedbackNotAhead'
    BY <1>5, <2>1 DEF Inv, Told, FeedbackNotAhead, Current
  <2> QED BY <1>2, <1>5, <2>1, <2>2, <2>3, <2>4, <2>5, SameDocument
          DEF Inv, TypeInv, Locking
<1>7. CASE ~ refused
  <2>1. doc' = new /\ GoOn(p, "batch", new) /\ lock' = lock
    <3>1. doc' = new /\ GoOn(p, "batch", doc') /\ lock' = lock
      BY <1>3, <1>7
    <3> QED BY <3>1
  <2>2. /\ Frame(p) /\ AnswersFit(job'[p]) /\ job'[p].step = "batch"
        /\ job'[p].mem = new
    BY <1>1, <1>4, <2>1, GoOnFits DEF JobFits, Steps, Frame, j
  <2>3. TypeInv'
    <3>1. JobFits(job'[p])
      BY <1>4, <2>2 DEF JobFits
    <3> QED BY <1>4, <1>5, <2>1, <2>2, <3>1, OneJob DEF Inv, TypeInv
  <2>4. Forward
    BY <1>4, <2>1 DEF Forward, Current
  <2>5. \A i \in Items : SentBack(Current(i)) => SentBack(Current(i)')
    BY <2>4 DEF Forward, Advances, SentBack
  <2>6. Exclusion'
    BY <1>1, <1>2, <2>1, <2>2 DEF Exclusion, Frame
  <2>7. ReviewerBatchFresh'
    BY <2>2 DEF ReviewerBatchFresh
  <2>8. Told'
    <3>1. \A d : ToldBy(d) => ToldBy(d)'
      BY <2>5 DEF ToldBy
    <3>2. ToldBy(doc)'
      <4>1. \A i \in Items : doc.routed[i] = "REVISE_REQUIRED" => SentBack(Current(i)')
        BY <2>5 DEF Inv, Told, ToldBy
      <4>2. \A i \in Items : Current(i)' = new.candidates[i]
        BY <2>1 DEF Current
      <4>3. \A i \in Items : doc'.routed[i] = "REVISE_REQUIRED" => SentBack(Current(i)')
        BY <1>4, <2>1, <4>1, <4>2
      <4> QED BY <4>3 DEF ToldBy, SentBack
    <3>3. ASSUME NEW q \in Processes, job'[q].step = "feedback"
          PROVE  ToldBy(job[q].mem)'
      <4>1. q # p
        BY <2>2, <3>3
      <4>2. ToldBy(job[q].mem) /\ job'[q] = job[q]
        BY <2>2, <3>3, <4>1 DEF Inv, Told, Frame
      <4> QED BY <3>1, <4>2
    <3>4. FeedbackNotAhead'
      <4>1. feedback # None => \A i \in feedback : SentBack(Current(i))
        BY DEF Inv, Told, FeedbackNotAhead, SentBack
      <4>2. feedback # None => feedback \subseteq Items
        BY DEF Inv, TypeInv
      <4>3. feedback # None => \A i \in feedback : SentBack(Current(i)')
        BY <2>5, <4>1, <4>2
      <4> QED BY <1>5, <4>3 DEF FeedbackNotAhead, SentBack
    <3> QED BY <3>2, <3>3, <3>4 DEF Told
  <2> QED BY <2>3, <2>4, <2>6, <2>7, <2>8 DEF Inv
<1> QED BY <1>6, <1>7

\* What is told from an old document is told by the items as they are now.
LEMMA ToldAhead ==
  ASSUME NEW d, ToldBy(d), doc' = doc, feedback' = build_review_feedback_from_state(d)
  PROVE  FeedbackNotAhead' /\ (feedback' # None => feedback' \subseteq Items)
BY DEF ToldBy, build_review_feedback_from_state, FeedbackNotAhead, SentBack, Current

LEMMA StepKeeps ==
  ASSUME Inv, NEW p \in Processes, Step(p)
  PROVE  Inv' /\ Forward
<1> USE DEF Steps, Locking
<1>0. /\ job[p] \in Job /\ JobFits(job[p]) /\ AnswersFit(job[p])
      /\ job \in [Processes -> Job] /\ doc \in Documents
      /\ reviewerBatch \in [Items -> Candidate]
      /\ solverBatch # None =>
           solverBatch \in [Items -> Candidate] /\ SolverBatchBuilds(solverBatch)
      /\ feedback # None => feedback \subseteq Items
      /\ \A q \in Processes : job[q].step \in Locking => lock = q
  BY DEF Inv, TypeInv, JobFits, Exclusion
<1>1. CASE LoadState(p)
  BY <1>1, LockedLoad DEF LoadState, Saving
<1>2. CASE SaveState(p)
  BY <1>2, SaveKeeps
<1>3. CASE WriteBatch(p)
  <2>1. /\ job[p].step = "batch" /\ PublishBatch(p) /\ job[p].mem \in Documents
        /\ UNCHANGED <<doc, solverBatch, feedback>>
    BY <1>0, <1>3 DEF WriteBatch, JobFits, Holding
  <2>2. \/ \E step \in {"rebatch", "read"} : GoOn(p, step, None)
        \/ GoOn(p, "feedback", job[p].mem)
        \/ Finish(p)
    BY <1>3 DEF WriteBatch
  <2>3. CASE \E step \in {"rebatch", "read"} : GoOn(p, step, None)
    <3>1. PICK step \in {"rebatch", "read"} : GoOn(p, step, None)
      BY <2>3
    <3>2. Frame(p) /\ AnswersFit(job'[p]) /\ job'[p].step = step
      BY <1>0, <3>1, GoOnFits DEF Frame
    <3>3. JobFits(job'[p])
      BY <3>2 DEF JobFits, Holding
    <3> QED BY <2>1, <3>2, <3>3, Published
  <2>4. CASE GoOn(p, "feedback", job[p].mem)
    <3>1. /\ Frame(p) /\ AnswersFit(job'[p]) /\ job'[p].step = "feedback"
          /\ job'[p].mem = job[p].mem
      BY <1>0, <2>1, <2>4, GoOnFits DEF Frame
    <3>2. JobFits(job'[p])
      BY <2>1, <3>1 DEF JobFits
    <3> QED BY <2>1, <3>1, <3>2, Published
  <2>5. CASE Finish(p)
    <3>1. Frame(p) /\ JobFits(job'[p]) /\ job'[p].step = "start"
      BY <1>0, <2>5, FinishFits, IdleFits DEF Frame
    <3> QED BY <2>1, <3>1, Published
  <2> QED BY <2>2, <2>3, <2>4, <2>5
<1>4. CASE SnapshotFeedback(p)
  <2>1. /\ GoOn(p, "feedback", doc) /\ job[p].step = "start"
        /\ doc' = doc /\ reviewerBatch' = reviewerBatch /\ solverBatch' = solverBatch
        /\ feedback' = feedback /\ lock' = lock /\ torn' = torn
    BY <1>4 DEF SnapshotFeedback, artifacts
  <2>2. /\ Frame(p) /\ AnswersFit(job'[p]) /\ job'[p].step = "feedback"
        /\ job'[p].mem = doc
    BY <1>0, <2>1, GoOnFits DEF Frame
  <2>3. JobFits(job'[p])
    BY <1>0, <2>2 DEF JobFits
  <2>4. ReviewerBatchFresh'
    <3>1. ASSUME \A q \in Processes : job'[q].step # "batch"
          PROVE  \A q \in Processes : job[q].step # "batch"
      BY <2>1, <2>2, <3>1 DEF Frame
    <3> QED BY <2>1, <3>1 DEF Inv, ReviewerBatchFresh
  <2>5. FeedbackNotAhead'
    BY <2>1 DEF Inv, Told, FeedbackNotAhead, Current
  <2> QED BY <1>0, <2>1, <2>2, <2>3, <2>4, <2>5, SameDocument DEF Inv, Told
<1>5. CASE WriteFeedback(p)
  <2>1. /\ job[p].step = "feedback"
        /\ feedback' = build_review_feedback_from_state(job[p].mem)
        /\ GoOn(p, "rebatch", None) \/ Finish(p)
        /\ doc' = doc /\ reviewerBatch' = reviewerBatch /\ solverBatch' = solverBatch
        /\ lock' = lock /\ torn' = torn
    BY <1>5 DEF WriteFeedback
  <2>2. Frame(p) /\ JobFits(job'[p]) /\ job'[p].step \in {"start", "rebatch"}
    <3>1. CASE GoOn(p, "rebatch", None)
      BY <1>0, <3>1, GoOnFits DEF Frame, JobFits, Holding
    <3>2. CASE Finish(p)
      BY <1>0, <3>2, FinishFits, IdleFits DEF Frame
    <3> QED BY <2>1, <3>1, <3>2
  <2>3. FeedbackNotAhead' /\ (feedback' # None => feedback' \subseteq Items)
    BY <2>1, ToldAhead DEF Inv, Told
  <2>4. ReviewerBatchFresh'
    <3>1. ASSUME \A q \in Processes : job'[q].step # "batch"
          PROVE  \A q \in Processes : job[q].step # "batch"
      BY <2>1, <2>2, <3>1 DEF Frame
    <3> QED BY <2>1, <3>1 DEF Inv, ReviewerBatchFresh
  <2> QED BY <1>0, <2>1, <2>2, <2>3, <2>4, SameDocument
<1>6. CASE Rebatch(p)
  BY <1>6, LockedLoad DEF Rebatch
<1>7. CASE Republish(p)
  <2>1. Frame(p) /\ JobFits(job'[p]) /\ job'[p].step = "start"
    BY <1>0, <1>7, FinishFits, IdleFits DEF Republish, Frame
  <2> QED BY <1>7, <2>1, Published DEF Republish
<1>8. CASE ReadCommitted(p)
  <2>1. /\ job[p].step = "read" /\ Same /\ UNCHANGED <<lock, torn>>
        /\ \/ SolverBatchBuilds(doc.candidates) /\ GoOn(p, "export", doc)
           \/ Finish(p)
    BY <1>8 DEF ReadCommitted, Same, artifacts
  <2>2. Frame(p) /\ JobFits(job'[p]) /\ job'[p].step \in {"start", "export"}
    <3>1. CASE SolverBatchBuilds(doc.candidates) /\ GoOn(p, "export", doc)
      BY <1>0, <3>1, GoOnFits DEF Frame, JobFits
    <3>2. CASE Finish(p)
      BY <1>0, <3>2, FinishFits, IdleFits DEF Frame
    <3> QED BY <2>1, <3>1, <3>2
  <2> QED BY <2>1, <2>2, QuietStep
<1>9. CASE WriteSolverBatch(p)
  <2>1. /\ job[p].step = "export" /\ solverBatch' = job[p].mem.candidates /\ Finish(p)
        /\ doc' = doc /\ reviewerBatch' = reviewerBatch
        /\ feedback' = feedback /\ lock' = lock /\ torn' = torn
    BY <1>9 DEF WriteSolverBatch
  <2>2. solverBatch' \in [Items -> Candidate] /\ SolverBatchBuilds(solverBatch')
    BY <1>0, <2>1 DEF JobFits, Holding, Documents
  <2>3. Frame(p) /\ JobFits(job'[p]) /\ job'[p].step = "start"
    BY <1>0, <2>1, FinishFits, IdleFits DEF Frame
  <2>4. ReviewerBatchFresh'
    <3>1. ASSUME \A q \in Processes : job'[q].step # "batch"
          PROVE  \A q \in Processes : job[q].step # "batch"
      BY <2>1, <2>3, <3>1 DEF Frame
    <3> QED BY <2>1, <3>1 DEF Inv, ReviewerBatchFresh
  <2>5. FeedbackNotAhead'
    BY <2>1 DEF Inv, Told, FeedbackNotAhead, Current
  <2> QED BY <1>0, <2>1, <2>2, <2>3, <2>4, <2>5, SameDocument
<1> QED BY <1>1, <1>2, <1>3, <1>4, <1>5, <1>6, <1>7, <1>8, <1>9 DEF Step

\* A death releases the lock; one between the two locked writes is remembered.
LEMMA CrashKeeps ==
  ASSUME Inv, NEW p \in Processes, Crash(p)
  PROVE  Inv' /\ Forward
<1> USE DEF Locking
<1>1. /\ job[p] \in Job /\ AnswersFit(job[p]) /\ job \in [Processes -> Job]
      /\ \A q \in Processes : job[q].step \in Locking => lock = q
      /\ reviewerBatch \in [Items -> Candidate]
      /\ solverBatch # None =>
           solverBatch \in [Items -> Candidate] /\ SolverBatchBuilds(solverBatch)
      /\ feedback # None => feedback \subseteq Items
  BY DEF Inv, TypeInv, JobFits, Exclusion
<1>2. /\ lock' = IF lock = p THEN None ELSE lock
      /\ torn' = (torn \/ job[p].step = "batch")
      /\ doc' = doc /\ reviewerBatch' = reviewerBatch /\ solverBatch' = solverBatch
      /\ feedback' = feedback
  BY DEF Crash, artifacts
<1>3. Frame(p) /\ JobFits(job'[p]) /\ job'[p].step = "start"
  <2>1. CASE Finish(p)
    BY <1>1, <2>1, FinishFits, IdleFits DEF Frame
  <2>2. CASE ~ Finish(p)
    <3>1. PICK again \in BOOLEAN :
            job' = [job EXCEPT ![p] = [@ EXCEPT !.step = "start", !.mem = None,
                                                 !.again = again]]
      BY <2>2 DEF Crash
    <3>2. Frame(p) /\ AnswersFit(job'[p]) /\ job'[p].step = "start"
      BY <1>1, <3>1, RerunFits DEF Frame
    <3> QED BY <3>2 DEF JobFits, Holding
  <2> QED BY <2>1, <2>2
<1>4. \A q \in Processes \ {p} : job[q].step \in Locking => lock' = q
  BY <1>1, <1>2
<1>5. ReviewerBatchFresh'
  <2>1. ASSUME \A q \in Processes : job'[q].step # "batch", ~ torn'
        PROVE  \A q \in Processes : job[q].step # "batch"
    BY <1>2, <1>3, <2>1 DEF Frame
  <2> QED BY <1>2, <2>1 DEF Inv, ReviewerBatchFresh
<1>6. FeedbackNotAhead'
  BY <1>2 DEF Inv, Told, FeedbackNotAhead, Current
<1> QED BY <1>1, <1>2, <1>3, <1>4, <1>5, <1>6, SameDocument

-----------------------------------------------------------------------------
(* The Solver is shown, and answers, items as they are: an item that has    *)
(* been sent to it is never generated again, however late the batch that    *)
(* says so is written or the answer comes in.                               *)

Past(c) == c.state \in {"SOLVING"} \cup TERMINAL_STATES \/ FailedAt(c, "solver")

\* A saved Candidate whose Solver output, if any, is about its item.
Solvable(c) ==
  /\ c \in Candidate /\ validate_candidate_invariants(c)
  /\ c.solver_item # None => Past(c) /\ c.solver_item.of = c.generator_item.ver
  /\ FailedAt(c, "solver") => c.reviewer_item # None

\* What a stage may do to it.
Follows(c, d) == Solvable(d) /\ (Past(c) => Past(d) /\ d.generator_item = c.generator_item)

\* A saved Candidate's state, and where a failure sent it.
LEMMA SavedStates ==
  ASSUME NEW c \in Candidate, validate_candidate_invariants(c)
  PROVE  /\ c.state \in VALID_STATES /\ c.state # Raised
         /\ InputsCanonical(c) /\ c.generator_item.body.ident
         /\ c.reviewer_item # None => c.reviewer_item.body.ident
         /\ c.state = "SOLVING" => c.reviewer_item # None
BY DEF validate_candidate_invariants, VALID_STATES, FailedStates, TERMINAL_STATES, Raised,
   IdentityConsistent, ReviewGates

LEMMA FailedLands ==
  ASSUME NEW d \in Candidate, NEW kind \in FailureKinds, NEW stage \in RETRY_STAGES,
         FailedBy(d, kind, stage), d.state # Raised
  PROVE  /\ d.state = "MANUAL_REVIEW" \/ FailedAt(d, stage)
         /\ \A other \in RETRY_STAGES \ {stage} : ~ FailedAt(d, other)
<1>1. /\ d.failure # None /\ d.failure.stage = stage
  <2>1. d.failure \in Failure /\ d.failure.stage = stage
    BY DEF FailedBy, Failure
  <2> QED BY <2>1, NoneAssumption
<1> QED BY <1>1 DEF FailedBy, FailedStateOf, FailedStates, FailedAt

\* An item that awaits a review or a revision has not come so far.
LEMMA NotPast ==
  ASSUME NEW c \in Candidate, AwaitsReview(c) \/ AwaitsRevision(c)
  PROVE  ~ Past(c)
BY DEF AwaitsReview, AwaitsRevision, Past, FailedAt, FailedStates, TERMINAL_STATES

LEMMA ReviewFollows ==
  ASSUME NEW c, Solvable(c), AwaitsReview(c), NEW out \in ReviewerItem,
         validate_candidate_invariants(ReviewCandidate(c, out, FALSE))
  PROVE  Follows(c, ReviewCandidate(c, out, FALSE))
<1> DEFINE x == IF FailedAt(c, "reviewer") THEN retry_failed_stage(c) ELSE c
           a == apply_review_result(x, out, FALSE)
           d == ReviewCandidate(c, out, FALSE)
<1>1. c \in Candidate /\ InputsCanonical(c) /\ ~ Past(c) /\ c.solver_item = None
  BY NotPast, SavedStates DEF Solvable
<1>2. d \in Candidate /\ d.state # Raised /\ validate_candidate_invariants(d)
  <2>1. d \in Candidate
    BY <1>1, ReviewCandidateType
  <2> QED BY <2>1, SavedStates
<1>3. /\ x \in Candidate /\ InputsCanonical(x) /\ x.solver_item = None
      /\ x.state \in {"REVIEWING", "MANUAL_REVIEW", Raised}
  <2>1. CASE FailedAt(c, "reviewer")
    BY <1>1, <2>1, RetryEffect DEF RETRY_STAGES, STAGE_RETRY_STATES, SameItems
  <2>2. CASE ~ FailedAt(c, "reviewer")
    BY <1>1, <2>2 DEF AwaitsReview
  <2> QED BY <2>1, <2>2
<1>4. d = IF x.state = "REVIEWING" THEN a ELSE x
  BY DEF ReviewCandidate
<1>5. d.solver_item = None /\ ~ FailedAt(d, "solver")
  <2>1. CASE x.state # "REVIEWING"
    <3>1. d = x
      BY <1>4, <2>1
    <3> HIDE DEF x, d
    <3> QED BY <1>2, <1>3, <2>1, <3>1 DEF FailedAt, FailedStates
  <2>2. CASE x.state = "REVIEWING"
    <3>1. d = a
      BY <1>4, <2>2
    <3>2. /\ a.solver_item = x.solver_item
          /\ \/ a.state \in {"SOLVING", "REJECTED", "DISCARDED", "REVISE_REQUIRED", Raised}
             \/ \E kind \in FailureKinds : FailedBy(a, kind, "reviewer")
      <4> HIDE DEF x
      <4> QED BY <1>3, ReviewEffect
    <3>3. ~ FailedAt(d, "solver")
      <4> HIDE DEF a, d
      <4> QED BY <1>2, <3>1, <3>2, FailedLands DEF RETRY_STAGES, FailedAt, FailedStates
    <3> HIDE DEF a, d, x
    <3> QED BY <1>3, <3>1, <3>2, <3>3
  <2> QED BY <2>1, <2>2
<1>6. Follows(c, d)
  <2> HIDE DEF d
  <2> QED BY <1>1, <1>2, <1>5 DEF Follows, Solvable
<1> QED BY <1>6

LEMMA ReviseFollows ==
  ASSUME NEW c, Solvable(c), AwaitsRevision(c), NEW body \in GeneratorBody,
         validate_candidate_invariants(ReviseCandidate(c, body, FALSE))
  PROVE  Follows(c, ReviseCandidate(c, body, FALSE))
<1> DEFINE t == transition(c, "GENERATED")
           attempt == t.generation_attempt + 1
           begun == [t EXCEPT !.reviewer_item = None, !.reviewer_input = None,
                       !.solver_item = None, !.solver_input = None,
                       !.leakage_check = None, !.consensus = None, !.failure = None,
                       !.generation_attempt = attempt]
           x == IF FailedAt(c, "generator") THEN retry_failed_stage(c) ELSE begun
           d == apply_generation_result(x, body, FALSE)
<1>1. c \in Candidate /\ ~ Past(c) /\ c.solver_item = None
  BY NotPast DEF Solvable
<1>2. begun \in Candidate /\ begun.solver_item = None
  <2>1. "GENERATED" \in VALID_STATES
    BY DEF VALID_STATES
  <2>2. t \in Candidate
    BY <1>1, <2>1, TransitionType
  <2>3. attempt \in Nat
    <3> HIDE DEF t
    <3> QED BY <2>2 DEF Candidate
  <2> HIDE DEF t, attempt
  <2> QED BY <2>2, <2>3 DEF Candidate
<1>3. x \in Candidate /\ x.solver_item = None
  <2>1. CASE FailedAt(c, "generator")
    BY <1>1, <2>1, RetryEffect DEF RETRY_STAGES, SameItems
  <2>2. CASE ~ FailedAt(c, "generator")
    <3> HIDE DEF begun
    <3> QED BY <1>2, <2>2
  <2> QED BY <2>1, <2>2
<1>4. ReviseCandidate(c, body, FALSE) = d
  BY DEF ReviseCandidate, begin_revision
<1>5. /\ d \in Candidate /\ d.solver_item = None
      /\ \/ d.state \in {"REVIEWING", Raised}
         \/ \E kind \in FailureKinds : FailedBy(d, kind, "generator")
  <2> HIDE DEF x
  <2> QED BY <1>3, GenerationEffect
<1> HIDE DEF d
<1>6. validate_candidate_invariants(d) /\ d.state # Raised
  BY <1>4, <1>5, SavedStates
<1>7. ~ FailedAt(d, "solver")
  BY <1>5, <1>6, FailedLands DEF RETRY_STAGES, FailedAt, FailedStates
<1> QED BY <1>1, <1>4, <1>5, <1>6, <1>7 DEF Follows, Solvable

\* The Solver stage, re-armed after a failure.
LEMMA RearmedSolver ==
  ASSUME NEW c, Solvable(c), FailedAt(c, "solver")
  PROVE  LET x == retry_failed_stage(c)
         IN  /\ x \in Candidate /\ InputsCanonical(x)
             /\ x.generator_item = c.generator_item /\ x.reviewer_item = c.reviewer_item
             /\ x.state \in {"SOLVING", "MANUAL_REVIEW", Raised}
             /\ x.solver_item # None => x.solver_item.of = c.generator_item.ver
<1> DEFINE x == retry_failed_stage(c)
<1>1. c \in Candidate /\ InputsCanonical(c)
      /\ (c.solver_item # None => c.solver_item.of = c.generator_item.ver)
  BY SavedStates DEF Solvable
<1>2. /\ x \in Candidate /\ x.generator_item = c.generator_item
      /\ InputsCanonical(c) => InputsCanonical(x)
      /\ x.state \in {"SOLVING", "MANUAL_REVIEW", Raised}
      /\ x.reviewer_item = c.reviewer_item
      /\ x.solver_item \in {None, c.solver_item}
  BY <1>1, RetryEffect DEF RETRY_STAGES, STAGE_RETRY_STATES, SameItems
<1> HIDE DEF x
<1> QED BY <1>1, <1>2 DEF x

LEMMA PrepareFollows ==
  ASSUME NEW c, Solvable(c), validate_candidate_invariants(PrepareCandidate(c))
  PROVE  Follows(c, PrepareCandidate(c))
<1> DEFINE x == IF FailedAt(c, "solver") THEN retry_failed_stage(c) ELSE c
           d == PrepareCandidate(c)
<1>1. /\ c \in Candidate /\ InputsCanonical(c)
      /\ c.solver_item # None => Past(c) /\ c.solver_item.of = c.generator_item.ver
  BY SavedStates DEF Solvable
<1>2. d \in Candidate /\ d.state # Raised /\ validate_candidate_invariants(d)
  <2>1. d \in Candidate
    BY <1>1, PrepareCandidateType
  <2> QED BY <2>1, SavedStates
<1>3. d = IF x.state = "SOLVING" THEN prepare_solver_input(x) ELSE x
  BY DEF PrepareCandidate
<1>4. CASE ~ FailedAt(c, "solver") /\ c.state # "SOLVING"
  <2>1. d = c
    BY <1>3, <1>4
  <2> QED BY <2>1 DEF Follows
<1>5. CASE FailedAt(c, "solver") \/ c.state = "SOLVING"
  <2>1. /\ x \in Candidate /\ InputsCanonical(x) /\ x.generator_item = c.generator_item
        /\ x.state \in {"SOLVING", "MANUAL_REVIEW", Raised}
        /\ x.solver_item # None => x.solver_item.of = c.generator_item.ver
    BY <1>1, <1>5, RearmedSolver
  <2>2. /\ d.generator_item = c.generator_item /\ d.state = x.state
        /\ d.solver_item = x.solver_item
    <3>1. x.state = "SOLVING" => 
            /\ prepare_solver_input(x).generator_item = x.generator_item
            /\ prepare_solver_input(x).state = x.state
            /\ prepare_solver_input(x).solver_item = x.solver_item
      <4> HIDE DEF x
      <4> QED BY <2>1, PrepareEffect
    <3> HIDE DEF x, d
    <3> QED BY <1>3, <2>1, <3>1
  <2>3. Follows(c, d)
    <3> HIDE DEF x, d
    <3>1. d.state \in {"SOLVING", "MANUAL_REVIEW"}
      BY <1>2, <2>1, <2>2
    <3>2. Past(d) /\ ~ FailedAt(d, "solver")
      BY <3>1 DEF Past, TERMINAL_STATES, FailedAt, FailedStates
    <3> QED BY <1>2, <2>1, <2>2, <3>2 DEF Follows, Solvable
  <2> QED BY <2>3
<1> QED BY <1>4, <1>5

LEMMA SolveFollows ==
  ASSUME NEW c, Solvable(c), AwaitsSolver(c), NEW out \in SolverItem,
         out.of = c.generator_item.ver, NEW keep \in BOOLEAN,
         validate_candidate_invariants(SolveCandidate(c, out, FALSE, keep))
  PROVE  Follows(c, SolveCandidate(c, out, FALSE, keep))
<1> DEFINE x == IF FailedAt(c, "solver") /\ c.solver_input # None
                THEN retry_failed_stage(c) ELSE c
           kept == IF keep THEN out ELSE x.solver_item
           e == [x EXCEPT !.solver_item = kept]
           s == process_solver_stage(e, out, x.solver_input, FALSE)
           d == SolveCandidate(c, out, FALSE, keep)
<1>1. /\ c \in Candidate /\ InputsCanonical(c)
      /\ c.generator_item.body.ident /\ c.reviewer_item # None
      /\ c.reviewer_item.body.ident
      /\ c.solver_item # None => c.solver_item.of = c.generator_item.ver
  BY SavedStates DEF Solvable, AwaitsSolver
<1>2. d \in Candidate /\ d.state # Raised /\ validate_candidate_invariants(d)
  <2>1. d \in Candidate
    BY <1>1, SolveCandidateType
  <2> QED BY <2>1, SavedStates
<1>3. /\ x \in Candidate /\ InputsCanonical(x)
      /\ x.generator_item = c.generator_item /\ x.reviewer_item = c.reviewer_item
      /\ x.state \in {"SOLVING", "MANUAL_REVIEW", Raised}
      /\ x.solver_item # None => x.solver_item.of = c.generator_item.ver
  <2>1. CASE FailedAt(c, "solver") /\ c.solver_input # None
    BY <2>1, RearmedSolver
  <2>2. CASE ~ (FailedAt(c, "solver") /\ c.solver_input # None)
    BY <1>1, <2>2 DEF AwaitsSolver
  <2> QED BY <2>1, <2>2
<1>4. d = IF x.state = "SOLVING" /\ x.solver_input # None THEN s ELSE x
  <2>1. [x EXCEPT !.solver_item = x.solver_item] = x
    <3> HIDE DEF x
    <3> QED BY <1>3 DEF Candidate
  <2>2. e = IF keep THEN [x EXCEPT !.solver_item = out] ELSE x
    <3> HIDE DEF x
    <3> QED BY <2>1
  <2>3. d = IF x.state = "SOLVING" /\ x.solver_input # None
            THEN process_solver_stage(IF keep THEN [x EXCEPT !.solver_item = out] ELSE x,
                                      out, x.solver_input, FALSE)
            ELSE x
    BY DEF SolveCandidate
  <2> HIDE DEF e, x, d
  <2> QED BY <2>2, <2>3
<1>5. /\ e \in Candidate /\ e.generator_item = c.generator_item
      /\ e.reviewer_item = c.reviewer_item /\ e.reviewer_input = x.reviewer_input
      /\ e.solver_input = x.solver_input
      /\ e.solver_item # None => e.solver_item.of = c.generator_item.ver
  <2>1. kept \in SolverItem \cup {None} /\ (kept # None => kept.of = c.generator_item.ver)
    <3> HIDE DEF x
    <3> QED BY <1>3 DEF Candidate
  <2> HIDE DEF kept, x
  <2> QED BY <1>3, <2>1 DEF Candidate
<1>6. InputsCanonical(e)
  <2> HIDE DEF e, x
  <2> QED BY <1>3, <1>5 DEF InputsCanonical, canonical_input
<1>7. CASE ~ (x.state = "SOLVING" /\ x.solver_input # None)
  <2>1. d = x
    BY <1>4, <1>7
  <2>2. Follows(c, d)
    <3> HIDE DEF x, d
    <3>1. d.state \in {"SOLVING", "MANUAL_REVIEW"}
      BY <1>2, <1>3, <2>1
    <3>2. Past(d) /\ ~ FailedAt(d, "solver")
      BY <3>1 DEF Past, TERMINAL_STATES, FailedAt, FailedStates
    <3> QED BY <1>2, <1>3, <2>1, <3>2 DEF Follows, Solvable
  <2> QED BY <2>2
<1>8. CASE x.state = "SOLVING" /\ x.solver_input # None
  <2>1. d = process_solver_stage(e, out, e.solver_input, FALSE)
    <3> HIDE DEF x, e, d
    <3> QED BY <1>4, <1>5, <1>8
  <2>2. e.solver_input # None
    <3> HIDE DEF x, e
    <3> QED BY <1>5, <1>8
  <2>3. /\ d.generator_item = c.generator_item /\ d.reviewer_item = c.reviewer_item
        /\ \/ d.solver_item = out /\ d.state \in TERMINAL_STATES \cup {Raised}
           \/ /\ d.solver_item = e.solver_item
              /\ \E kind \in FailureKinds : FailedBy(d, kind, "solver")
    <3> HIDE DEF x, e, d
    <3> QED BY <1>1, <1>5, <1>6, <2>1, <2>2, SolverEffect
  <2>4. Follows(c, d)
    <3> HIDE DEF x, e, d
    <3>1. Past(d)
      BY <1>2, <2>3, FailedLands DEF Past, RETRY_STAGES, TERMINAL_STATES
    <3>2. d.solver_item # None => d.solver_item.of = d.generator_item.ver
      BY <1>5, <2>3
    <3> QED BY <1>1, <1>2, <2>3, <3>1, <3>2 DEF Follows, Solvable
  <2> QED BY <2>4
<1> QED BY <1>7, <1>8

\* The Solver batch, or a document it will be built from, shows its items as
\* they are now.
ShowsCurrent(cs) ==
  \A i \in SolvingIn(cs) :
    Past(Current(i)) /\ cs[i].solver_input = Current(i).generator_item.ver

\* So do the answers of a Solver that was given one.
AnswersCurrent(j) ==
  j.command = "solver" =>
    \A i \in Items : j.input[i] # None =>
      Past(Current(i)) /\ j.input[i].of = Current(i).generator_item.ver

JobIsCurrent(j) ==
  AnswersCurrent(j) /\ (j.step = "export" => ShowsCurrent(j.mem.candidates))

SolverInv ==
  /\ \A i \in Items : Solvable(Current(i))
  /\ solverBatch # None => ShowsCurrent(solverBatch)
  /\ \A p \in Processes : JobIsCurrent(job[p])

\* The command's stage, on every item of the document.
LEMMA StageFollows ==
  ASSUME NEW j \in Job, JobFits(j), j.step = "save", NEW i \in Items, 
         Solvable(j.mem.candidates[i]), validate_candidate_invariants(Stage(j, i)),
         j.command = "solver" /\ j.input[i] # None =>
           j.input[i].of = j.mem.candidates[i].generator_item.ver
  PROVE  Follows(j.mem.candidates[i], Stage(j, i))
<1> DEFINE c == j.mem.candidates[i]
           given == i \in Supplied(j) \cap expected_stage_item_ids(j.mem.candidates, j.command)
<1>1. j.mem \in Documents /\ j.command \in Saving
  BY DEF JobFits, Holding
<1>2. CASE j.command = "prepare"
  <2>1. Stage(j, i) = PrepareCandidate(c)
    BY <1>2 DEF Stage
  <2> QED BY <2>1, PrepareFollows
<1>3. CASE j.command # "prepare" /\ ~ given
  <2>1. Stage(j, i) = c
    BY <1>3 DEF Stage
  <2> QED BY <2>1 DEF Follows
<1>4. CASE j.command # "prepare" /\ given
  <2>1. /\ j.command = "review" => AwaitsReview(c) /\ j.input[i] \in ReviewerItem
        /\ j.command = "revision" => AwaitsRevision(c) /\ j.input[i] \in GeneratorBody
        /\ j.command \notin {"review", "revision"} => AwaitsSolver(c)
        /\ j.command = "solver" => j.input[i] \in SolverItem
    BY <1>1, <1>4, SuppliedIsExpected
  <2>2. CASE j.command = "review"
    <3>1. Stage(j, i) = ReviewCandidate(c, j.input[i], FALSE)
      BY <1>4, <2>2 DEF Stage
    <3> QED BY <2>1, <2>2, <3>1, ReviewFollows
  <2>3. CASE j.command = "revision"
    <3>1. Stage(j, i) = ReviseCandidate(c, j.input[i], FALSE)
      BY <1>4, <2>3 DEF Stage
    <3> QED BY <2>1, <2>3, <3>1, ReviseFollows
  <2>4. CASE j.command = "solver"
    <3>1. Stage(j, i) = SolveCandidate(c, j.input[i], FALSE, KeepSolverOutput)
      BY <1>4, <2>4 DEF Stage
    <3>2. j.input[i] # None
      BY <2>4, <1>4 DEF Supplied
    <3> QED BY <2>1, <2>4, <3>1, <3>2, SolveFollows, DriverAssumption
  <2> QED BY <1>1, <1>4, <2>2, <2>3, <2>4 DEF Saving
<1> QED BY <1>2, <1>3, <1>4

\* What was said of an item that has come so far stays true of it.
LEMMA StillCurrent ==
  ASSUME \A i \in Items : Past(Current(i)) =>
           Past(Current(i)') /\ Current(i)'.generator_item = Current(i).generator_item
  PROVE  /\ \A cs : ShowsCurrent(cs) => ShowsCurrent(cs)'
         /\ \A j : JobIsCurrent(j) => JobIsCurrent(j)'
BY DEF ShowsCurrent, AnswersCurrent, JobIsCurrent, SolvingIn

\* One job changes, and the state file does not.
LEMMA OneJobIsCurrent ==
  ASSUME SolverInv, NEW p \in Processes, Frame(p), doc' = doc, JobIsCurrent(job'[p]),
         solverBatch' # None => ShowsCurrent(solverBatch')
  PROVE  SolverInv'
<1>1. /\ \A cs : ShowsCurrent(cs) => ShowsCurrent(cs)'
      /\ \A j : JobIsCurrent(j) => JobIsCurrent(j)'
  BY StillCurrent DEF Current
<1>2. \A q \in Processes : JobIsCurrent(job'[q])
  BY DEF SolverInv, Frame
<1>3. \A q \in Processes : JobIsCurrent(job[q])'
  BY <1>1, <1>2
<1>4. solverBatch' # None => ShowsCurrent(solverBatch)'
  BY <1>1
<1>5. \A i \in Items : Solvable(Current(i))'
  BY DEF SolverInv, Current
<1> QED BY <1>3, <1>4, <1>5 DEF SolverInv

LEMMA InitSolver == Init => SolverInv
<1> SUFFICES ASSUME Init PROVE SolverInv
  OBVIOUS
<1>1. PICK first \in [Items -> GeneratorBodies] :
        doc = [candidates |-> [i \in Items |-> NewCandidate(first[i], FALSE)],
               routed |-> NoInput]
  BY DEF Init
<1>2. ASSUME NEW i \in Items
      PROVE  Solvable(Current(i))
  <2> DEFINE c == NewCandidate(first[i], FALSE)
  <2>1. Current(i) = c /\ first[i] \in GeneratorBody
    BY <1>1, DriverAssumption DEF Current
  <2>2. c \in Candidate /\ validate_candidate_invariants(c)
    BY <2>1, NewType DEF Init, Current
  <2>3. /\ c.solver_item = None
        /\ c.state \in {"REVIEWING", Raised} \/ \E kind \in FailureKinds : FailedBy(c, kind, "generator")
    <3> DEFINE n == [state |-> "GENERATED", generation_attempt |-> 1, revision_count |-> 0,
                 system_failure_retries |-> [s \in RETRY_STAGES |-> 0],
                 validation_failure_retries |-> [s \in RETRY_STAGES |-> 0],
                 generator_item |-> [body |-> first[i], ver |-> 0],
                 reviewer_item |-> None, reviewer_input |-> None,
                 solver_item |-> None, solver_input |-> None, leakage_check |-> None,
                 consensus |-> None, acceptance_policy |-> None, failure |-> None,
                 discard_note |-> FALSE, generation_history |-> 0, review_history |-> {}]
    <3>1. n \in Candidate /\ n.solver_item = None
      BY <2>1 DEF Candidate, GeneratorItem, Retries, States, VALID_STATES
    <3>2. c = apply_generation_result(n, first[i], FALSE)
      BY DEF NewCandidate
    <3> DEFINE d == apply_generation_result(n, first[i], FALSE)
    <3>3. /\ d.solver_item = n.solver_item
          /\ \/ d.state \in {"REVIEWING", Raised}
             \/ \E kind \in FailureKinds : FailedBy(d, kind, "generator")
      <4> HIDE DEF n
      <4> QED BY <2>1, <3>1, GenerationEffect
    <3> HIDE DEF n, c
    <3> QED BY <3>1, <3>2, <3>3
  <2> HIDE DEF c
  <2>4. ~ FailedAt(c, "solver")
    BY <2>2, <2>3, SavedStates, FailedLands DEF RETRY_STAGES, FailedAt, FailedStates
  <2> QED BY <2>1, <2>2, <2>3, <2>4 DEF Solvable
<1>3. solverBatch = None /\ \A p \in Processes : job[p] = Idle
  BY DEF Init
<1>4. JobIsCurrent(Idle)
  BY DEF JobIsCurrent, AnswersCurrent, Idle, Starting
<1> QED BY <1>2, <1>3, <1>4 DEF SolverInv

\* A command is started; the Solver's answers are about what its batch shows.
LEMMA BeginSolverInv ==
  ASSUME Inv, SolverInv, NEW p \in Processes,
         \/ BeginReview(p) \/ BeginRevision(p) \/ BeginSolver(p)
         \/ BeginPrepareSolver(p) \/ BeginPrepareReviewer(p) \/ BeginRebuildFeedback(p)
  PROVE  SolverInv'
<1>1. ASSUME NEW new, Begin(p, new), JobIsCurrent(new), StartFits(new)
      PROVE  SolverInv'
  <2>1. Frame(p) /\ job'[p] = new
    BY <1>1, BeginFits DEF Inv, TypeInv, Frame, StartFits
  <2>2. doc' = doc /\ solverBatch' = solverBatch
    BY <1>1 DEF Begin, artifacts
  <2> QED BY <1>1, <2>1, <2>2, OneJobIsCurrent DEF SolverInv
<1>2. PICK new : StartFits(new) /\ Begin(p, new)
  BY BeginEffect DEF Inv
<1>3. job[p] = Idle /\ job' = [job EXCEPT ![p] = new] /\ job'[p] = new
  BY <1>2, BeginFits DEF Begin, Inv, TypeInv, StartFits
<1>4. new.step # "export"
  BY <1>2 DEF StartFits
<1>5. CASE new.command # "solver"
  BY <1>1, <1>2, <1>4, <1>5 DEF JobIsCurrent, AnswersCurrent
<1>6. CASE new.command = "solver"
  <2>1. BeginSolver(p)
    <3>1. ASSUME NEW command \in Commands \ {"solver"}, NEW input, NEW partial,
                 Begin(p, Starting(command, input, partial))
          PROVE  FALSE
      <4>1. job'[p] = Starting(command, input, partial)
        BY <3>1 DEF Begin, Inv, TypeInv
      <4>2. job'[p].command = command
        BY <4>1 DEF Starting
      <4> QED BY <1>3, <1>6, <4>2
    <3>2. ~ BeginReview(p)
      BY <3>1 DEF BeginReview, Commands
    <3>3. ~ BeginRevision(p)
      BY <3>1 DEF BeginRevision, Commands
    <3>4. ~ BeginPrepareSolver(p) /\ ~ BeginRebuildFeedback(p)
      BY <3>1 DEF BeginPrepareSolver, BeginRebuildFeedback, Commands
    <3>5. ~ BeginPrepareReviewer(p)
      <4>1. ASSUME BeginPrepareReviewer(p)
            PROVE  job'[p].command = "reviewer_batch"
        BY <4>1 DEF BeginPrepareReviewer, Begin, Inv, TypeInv, Starting
      <4> QED BY <1>3, <1>6, <4>1
    <3> QED BY <3>2, <3>3, <3>4, <3>5
  <2>2. solverBatch # None /\ ShowsCurrent(solverBatch)
    BY <2>1 DEF BeginSolver, SolverInv
  <2>3. PICK s \in Answered(SolvingIn(solverBatch)), partial \in Partial :
        \E bodies \in [s -> SolverBodies] :
          Begin(p, Starting("solver",
            [i \in Items |-> IF i \in s
               THEN [body |-> bodies[i], of |-> solverBatch[i].solver_input] ELSE None],
            partial))
    BY <2>1 DEF BeginSolver
  <2>4. PICK bodies \in [s -> SolverBodies] :
          Begin(p, Starting("solver",
            [i \in Items |-> IF i \in s
               THEN [body |-> bodies[i], of |-> solverBatch[i].solver_input] ELSE None],
            partial))
    BY <2>3
  <2> DEFINE input == [i \in Items |-> IF i \in s
               THEN [body |-> bodies[i], of |-> solverBatch[i].solver_input] ELSE None]
  <2>5. job'[p].input = input
    <3>1. job'[p] = Starting("solver", input, partial)
      BY <2>4 DEF Begin, Inv, TypeInv
    <3> HIDE DEF input
    <3> QED BY <3>1 DEF Starting
  <2>6. \A i \in Items : input[i] # None =>
          Past(Current(i)) /\ input[i].of = Current(i).generator_item.ver
    BY <2>2 DEF Answered, ShowsCurrent
  <2> HIDE DEF input
  <2>7. JobIsCurrent(new)
    BY <1>3, <1>4, <2>5, <2>6 DEF JobIsCurrent, AnswersCurrent
  <2> QED BY <1>1, <1>2, <2>7
<1> QED BY <1>5, <1>6

\* A command goes on with the answers it has, or ends.
LEMMA GoesOnCurrent ==
  ASSUME Inv, SolverInv, NEW p \in Processes, doc' = doc,
         \/ Finish(p)
         \/ \E step \in Steps \ {"export"}, mem \in Documents \cup {None} : GoOn(p, step, mem)
  PROVE  Frame(p) /\ JobIsCurrent(job'[p])
<1>1. /\ job \in [Processes -> Job] /\ JobIsCurrent(job[p]) /\ AnswersFit(job[p])
  BY DEF Inv, TypeInv, JobFits, SolverInv
<1>2. CASE Finish(p)
  <2>1. Frame(p) /\ job'[p] = Idle
    BY <1>1, <1>2, FinishFits DEF Frame
  <2> QED BY <2>1 DEF JobIsCurrent, AnswersCurrent, Idle, Starting
<1>3. ASSUME NEW step \in Steps \ {"export"}, NEW mem \in Documents \cup {None},
             GoOn(p, step, mem)
      PROVE  Frame(p) /\ JobIsCurrent(job'[p])
  <2>1. /\ Frame(p) /\ job'[p].step = step /\ job'[p].command = job[p].command
        /\ job'[p].input = job[p].input
    BY <1>1, <1>3, GoOnFits DEF Frame
  <2> QED BY <1>1, <2>1 DEF JobIsCurrent, AnswersCurrent
<1> QED BY <1>2, <1>3

LEMMA SaveSolverInv ==
  ASSUME Inv, SolverInv, NEW p \in Processes, SaveState(p)
  PROVE  SolverInv'
<1> DEFINE j == job[p]
           new == Result(j)
           refused == \/ Refuses(j)
                      \/ \E i \in Items : ~ validate_candidate_invariants(new.candidates[i])
<1>1. /\ j \in Job /\ JobFits(j) /\ j.step = "save" /\ job \in [Processes -> Job]
      /\ j.mem = doc /\ doc \in Documents /\ AnswersFit(j)
  BY DEF SaveState, Inv, TypeInv, Exclusion, Locking, JobFits
<1>2. /\ solverBatch' = solverBatch
      /\ IF refused THEN Finish(p) /\ UNCHANGED doc
                    ELSE doc' = new /\ GoOn(p, "batch", doc')
  BY DEF SaveState, artifacts
<1>3. CASE refused
  <2>1. Finish(p) /\ doc' = doc
    BY <1>2, <1>3
  <2>2. Frame(p) /\ JobIsCurrent(job'[p])
    BY <2>1, GoesOnCurrent
  <2> QED BY <1>2, <2>1, <2>2, OneJobIsCurrent DEF SolverInv
<1>4. CASE ~ refused
  <2>1. doc' = new /\ GoOn(p, "batch", new) /\ new \in Documents
    <3>1. doc' = new /\ GoOn(p, "batch", doc')
      BY <1>2, <1>4
    <3>2. new \in Documents
      BY <1>1, ResultAdvances
    <3> QED BY <3>1, <3>2
  <2>2. ASSUME NEW i \in Items
        PROVE  Follows(Current(i), Current(i)')
    <3>1. new.candidates[i] = Stage(j, i)
      BY DEF Result
    <3>2. Current(i)' = Stage(j, i) /\ Current(i) = j.mem.candidates[i]
      BY <1>1, <2>1, <3>1 DEF Current
    <3>3. validate_candidate_invariants(Stage(j, i))
      <4>1. validate_candidate_invariants(new.candidates[i])
        BY <1>4
      <4> HIDE DEF new
      <4> QED BY <3>1, <4>1
    <3>4. Solvable(Current(i)) /\ JobIsCurrent(j)
      BY DEF SolverInv
    <3>5. j.command = "solver" /\ j.input[i] # None =>
            j.input[i].of = j.mem.candidates[i].generator_item.ver
      BY <3>2, <3>4 DEF JobIsCurrent, AnswersCurrent
    <3> HIDE DEF j
    <3>6. Follows(j.mem.candidates[i], Stage(j, i))
      BY <1>1, <3>2, <3>3, <3>4, <3>5, StageFollows
    <3> QED BY <3>2, <3>6
  <2>3. /\ \A cs : ShowsCurrent(cs) => ShowsCurrent(cs)'
        /\ \A k : JobIsCurrent(k) => JobIsCurrent(k)'
    BY <2>2, StillCurrent DEF Follows
  <2> HIDE DEF new, refused
  <2>4. /\ \A q \in Processes \ {p} : job'[q] = job[q]
        /\ job'[p].step = "batch" /\ job'[p].command = j.command /\ job'[p].input = j.input
    BY <1>1, <2>1, GoOnFits DEF Steps
  <2>5. \A q \in Processes : JobIsCurrent(job[q])
    BY DEF SolverInv
  <2>6. JobIsCurrent(job'[p])
    BY <2>4, <2>5 DEF JobIsCurrent, AnswersCurrent
  <2>7. \A q \in Processes : JobIsCurrent(job'[q])
    BY <2>4, <2>5, <2>6
  <2>8. \A q \in Processes : JobIsCurrent(job[q])'
    BY <2>3, <2>7
  <2>9. \A i \in Items : Solvable(Current(i)')
    BY <2>2 DEF Follows
  <2>10. \A i \in Items : Solvable(Current(i))'
    BY <2>9 DEF Solvable
  <2>11. solverBatch' # None => ShowsCurrent(solverBatch)'
    <3>1. solverBatch' # None => ShowsCurrent(solverBatch')
      BY <1>2 DEF SolverInv
    <3> QED BY <2>3, <3>1
  <2> QED BY <2>8, <2>10, <2>11 DEF SolverInv
<1> QED BY <1>3, <1>4

\* Every step keeps it: the Solver batch is written from a document read
\* without the lock, but of the items in it none goes back.
LEMMA StepSolverInv ==
  ASSUME Inv, SolverInv, NEW p \in Processes, Step(p)
  PROVE  SolverInv'
<1>1. /\ doc \in Documents /\ JobFits(job[p])
      /\ (job[p].step = "export" => ShowsCurrent(job[p].mem.candidates))
  BY DEF Inv, TypeInv, SolverInv, JobIsCurrent
<1>2. ASSUME doc' = doc, solverBatch' = solverBatch,
             \/ Finish(p)
             \/ \E step \in Steps \ {"export"}, mem \in Documents \cup {None} :
                  GoOn(p, step, mem)
      PROVE  SolverInv'
  BY <1>2, GoesOnCurrent, OneJobIsCurrent DEF SolverInv
<1>3. CASE LoadState(p)
  BY <1>1, <1>2, <1>3 DEF LoadState, Steps, artifacts
<1>4. CASE SaveState(p)
  BY <1>4, SaveSolverInv
<1>5. CASE WriteBatch(p)
  <2>1. job[p].mem \in Documents
    BY <1>1, <1>5 DEF WriteBatch, JobFits, Holding
  <2> QED BY <1>2, <1>5, <2>1 DEF WriteBatch, Steps
<1>6. CASE SnapshotFeedback(p)
  BY <1>1, <1>2, <1>6 DEF SnapshotFeedback, Steps, artifacts
<1>7. CASE WriteFeedback(p)
  BY <1>2, <1>7 DEF WriteFeedback, Steps
<1>8. CASE Rebatch(p)
  BY <1>1, <1>2, <1>8 DEF Rebatch, Steps, artifacts
<1>9. CASE Republish(p)
  BY <1>2, <1>9 DEF Republish
<1>10. CASE ReadCommitted(p)
  <2>1. doc' = doc /\ solverBatch' = solverBatch
    BY <1>10 DEF ReadCommitted, artifacts
  <2>2. CASE ~ SolverBatchBuilds(doc.candidates)
    BY <1>2, <1>10, <2>1, <2>2 DEF ReadCommitted
  <2>3. CASE SolverBatchBuilds(doc.candidates)
    <3>1. GoOn(p, "export", doc)
      BY <1>10, <2>3 DEF ReadCommitted
    <3>2. /\ Frame(p) /\ job'[p].mem = doc
          /\ job'[p].command = job[p].command /\ job'[p].input = job[p].input
      BY <1>1, <3>1, GoOnFits DEF Inv, TypeInv, JobFits, Steps, Frame
    <3>3. ASSUME NEW i \in SolvingIn(doc.candidates)
          PROVE  /\ Past(Current(i))
                 /\ doc.candidates[i].solver_input = Current(i).generator_item.ver
      <4>1. /\ Current(i) \in Candidate /\ validate_candidate_invariants(Current(i))
            /\ Current(i).state = "SOLVING" /\ Current(i).solver_input # None
        BY <2>3, <3>3 DEF SolvingIn, SolverInv, Solvable, Current, SolverBatchBuilds
      <4>2. Current(i).solver_input = Current(i).generator_item.ver
        BY <4>1, SavedStates DEF InputsCanonical, canonical_input
      <4> QED BY <4>1, <4>2 DEF Past, Current
    <3>4. JobIsCurrent(job[p])
      BY DEF SolverInv
    <3>5. JobIsCurrent(job'[p])
      BY <3>2, <3>3, <3>4 DEF JobIsCurrent, AnswersCurrent, ShowsCurrent
    <3> QED BY <2>1, <3>2, <3>5, OneJobIsCurrent DEF SolverInv
  <2> QED BY <2>2, <2>3
<1>11. CASE WriteSolverBatch(p)
  <2>1. /\ doc' = doc /\ Finish(p) /\ solverBatch' = job[p].mem.candidates
        /\ ShowsCurrent(job[p].mem.candidates)
    BY <1>1, <1>11 DEF WriteSolverBatch
  <2>2. Frame(p) /\ JobIsCurrent(job'[p])
    BY <2>1, GoesOnCurrent
  <2> QED BY <2>1, <2>2, OneJobIsCurrent
<1> QED BY <1>3, <1>4, <1>5, <1>6, <1>7, <1>8, <1>9, <1>10, <1>11 DEF Step

\* A command that is run again has its answers still.
LEMMA CrashSolverInv ==
  ASSUME Inv, SolverInv, NEW p \in Processes, Crash(p)
  PROVE  SolverInv'
<1>1. doc' = doc /\ solverBatch' = solverBatch
  BY DEF Crash, artifacts
<1>2. Frame(p) /\ JobIsCurrent(job'[p])
  <2>1. CASE Finish(p)
    BY <1>1, <2>1, GoesOnCurrent
  <2>2. CASE ~ Finish(p)
    <3>1. PICK again \in BOOLEAN :
            job' = [job EXCEPT ![p] = [@ EXCEPT !.step = "start", !.mem = None,
                                                 !.again = again]]
      BY <2>2 DEF Crash
    <3>2. /\ job \in [Processes -> Job] /\ AnswersFit(job[p]) /\ JobIsCurrent(job[p])
      BY DEF Inv, TypeInv, JobFits, SolverInv
    <3>3. /\ Frame(p) /\ job'[p].step = "start"
          /\ job'[p].command = job[p].command /\ job'[p].input = job[p].input
      BY <3>1, <3>2, RerunFits DEF Frame
    <3> QED BY <3>2, <3>3 DEF JobIsCurrent, AnswersCurrent
  <2> QED BY <2>1, <2>2
<1> QED BY <1>1, <1>2, OneJobIsCurrent DEF SolverInv

LEMMA NextSolverInv ==
  ASSUME Inv, SolverInv, [Next]_vars
  PROVE  SolverInv'
<1>1. CASE UNCHANGED vars
  BY <1>1 DEF vars, SolverInv, Current, JobIsCurrent, AnswersCurrent, ShowsCurrent, SolvingIn
<1>2. CASE Next
  BY <1>2, BeginSolverInv, StepSolverInv, CrashSolverInv DEF Next
<1> QED BY <1>1, <1>2

-----------------------------------------------------------------------------
(* The theorems.                                                            *)

LEMMA StartInv == Init => Inv
<1> SUFFICES ASSUME Init PROVE Inv
  OBVIOUS
<1>1. PICK first \in [Items -> GeneratorBodies] :
        doc = [candidates |-> [i \in Items |-> NewCandidate(first[i], FALSE)],
               routed |-> NoInput]
  BY DEF Init
<1> DEFINE cs == [i \in Items |-> NewCandidate(first[i], FALSE)]
<1>2. cs \in [Items -> Candidate]
  <2>1. \A i \in Items : NewCandidate(first[i], FALSE) \in Candidate
    BY NewType, DriverAssumption
  <2> QED BY <2>1
<1>3. doc = [candidates |-> cs, routed |-> NoInput]
  BY <1>1
<1> HIDE DEF cs
<1>4. doc \in Documents /\ doc.candidates \in [Items -> Candidate]
      /\ \A i \in Items : doc.routed[i] = None
  BY <1>2, <1>3 DEF Documents, NoInput
<1>5. /\ reviewerBatch = doc.candidates /\ solverBatch = None /\ feedback = None
      /\ lock = None /\ torn = FALSE
      /\ job = [p \in Processes |-> Idle]
  BY DEF Init
<1>6. \A p \in Processes : job[p] = Idle
  BY <1>5
<1>7. TypeInv
  BY <1>4, <1>5, IdleFits DEF TypeInv
<1>8. Exclusion /\ ReviewerBatchFresh
  BY <1>5, <1>6, IdleFits DEF Exclusion, Locking, ReviewerBatchFresh
<1>9. ToldBy(doc)
  <2>1. "REVISE_REQUIRED" # None
    BY DriverAssumption DEF States, VALID_STATES
  <2> QED BY <1>4, <2>1 DEF ToldBy
<1>10. Told
  BY <1>5, <1>6, <1>9, IdleFits DEF Told, FeedbackNotAhead
<1> QED BY <1>7, <1>8, <1>10 DEF Inv

LEMMA NextKeeps ==
  ASSUME Inv, [Next]_vars
  PROVE  Inv' /\ Forward
<1>1. CASE UNCHANGED vars
  <2>1. Inv'
    BY <1>1 DEF vars, Inv, TypeInv, Exclusion, ReviewerBatchFresh, Told, ToldBy,
       FeedbackNotAhead, Current
  <2>2. Forward
    BY <1>1, StaysAdvances DEF vars, Inv, TypeInv, Documents, Forward, Current
  <2> QED BY <2>1, <2>2
<1>2. CASE Next
  <2>1. PICK p \in Processes :
          \/ BeginReview(p) \/ BeginRevision(p) \/ BeginSolver(p)
          \/ BeginPrepareSolver(p) \/ BeginPrepareReviewer(p) \/ BeginRebuildFeedback(p)
          \/ Step(p) \/ Crash(p)
    BY <1>2 DEF Next
  <2> QED BY <2>1, BeginKeeps, StepKeeps, CrashKeeps
<1> QED BY <1>1, <1>2

\* The lock, the document in memory and the snapshots are what the code takes
\* them for.
THEOREM DriverInv == Spec => []Inv
<1>1. Inv /\ [Next]_vars => Inv'
  BY NextKeeps
<1> QED BY <1>1, StartInv, PTL DEF Spec

\* ReviewerBatchFresh: outside a command's two locked writes, and unless one
\* died there, reviewer_input_batch.json is the batch of the state file.
THEOREM BatchIsFresh == Spec => []ReviewerBatchFresh
<1>1. Inv => ReviewerBatchFresh
  BY DEF Inv
<1> QED BY <1>1, DriverInv, PTL

\* FeedbackNotAhead: the feedback file, written without the lock, names only
\* items that a saved review sent back.
THEOREM FeedbackIsEarned == Spec => []FeedbackNotAhead
<1>1. Inv => FeedbackNotAhead
  BY DEF Inv, Told
<1> QED BY <1>1, DriverInv, PTL

\* NoLostUpdate: no command's save drops what another command saved.
THEOREM UpdatesAreKept == Spec => NoLostUpdate
<1>1. Inv /\ [Next]_vars => [\A i \in Items : Advances(Current(i), Current(i)')]_vars
  BY NextKeeps DEF Forward
<1> QED BY <1>1, DriverInv, PTL DEF Spec, NoLostUpdate

\* SolverNeverStale: the Solver batch, and every Solver output that was kept,
\* are about the items as they are.
THEOREM SolverSeesCurrent == Spec => []SolverNeverStale
<1>1. Inv /\ SolverInv /\ [Next]_vars => SolverInv'
  BY NextSolverInv
<1>2. SolverInv => SolverNeverStale
  BY DEF SolverInv, Solvable, ShowsCurrent, SolverNeverStale
<1> QED BY <1>1, <1>2, InitSolver, DriverInv, PTL DEF Spec
=============================================================================
