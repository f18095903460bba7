---------------------------- MODULE Reading_proofs ----------------------------
(***************************************************************************)
(* Theorems about the Reading pipeline, for any number of questions.       *)
(*                                                                         *)
(* ShippedIsJudged says only what an accepted passage is; it is inductive  *)
(* once Inv says, stage by stage, what has been seen of the set so far:    *)
(* which version of each question the verifier passed, that the agents are *)
(* shown the set as it is, and that a merge outdates the review before it. *)
(***************************************************************************)
EXTENDS Reading, TLAPS

Running == Stages \cup {"blind"}
Judging == {"review", "repair", "candidate verifier", "final review", "solver"}
Repairing == {"repair", "candidate verifier"}
Original == [i \in Items |-> 0]

RunType ==
  /\ plan \in [mode : {"v0.1", "v0.2", "draft"}, inference : SUBSET Items]
  /\ run \in [pc : Steps, generator : Sets \cup {None}, sound : BOOLEAN,
              blind : Sets \cup {None}, leak : BOOLEAN, flagged : SUBSET Items,
              candidates : SUBSET (Items \X {1, 2}), review : ReviewRecords \cup {None},
              solve : SolveRecords \cup {None}, gate : BOOLEAN,
              failure : Stages \cup {None}, decision : Decisions \cup {None}]
  /\ run.flagged \subseteq plan.inference
  /\ run.candidates \subseteq run.flagged \X {1, 2}
  /\ verified \subseteq Items \X (0..2)

\* No stage runs after a failure or a decision, and none has answers of a
\* stage that is still to come.
InOrder ==
  /\ run.pc \in Running \cup {"check"} => run.decision = None
  /\ run.pc \in Running => run.failure = None /\ run.solve = None /\ ~ run.leak
  /\ run.pc = "generator" => run.generator = None /\ ~ run.sound
  /\ run.pc \in {"generator", "verifier"} => run.flagged = {}
  /\ run.pc \in {"generator", "verifier", "blind", "review"} => run.review = None

\* Past the Generator the set is sound, past the projection it is what is shown.
ShownAsIs ==
  /\ run.pc \in Running \ {"generator"} => run.sound /\ run.generator \in Sets
  /\ run.pc \in Judging => run.blind = run.generator

\* A review or a solution held is of the set held, except between the merge
\* and the final review, where the review is of another.
Current ==
  /\ /\ run.pc \in Repairing \cup {"solver", "check"}
     /\ run.failure = None /\ run.sound /\ ~ run.leak
     => /\ run.generator \in Sets
        /\ run.review # None => run.review.of = run.generator
        /\ run.solve # None => run.solve.of = run.generator
  /\ run.pc = "final review" /\ run.review # None => run.review.of # run.generator

\* The verifier has passed every INFERENCE question that nobody flagged, and
\* after the merge every one; the gate is open only then.
VerifiedSoFar ==
  plan.mode = "v0.2" =>
    /\ run.pc \in Repairing \cup {"blind", "review"} =>
         \A i \in plan.inference \ run.flagged : <<i, run.generator[i]>> \in verified
    /\ run.pc = "final review" => Verified
    /\ run.gate => Verified

GateInOrder ==
  run.pc \in Running \ {"solver"} /\ run.gate => plan.inference = {}

\* What is not flagged is as the Generator wrote it.
OnlyFlagged ==
  /\ run.pc \in Repairing => plan.inference # {} /\ run.flagged # {}
  /\ run.pc = "final review" => plan.inference # {}
  /\ run.pc \in Repairing \cup {"verifier", "blind", "review"} => run.generator = Original
  /\ run.generator # None =>
       \A i \in Items : run.generator[i] # 0 => i \in run.flagged

Inv ==
  /\ RunType /\ InOrder /\ ShownAsIs /\ Current
  /\ VerifiedSoFar /\ GateInOrder /\ OnlyFlagged /\ ShippedIsJudged

-----------------------------------------------------------------------------
(* The invariant, stage by stage. *)

LEMMA NoneApart == None \notin Sets \cup Stages \cup Decisions
BY ReadingAssumption

LEMMA OriginalIsASet ==
  Original \in Sets /\ Original # None /\ \A i \in Items : Original[i] = 0
BY NoneApart DEF Original, Sets

LEMMA InitInv == Init => Inv
<1> SUFFICES ASSUME Init PROVE Inv
  OBVIOUS
<1> USE NoneApart DEF Init
<1>1. RunType
  <2>1. plan \in [mode : {"v0.1", "v0.2", "draft"}, inference : SUBSET Items]
    BY ReadingAssumption
  <2>2. "generator" \in Steps
    BY DEF Steps, Stages
  <2> QED BY <2>1, <2>2 DEF RunType
<1>2. InOrder /\ ShownAsIs /\ Current
  BY DEF InOrder, ShownAsIs, Current, Running, Judging, Repairing, Stages
<1>3. VerifiedSoFar /\ GateInOrder /\ OnlyFlagged
  BY DEF VerifiedSoFar, GateInOrder, OnlyFlagged, Repairing
<1>4. ShippedIsJudged
  BY DEF ShippedIsJudged, Decisions
<1> QED BY <1>1, <1>2, <1>3, <1>4 DEF Inv

\* A step that only goes on, to "check" with a failure or past it.
LEMMA MovesOn ==
  ASSUME Inv, NEW step \in Steps \ (Running \cup {"check"}),
         run' = [run EXCEPT !.pc = step], UNCHANGED <<plan, verified>>
  PROVE  Inv'
<1> USE DEF Inv
<1>1. RunType'
  BY DEF RunType
<1>2. InOrder' /\ ShownAsIs' /\ Current'
  BY DEF InOrder, ShownAsIs, Current, RunType, Running, Judging, Repairing, Stages
<1>3. VerifiedSoFar' /\ GateInOrder' /\ OnlyFlagged'
  BY DEF VerifiedSoFar, GateInOrder, OnlyFlagged, RunType, Running, Repairing, Stages, Verified
<1>4. ShippedIsJudged'
  BY DEF ShippedIsJudged, Reviewed, Solved, Verified, RunType
<1> QED BY <1>1, <1>2, <1>3, <1>4

LEMMA FailInv == ASSUME Inv, Fail PROVE Inv'
<1> USE NoneApart DEF Inv, Fail
<1>0. run.decision = None /\ run.decision' = None /\ None # "ACCEPT"
  BY NoneApart DEF InOrder, RunType, Running, Decisions
<1>1. RunType'
  BY DEF RunType, Steps
<1>2. InOrder' /\ ShownAsIs' /\ Current'
  BY DEF InOrder, ShownAsIs, Current, RunType, Running, Judging, Repairing, Stages
<1>3. VerifiedSoFar' /\ GateInOrder' /\ OnlyFlagged'
  BY DEF VerifiedSoFar, GateInOrder, OnlyFlagged, RunType, Running, Repairing, Stages, Verified
<1>4. ShippedIsJudged'
  BY <1>0 DEF ShippedIsJudged
<1> QED BY <1>1, <1>2, <1>3, <1>4

\* A stage that ends the pipeline early without touching what was seen.
LEMMA StopInv ==
  ASSUME Inv, run.pc \in Repairing \cup {"generator", "verifier"}, run' = StopHere, plan' = plan,
         \/ verified' = verified
         \/ verified \subseteq verified' /\ verified' \subseteq Items \X (0..2)
  PROVE  Inv'
<1> USE NoneApart DEF Inv, StopHere
<1>0. run.decision = None /\ None # "ACCEPT" /\ verified \subseteq verified'
  BY DEF InOrder, Decisions, Running, Repairing, Stages
<1>1. RunType'
  BY DEF RunType, Steps
<1>2. InOrder' /\ ShownAsIs'
  BY DEF InOrder, ShownAsIs, RunType, Running, Judging, Repairing, Stages
<1>3. Current'
  BY DEF Current, InOrder, ShownAsIs, RunType, Running, Repairing, Stages
<1>4. VerifiedSoFar' /\ GateInOrder' /\ OnlyFlagged'
  BY <1>0 DEF VerifiedSoFar, GateInOrder, OnlyFlagged, RunType, Running, Repairing,
              Stages, Verified
<1>5. ShippedIsJudged'
  BY <1>0 DEF ShippedIsJudged, RunType
<1> QED BY <1>1, <1>2, <1>3, <1>4, <1>5

LEMMA GenerateInv == ASSUME Inv, Generate PROVE Inv'
<1> USE NoneApart DEF Inv, Generate, StopHere
<1>0. /\ run.pc = "generator" /\ run.decision = None /\ None # "ACCEPT"
      /\ UNCHANGED <<plan, verified>>
  BY DEF InOrder, Decisions, Running, Stages
<1>1. CASE NotBound
  BY <1>0, <1>1, StopInv DEF NotBound
<1>2. CASE Bound
  <2>1. PICK sound \in BOOLEAN, gate \in BOOLEAN, next \in {"check", "verifier", "blind"} :
          /\ run' = [run EXCEPT !.pc = next, !.generator = Original, !.sound = sound,
                                !.gate = gate]
          /\ gate => plan.inference = {}
          /\ next # "check" => sound
          /\ next = "blind" => plan.mode # "v0.2" \/ plan.inference = {}
    BY <1>2 DEF Bound, Original, GeneratorContract, Diagnostics
  <2>2. RunType'
    <3>1. next \in Steps
      BY DEF Steps, Stages
    <3> QED BY <1>0, <2>1, <3>1, OriginalIsASet DEF RunType
  <2>3. /\ run'.pc = next /\ run'.generator = Original /\ run'.sound = sound
        /\ run'.gate = gate
        /\ run'.flagged = {} /\ run'.review = None /\ run'.solve = None
        /\ run'.failure = None /\ run'.decision = None /\ ~ run'.leak
    BY <1>0, <2>1 DEF RunType, InOrder, Running, Stages
  <2>4. InOrder' /\ ShownAsIs' /\ Current'
    BY <2>1, <2>3, OriginalIsASet DEF InOrder, ShownAsIs, Current, Running, Judging, Repairing,
                                      Stages
  <2>5. VerifiedSoFar' /\ GateInOrder' /\ OnlyFlagged'
    BY <1>0, <2>1, <2>3 DEF VerifiedSoFar, GateInOrder, OnlyFlagged, Repairing, Verified, Original
  <2>6. ShippedIsJudged'
    BY <1>0, <2>3 DEF ShippedIsJudged
  <2> QED BY <2>2, <2>4, <2>5, <2>6
<1> QED BY <1>1, <1>2

LEMMA VerifyInv == ASSUME Inv, Verify PROVE Inv'
<1> USE NoneApart DEF Inv, Verify
<1>0. /\ run.pc = "verifier" /\ run.decision = None /\ None # "ACCEPT"
      /\ plan' = plan
  BY DEF InOrder, Decisions, Running, Stages
<1>1. CASE run' = StopHere /\ UNCHANGED verified
  BY <1>0, <1>1, StopInv
<1>2. ASSUME NEW flagged \in SUBSET plan.inference,
             run' = [run EXCEPT !.pc = "blind", !.flagged = flagged],
             verified' = verified \cup {<<i, run.generator[i]>> : i \in plan.inference \ flagged}
      PROVE  Inv'
  <2>1. run.generator = Original /\ Original \in Sets /\ plan.inference \subseteq Items
    BY <1>0, OriginalIsASet DEF OnlyFlagged, Repairing, RunType
  <2>2. \A i \in Items : Original[i] = 0
    BY DEF Original
  <2>3. RunType'
    <3>1. "blind" \in Steps
      BY DEF Steps
    <3>2. run.candidates = {}
      BY <1>0 DEF RunType, InOrder
    <3>3. verified' \subseteq Items \X (0..2)
      <4>1. \A i \in plan.inference : <<i, run.generator[i]>> \in Items \X (0..2)
        BY ONLY <2>1, <2>2
      <4> QED BY ONLY <1>2, <4>1, RunType DEF RunType
    <3> QED BY <1>0, <1>2, <3>1, <3>2, <3>3 DEF RunType
  <2>4. InOrder' /\ ShownAsIs' /\ Current'
    BY <1>0, <1>2, <2>1 DEF InOrder, ShownAsIs, Current, RunType, Running, Judging, Repairing,
                            Stages
  <2>5. VerifiedSoFar' /\ GateInOrder'
    BY <1>0, <1>2, <2>1 DEF VerifiedSoFar, GateInOrder, RunType, Running, Repairing,
                            Stages, Verified
  <2>6. OnlyFlagged'
    BY <1>0, <1>2, <2>1, <2>2 DEF OnlyFlagged, RunType, Repairing
  <2>7. ShippedIsJudged'
    BY <1>0, <1>2 DEF ShippedIsJudged, RunType
  <2> QED BY <2>3, <2>4, <2>5, <2>6, <2>7
<1>3. \A judgments : Flagged(judgments) \in SUBSET plan.inference
  BY DEF Flagged
<1> QED BY <1>1, <1>2, <1>3

LEMMA BlindInputInv == ASSUME Inv, BlindInput PROVE Inv'
<1> USE NoneApart DEF Inv, BlindInput
<1>0. /\ run.pc = "blind" /\ run.decision = None /\ None # "ACCEPT"
      /\ UNCHANGED <<plan, verified>>
      /\ run.generator \in Sets
  BY DEF InOrder, ShownAsIs, Decisions, Running, Stages
<1>1. RunType'
  <2>1. "review" \in Steps /\ "check" \in Steps
    BY DEF Steps, Stages
  <2>2. CASE run' = [run EXCEPT !.pc = "review", !.blind = run.generator]
    BY <1>0, <2>1, <2>2 DEF RunType
  <2>3. CASE run' = [run EXCEPT !.pc = "check", !.leak = TRUE]
    BY <1>0, <2>1, <2>3 DEF RunType
  <2> QED BY <2>2, <2>3
<1>2. InOrder' /\ ShownAsIs' /\ Current'
  <2>1. CASE run' = [run EXCEPT !.pc = "review", !.blind = run.generator]
    BY <1>0, <2>1 DEF InOrder, ShownAsIs, Current, RunType, Running, Judging, Repairing, Stages
  <2>2. CASE run' = [run EXCEPT !.pc = "check", !.leak = TRUE]
    BY <1>0, <2>2 DEF InOrder, ShownAsIs, Current, RunType, Running, Judging, Repairing, Stages
  <2> QED BY <2>1, <2>2
<1>3. VerifiedSoFar' /\ GateInOrder' /\ OnlyFlagged'
  BY <1>0 DEF VerifiedSoFar, GateInOrder, OnlyFlagged, RunType, Running, Repairing,
              Stages, Verified
<1>4. ShippedIsJudged'
  BY <1>0 DEF ShippedIsJudged, RunType
<1> QED BY <1>1, <1>2, <1>3, <1>4

LEMMA ReviewsType ==
  ASSUME NEW shown \in Sets, NEW review \in Reviews(shown)
  PROVE  review \in ReviewRecords /\ review.of = shown
<1>1. CASE review \in [of : {shown}, ok : {TRUE}, pass : BOOLEAN, item : [Items -> Judgments]]
  BY <1>1 DEF ReviewRecords
<1>2. CASE review = [of |-> shown, ok |-> FALSE, pass |-> FALSE,
                     item |-> [i \in Items |-> "unsound"]]
  <2>1. [i \in Items |-> "unsound"] \in [Items -> Judgments]
    BY DEF Judgments
  <2> QED BY <1>2, <2>1 DEF ReviewRecords
<1> QED BY <1>1, <1>2 DEF Reviews

LEMMA SolutionsType ==
  ASSUME NEW shown \in Sets, NEW solve \in Solutions(shown)
  PROVE  solve \in SolveRecords /\ solve.of = shown
<1>1. CASE solve \in [of : {shown}, ok : {TRUE}, item : [Items -> {"key", "other"}]]
  BY <1>1 DEF SolveRecords
<1>2. CASE solve = [of |-> shown, ok |-> FALSE, item |-> [i \in Items |-> "other"]]
  BY <1>2 DEF SolveRecords
<1> QED BY <1>1, <1>2 DEF Solutions

\* The Solver is called once nobody is left flagged, so the gate may open.
LEMMA ReviewInv == ASSUME Inv, Review PROVE Inv'
<1> USE NoneApart DEF Inv
<1>0. /\ run.pc = "review" /\ run.decision = None /\ None # "ACCEPT"
      /\ UNCHANGED <<plan, verified>>
      /\ run.generator = Original /\ run.blind = Original /\ Original \in Sets
      /\ run.sound /\ run.solve = None /\ run.failure = None /\ ~ run.leak
  BY DEF Review, InOrder, ShownAsIs, OnlyFlagged, Decisions, Running, Judging, Stages
<1>1. PICK review \in Reviews(run.blind), next \in {"solver", "check", "repair"},
           flagged \in SUBSET plan.inference, gate \in BOOLEAN :
        /\ run' = [run EXCEPT !.pc = next, !.review = review, !.flagged = flagged,
                              !.gate = gate]
        /\ run.flagged \subseteq flagged
        /\ next = "repair" => plan.inference # {} /\ flagged # {}
        /\ gate /\ ~ run.gate => next = "solver" /\ plan.inference # {} /\ flagged = {}
        /\ run.gate => gate
        /\ next = "repair" => ~ gate
  <2>1. PICK review \in Reviews(run.blind) :
          LET gated == plan.mode = "v0.2" /\ plan.inference # {}
              next == IF ~ gated THEN "solver"
                      ELSE IF ~ review.ok \/ Blocking(review) THEN "check"
                      ELSE IF ToRepair(review) # {} THEN "repair"
                      ELSE IF QualityPass(review) THEN "solver" ELSE "check"
          IN  run' = [run EXCEPT
                !.pc = next,
                !.review = review,
                !.flagged = IF gated /\ review.ok THEN ToRepair(review) ELSE @,
                !.gate = @ \/ (gated /\ next = "solver")]
    BY DEF Review
  <2>2. run.flagged \subseteq ToRepair(review) /\ ToRepair(review) \subseteq plan.inference
    BY DEF ToRepair, Repairable, RunType
  <2>3. run.gate => plan.inference = {}
    BY <1>0 DEF GateInOrder, Running, Stages
  <2> QED BY <2>1, <2>2, <2>3 DEF RunType, QualityPass
<1>2. review \in ReviewRecords /\ review.of = Original
  BY <1>0, <1>1, ReviewsType
<1>3. RunType'
  <2>1. next \in Steps
    BY DEF Steps, Stages
  <2>2. run.candidates \subseteq flagged \X {1, 2}
    BY <1>1 DEF RunType
  <2> QED BY <1>0, <1>1, <1>2, <2>1, <2>2 DEF RunType
<1>4. /\ run'.pc = next /\ run'.review = review /\ run'.flagged = flagged
      /\ run'.gate = gate /\ run'.generator = Original /\ run'.blind = Original
      /\ run'.sound /\ run'.solve = None /\ run'.failure = None /\ ~ run'.leak
      /\ run'.decision = None
  BY <1>0, <1>1 DEF RunType
<1>5. InOrder' /\ ShownAsIs' /\ Current'
  BY <1>0, <1>2, <1>4 DEF InOrder, ShownAsIs, Current, Running, Judging, Repairing, Stages
<1>6. VerifiedSoFar' /\ GateInOrder'
  <2>1. plan.mode = "v0.2" =>
          \A i \in plan.inference \ flagged : <<i, Original[i]>> \in verified
    BY <1>0, <1>1 DEF VerifiedSoFar, Repairing
  <2>2. plan.mode = "v0.2" /\ run.gate => \A i \in plan.inference : <<i, Original[i]>> \in verified
    BY <1>0 DEF VerifiedSoFar, Verified
  <2>3. run.gate => plan.inference = {}
    BY <1>0 DEF GateInOrder, Running, Stages
  <2>4. plan.mode = "v0.2" /\ gate => \A i \in plan.inference : <<i, Original[i]>> \in verified
    BY <1>1, <2>1, <2>2
  <2>5. GateInOrder'
    BY <1>0, <1>1, <1>4, <2>3 DEF GateInOrder, Running, Stages
  <2>6. VerifiedSoFar'
    <3>1. CASE plan.mode # "v0.2"
      BY <1>0, <3>1 DEF VerifiedSoFar
    <3>2. CASE plan.mode = "v0.2"
      <4>1. \A i \in plan'.inference \ run'.flagged : <<i, run'.generator[i]>> \in verified'
        BY ONLY <1>0, <1>4, <2>1, <3>2
      <4>2. run'.pc # "final review"
        BY ONLY <1>1, <1>4
      <4>3. run'.gate => Verified'
        BY ONLY <1>0, <1>4, <2>4, <3>2 DEF Verified
      <4> QED BY ONLY <4>1, <4>2, <4>3 DEF VerifiedSoFar
    <3> QED BY <3>1, <3>2
  <2> QED BY <2>5, <2>6
<1>7. OnlyFlagged'
  BY <1>0, <1>1, <1>4, OriginalIsASet DEF OnlyFlagged, Repairing
<1>8. ShippedIsJudged'
  BY <1>0, <1>4 DEF ShippedIsJudged
<1> QED BY <1>3, <1>5, <1>6, <1>7, <1>8

LEMMA RepairInv == ASSUME Inv, Repair PROVE Inv'
<1> USE NoneApart DEF Inv
<1>0. /\ run.pc = "repair" /\ run.decision = None /\ None # "ACCEPT"
      /\ UNCHANGED <<plan, verified>>
  BY DEF Repair, InOrder, Decisions, Running, Stages
<1>1. CASE run' = StopHere
  BY <1>0, <1>1, StopInv DEF Repairing
<1>2. ASSUME NEW next \in {"candidate verifier", "check"}, NEW candidates \in SUBSET Requested,
             run' = [run EXCEPT !.pc = next, !.candidates = candidates]
      PROVE  Inv'
  <2>1. RunType'
    <3>1. next \in Steps /\ candidates \subseteq Items \X {1, 2}
      BY DEF Steps, Stages, Requested, RunType
    <3> QED BY <1>0, <1>2, <3>1 DEF RunType, Requested
  <2>2. InOrder' /\ ShownAsIs' /\ Current'
    BY <1>0, <1>2 DEF InOrder, ShownAsIs, Current, RunType, Running, Judging, Repairing, Stages
  <2>3. VerifiedSoFar' /\ GateInOrder' /\ OnlyFlagged'
    BY <1>0, <1>2 DEF VerifiedSoFar, GateInOrder, OnlyFlagged, RunType, Running, Repairing,
                      Stages, Verified
  <2>4. ShippedIsJudged'
    BY <1>0, <1>2 DEF ShippedIsJudged, RunType
  <2> QED BY <2>1, <2>2, <2>3, <2>4
<1> QED BY <1>1, <1>2 DEF Repair

\* _candidate_selection takes a candidate that passed.
LEMMA SelectedIsEligible ==
  ASSUME NEW Shown, NEW rank \in [Shown -> Ranks], NEW i, Eligible(rank, i) # {}
  PROVE  Selected(rank, i) \in Eligible(rank, i)
<1>1. Eligible(rank, i) \subseteq {1, 2}
  BY DEF Eligible
<1>2. \A n \in Eligible(rank, i) : rank[<<i, n>>] \in Nat
  BY DEF Eligible, Ranks
<1>3. \E n \in Eligible(rank, i) : \A m \in Eligible(rank, i) :
        \/ rank[<<i, n>>] > rank[<<i, m>>]
        \/ rank[<<i, n>>] = rank[<<i, m>>] /\ n <= m
  <2>1. CASE 1 \in Eligible(rank, i) /\ 2 \in Eligible(rank, i)
    <3>1. rank[<<i, 2>>] > rank[<<i, 1>>] \/ rank[<<i, 2>>] <= rank[<<i, 1>>]
      BY <1>2, <2>1
    <3>2. CASE rank[<<i, 2>>] > rank[<<i, 1>>]
      <4>1. \A m \in Eligible(rank, i) : m = 2 \/ rank[<<i, 2>>] > rank[<<i, m>>]
        BY <1>1, <3>2
      <4> QED BY <1>1, <1>2, <2>1, <4>1
    <3>3. CASE rank[<<i, 2>>] <= rank[<<i, 1>>]
      <4>1. \A m \in Eligible(rank, i) :
              \/ rank[<<i, 1>>] > rank[<<i, m>>]
              \/ rank[<<i, 1>>] = rank[<<i, m>>] /\ 1 <= m
        BY <1>1, <1>2, <2>1, <3>3
      <4> QED BY <2>1, <4>1
    <3> QED BY <3>1, <3>2, <3>3
  <2>2. CASE \E n \in {1, 2} : Eligible(rank, i) = {n}
    BY <1>2, <2>2
  <2> QED BY <1>1, <2>1, <2>2
<1> QED BY <1>3 DEF Selected

\* The merge puts verified candidates in for what was flagged, and for nothing
\* else: afterwards every INFERENCE question is verified as it now stands.
LEMMA MergedIsVerified ==
  ASSUME Inv, run.pc = "candidate verifier",
         NEW rank \in CandidateJudgments, \A i \in run.flagged : Eligible(rank, i) # {},
         NEW merged, merged = [i \in Items |-> IF i \in run.flagged THEN Selected(rank, i)
                                               ELSE run.generator[i]]
  PROVE  /\ merged \in Sets
         /\ merged # Original
         /\ \A i \in Items : merged[i] # 0 => i \in run.flagged
         /\ plan.mode = "v0.2" =>
              \A i \in plan.inference :
                <<i, merged[i]>> \in verified \cup {c \in run.candidates : rank[c] > 0}
<1>1. /\ run.generator = Original /\ run.flagged # {} /\ run.flagged \subseteq plan.inference
      /\ plan.inference \subseteq Items
  BY DEF Inv, OnlyFlagged, RunType, Repairing
<1>2. \A i \in run.flagged : /\ Selected(rank, i) \in {1, 2}
                            /\ <<i, Selected(rank, i)>> \in run.candidates
                            /\ rank[<<i, Selected(rank, i)>>] > 0
  BY SelectedIsEligible DEF CandidateJudgments, Eligible
<1>3. \A i \in Items \ run.flagged : merged[i] = 0 /\ merged[i] = Original[i]
  BY <1>1, OriginalIsASet
<1>4. \A i \in run.flagged : merged[i] = Selected(rank, i)
  BY <1>1
<1>5. merged \in Sets
  <2>1. \A i \in Items : (IF i \in run.flagged THEN Selected(rank, i)
                         ELSE run.generator[i]) \in 0..2
    <3> SUFFICES ASSUME NEW i \in Items
                 PROVE  (IF i \in run.flagged THEN Selected(rank, i)
                         ELSE run.generator[i]) \in 0..2
      OBVIOUS
    <3>1. CASE i \in run.flagged
      <4>1. Selected(rank, i) = 1 \/ Selected(rank, i) = 2
        BY <1>2, <3>1
      <4> QED BY ONLY <3>1, <4>1
    <3>2. CASE i \notin run.flagged
      BY ONLY <1>1, <3>2, OriginalIsASet, i \in Items
    <3> QED BY <3>1, <3>2
  <2> QED BY <2>1 DEF Sets
<1>6. merged # Original
  <2>1. PICK i \in run.flagged : merged[i] \in {1, 2}
    BY <1>1, <1>2, <1>4
  <2>2. Original[i] = 0
    BY <1>1, OriginalIsASet
  <2> QED BY ONLY <2>1, <2>2
<1>7. \A i \in Items : merged[i] # 0 => i \in run.flagged
  BY <1>3
<1>8. ASSUME plan.mode = "v0.2", NEW i \in plan.inference
      PROVE  <<i, merged[i]>> \in verified \cup {c \in run.candidates : rank[c] > 0}
  <2>1. CASE i \in run.flagged
    BY <1>2, <1>4, <2>1
  <2>2. CASE i \notin run.flagged
    BY <1>1, <1>3, <1>8, <2>2 DEF Inv, VerifiedSoFar, Repairing
  <2> QED BY <2>1, <2>2
<1> QED BY <1>5, <1>6, <1>7, <1>8

LEMMA VerifyCandidatesInv == ASSUME Inv, VerifyCandidates PROVE Inv'
<1> USE NoneApart
<1>0. /\ run.pc = "candidate verifier" /\ run.decision = None /\ None # "ACCEPT"
      /\ plan' = plan
      /\ ~ run.leak /\ run.sound /\ ~ run.gate /\ plan.inference # {}
      /\ run.solve = None /\ run.failure = None
      /\ run.generator = Original
  BY DEF VerifyCandidates, Inv, InOrder, ShownAsIs, OnlyFlagged, GateInOrder, Repairing,
         Decisions, Running, Stages
<1>1. CASE run' = StopHere /\ verified' = verified
  BY <1>0, <1>1, StopInv DEF Repairing
<1>2. ASSUME NEW rank \in CandidateJudgments,
             verified' = verified \cup {c \in run.candidates : rank[c] > 0},
             run' = StopHere
      PROVE  Inv'
  <2>1. verified' \subseteq Items \X (0..2)
    BY <1>2 DEF Inv, RunType
  <2> QED BY <1>0, <1>2, <2>1, StopInv DEF Repairing
<1>3. ASSUME NEW rank \in CandidateJudgments,
             verified' = verified \cup {c \in run.candidates : rank[c] > 0},
             \A i \in run.flagged : Eligible(rank, i) # {},
             Merge(rank)
      PROVE  Inv'
  <2> DEFINE merged == [i \in Items |-> IF i \in run.flagged THEN Selected(rank, i)
                                        ELSE run.generator[i]]
  <2>1. /\ merged \in Sets /\ merged # Original
        /\ \A i \in Items : merged[i] # 0 => i \in run.flagged
        /\ plan.mode = "v0.2" => \A i \in plan.inference : <<i, merged[i]>> \in verified'
    <3>1. merged = [i \in Items |-> IF i \in run.flagged THEN Selected(rank, i)
                                   ELSE run.generator[i]]
      OBVIOUS
    <3> HIDE DEF merged
    <3>2. /\ merged \in Sets /\ merged # Original
          /\ \A i \in Items : merged[i] # 0 => i \in run.flagged
          /\ plan.mode = "v0.2" =>
               \A i \in plan.inference :
                 <<i, merged[i]>> \in verified \cup {c \in run.candidates : rank[c] > 0}
      BY ONLY Inv, <1>0, <1>3, <3>1, MergedIsVerified
    <3> QED BY <1>3, <3>2
  <2>2. \/ run' = [run EXCEPT !.pc = "check", !.generator = merged, !.sound = FALSE]
        \/ run' = [run EXCEPT !.pc = "check", !.generator = merged, !.blind = merged,
                              !.leak = TRUE]
        \/ run' = [run EXCEPT !.pc = "final review", !.generator = merged, !.blind = merged]
    BY <1>3 DEF Merge
  <2> HIDE DEF merged
  <2>3. verified' \subseteq Items \X (0..2)
    BY <1>3 DEF Inv, RunType
  <2>4. RunType'
    <3>1. "check" \in Steps /\ "final review" \in Steps
      BY DEF Steps, Stages
    <3>2. CASE run' = [run EXCEPT !.pc = "check", !.generator = merged, !.sound = FALSE]
      BY <1>0, <2>1, <2>3, <3>1, <3>2 DEF Inv, RunType
    <3>3. CASE run' = [run EXCEPT !.pc = "check", !.generator = merged, !.blind = merged,
                                  !.leak = TRUE]
      BY <1>0, <2>1, <2>3, <3>1, <3>3 DEF Inv, RunType
    <3>4. CASE run' = [run EXCEPT !.pc = "final review", !.generator = merged,
                                  !.blind = merged]
      BY <1>0, <2>1, <2>3, <3>1, <3>4 DEF Inv, RunType
    <3> QED BY <2>2, <3>2, <3>3, <3>4
  <2>5. /\ run'.generator = merged /\ run'.flagged = run.flagged /\ run'.review = run.review
        /\ run'.solve = None /\ run'.failure = None /\ run'.decision = None /\ ~ run'.gate
    <3>1. CASE run' = [run EXCEPT !.pc = "check", !.generator = merged, !.sound = FALSE]
      BY <1>0, <3>1 DEF Inv, RunType
    <3>2. CASE run' = [run EXCEPT !.pc = "check", !.generator = merged, !.blind = merged,
                                  !.leak = TRUE]
      BY <1>0, <3>2 DEF Inv, RunType
    <3>3. CASE run' = [run EXCEPT !.pc = "final review", !.generator = merged,
                                  !.blind = merged]
      BY <1>0, <3>3 DEF Inv, RunType
    <3> QED BY <2>2, <3>1, <3>2, <3>3
  <2>6. \/ run'.pc = "check" /\ (~ run'.sound \/ run'.leak)
        \/ run'.pc = "final review" /\ run'.sound /\ ~ run'.leak /\ run'.blind = merged
    BY <1>0, <2>2 DEF Inv, RunType
  <2>7. run'.review # None => run'.review.of # merged
    BY <1>0, <2>1, <2>5 DEF Inv, Current, Repairing
  <2>8. InOrder' /\ ShownAsIs'
    BY <2>1, <2>5, <2>6 DEF InOrder, ShownAsIs, Running, Judging, Stages
  <2>9. Current'
    BY <2>5, <2>6, <2>7 DEF Current, Repairing
  <2>10. VerifiedSoFar' /\ GateInOrder'
    <3>1. plan.mode = "v0.2" => Verified'
      BY <1>0, <2>1, <2>5 DEF Verified
    <3> QED BY <1>0, <2>5, <2>6, <3>1 DEF VerifiedSoFar, GateInOrder, Repairing
  <2>11. OnlyFlagged'
    BY <1>0, <2>1, <2>5, <2>6 DEF OnlyFlagged, Repairing
  <2>12. ShippedIsJudged'
    BY <1>0, <2>5 DEF ShippedIsJudged
  <2> QED BY <2>4, <2>8, <2>9, <2>10, <2>11, <2>12 DEF Inv
<1> QED BY <1>1, <1>2, <1>3 DEF VerifyCandidates

LEMMA FinalReviewInv == ASSUME Inv, FinalReview PROVE Inv'
<1> USE NoneApart
<1>0. /\ run.pc = "final review" /\ run.decision = None /\ None # "ACCEPT"
      /\ UNCHANGED <<plan, verified>>
      /\ ~ run.leak /\ run.sound /\ run.solve = None /\ run.failure = None
      /\ run.blind = run.generator /\ run.generator \in Sets
      /\ plan.mode = "v0.2" => Verified
  BY DEF FinalReview, Inv, InOrder, ShownAsIs, VerifiedSoFar, Judging, Decisions, Running,
         Stages
<1>1. PICK review \in Reviews(run.blind), next \in {"solver", "check"}, gate \in BOOLEAN :
        /\ run' = [run EXCEPT !.pc = next, !.review = review, !.gate = gate]
        /\ gate => next = "solver"
  BY DEF FinalReview, QualityPass
<1>2. review \in ReviewRecords /\ review.of = run.generator
  BY <1>0, <1>1, ReviewsType
<1>3. RunType'
  <2>1. next \in Steps
    BY DEF Steps, Stages
  <2> QED BY <1>0, <1>1, <1>2, <2>1 DEF Inv, RunType
<1>4. /\ run'.pc = next /\ run'.review = review /\ run'.flagged = run.flagged
      /\ run'.generator = run.generator /\ run'.blind = run.generator
      /\ run'.sound /\ run'.solve = None /\ run'.failure = None /\ ~ run'.leak
      /\ run'.decision = None
  BY <1>0, <1>1 DEF Inv, RunType
<1>5. InOrder' /\ ShownAsIs' /\ Current'
  BY <1>0, <1>2, <1>4 DEF InOrder, ShownAsIs, Current, Running, Judging, Repairing, Stages
<1>6. VerifiedSoFar' /\ GateInOrder'
  BY <1>0, <1>4 DEF VerifiedSoFar, GateInOrder, Running, Repairing, Stages, Verified
<1>7. OnlyFlagged'
  BY <1>0, <1>4 DEF Inv, OnlyFlagged, Repairing
<1>8. ShippedIsJudged'
  BY <1>0, <1>4 DEF ShippedIsJudged
<1> QED BY <1>3, <1>5, <1>6, <1>7, <1>8 DEF Inv

LEMMA SolveInv == ASSUME Inv, Solve PROVE Inv'
<1> USE NoneApart
<1>0. /\ run.pc = "solver" /\ run.decision = None /\ None # "ACCEPT"
      /\ UNCHANGED <<plan, verified>>
      /\ run.blind = run.generator /\ run.generator \in Sets
  BY DEF Solve, Inv, InOrder, ShownAsIs, Judging, Decisions, Running, Stages
<1>1. PICK solve \in Solutions(run.blind) : run' = [run EXCEPT !.pc = "check", !.solve = solve]
  BY DEF Solve
<1>2. solve \in SolveRecords /\ solve.of = run.generator
  BY <1>0, <1>1, SolutionsType
<1>3. RunType'
  <2>1. "check" \in Steps
    BY DEF Steps
  <2> QED BY <1>0, <1>1, <1>2, <2>1 DEF Inv, RunType
<1>4. /\ run'.pc = "check" /\ run'.solve = solve /\ run'.review = run.review
      /\ run'.generator = run.generator /\ run'.flagged = run.flagged
      /\ run'.gate = run.gate /\ run'.decision = None
  BY <1>0, <1>1 DEF Inv, RunType
<1>5. InOrder' /\ ShownAsIs'
  BY <1>4 DEF InOrder, ShownAsIs, Running, Judging, Stages
<1>6. Current'
  BY <1>0, <1>1, <1>2, <1>4 DEF Inv, Current, InOrder, ShownAsIs, Running, Repairing, Stages
<1>7. VerifiedSoFar' /\ GateInOrder' /\ OnlyFlagged'
  BY <1>0, <1>4 DEF Inv, VerifiedSoFar, GateInOrder, OnlyFlagged, Running, Repairing, Stages,
                    Verified
<1>8. ShippedIsJudged'
  BY <1>0, <1>4 DEF ShippedIsJudged
<1> QED BY <1>3, <1>5, <1>6, <1>7, <1>8 DEF Inv

\* What _decision accepts, at the moment it does.
LEMMA AcceptsTheJudged ==
  ASSUME Inv, run.pc = "check", Accepts
  PROVE  /\ run.generator # None /\ run.failure = None
         /\ Reviewed /\ Solved
         /\ plan.mode = "v0.2" => Verified
         /\ \A i \in Items : run.generator[i] # 0 => i \in run.flagged
<1>1. /\ run.failure = None /\ run.generator \in Sets /\ run.generator # None
      /\ run.review # None => run.review.of = run.generator
      /\ run.solve # None => run.solve.of = run.generator
  BY NoneApart DEF Inv, Current, Accepts
<1>2. Reviewed /\ Solved
  BY <1>1 DEF Accepts, NoDefects, AllAgree, Reviewed, Solved
<1>3. plan.mode = "v0.2" => Verified
  BY DEF Inv, VerifiedSoFar, Accepts
<1>4. \A i \in Items : run.generator[i] # 0 => i \in run.flagged
  BY <1>1 DEF Inv, OnlyFlagged
<1> QED BY <1>1, <1>2, <1>3, <1>4

LEMMA DecideInv == ASSUME Inv, Decide PROVE Inv'
<1> USE NoneApart
<1>1. PICK decision \in Decisions :
        /\ run' = [run EXCEPT !.pc = "provenance", !.decision = decision]
        /\ decision = "ACCEPT" => Accepts
  BY DEF Decide, Decisions
<1>0. run.pc = "check" /\ UNCHANGED <<plan, verified>>
  BY DEF Decide
<1>2. RunType'
  <2>1. "provenance" \in Steps
    BY DEF Steps
  <2> QED BY <1>0, <1>1, <2>1 DEF Inv, RunType
<1>3. /\ run'.pc = "provenance" /\ run'.decision = decision
      /\ run'.generator = run.generator /\ run'.failure = run.failure
      /\ run'.review = run.review /\ run'.solve = run.solve
      /\ run'.flagged = run.flagged /\ run'.gate = run.gate
  BY <1>1 DEF Inv, RunType
<1>4. InOrder' /\ ShownAsIs' /\ Current'
  BY <1>3 DEF InOrder, ShownAsIs, Current, Running, Judging, Repairing, Stages
<1>5. VerifiedSoFar' /\ GateInOrder' /\ OnlyFlagged'
  BY <1>0, <1>3 DEF Inv, VerifiedSoFar, GateInOrder, OnlyFlagged, Running, Repairing, Stages,
                    Verified
<1>6. ShippedIsJudged'
  BY <1>0, <1>1, <1>3, AcceptsTheJudged DEF ShippedIsJudged, Reviewed, Solved, Verified
<1> QED BY <1>2, <1>4, <1>5, <1>6 DEF Inv

LEMMA RecordFailureInv == ASSUME Inv, RecordFailure PROVE Inv'
<1>1. RunType'
  <2>1. "failure result" \in Steps /\ "INFRASTRUCTURE_FAILURE" \in Decisions
    BY DEF Steps, Decisions
  <2> QED BY <2>1 DEF Inv, RunType, RecordFailure
<1>2. /\ run'.pc = "failure result" /\ run'.decision = "INFRASTRUCTURE_FAILURE"
      /\ run'.generator = run.generator /\ run'.flagged = run.flagged /\ run'.gate = run.gate
      /\ UNCHANGED <<plan, verified>>
  BY DEF Inv, RunType, RecordFailure
<1>3. InOrder' /\ ShownAsIs' /\ Current'
  BY <1>2 DEF InOrder, ShownAsIs, Current, Running, Judging, Repairing, Stages
<1>4. VerifiedSoFar' /\ GateInOrder' /\ OnlyFlagged'
  BY <1>2 DEF Inv, VerifiedSoFar, GateInOrder, OnlyFlagged, Running, Repairing, Stages, Verified
<1>5. ShippedIsJudged'
  BY <1>2 DEF ShippedIsJudged
<1> QED BY <1>1, <1>3, <1>4, <1>5 DEF Inv

\* The writes and the ends of the run.
GoesOn ==
  /\ UNCHANGED <<plan, verified>>
  /\ \E step \in Steps \ (Running \cup {"check"}) : run' = [run EXCEPT !.pc = step]

LEMMA WritesGoOn ==
  ASSUME WriteProvenance \/ WriteResult \/ WriteBatchResult \/ Raise
           \/ WriteFailureResult \/ WriteFailureProvenance \/ GiveUpFailure \/ Die
  PROVE  GoesOn
BY DEF WriteProvenance, WriteResult, WriteBatchResult, Raise, WriteFailureResult,
       WriteFailureProvenance, GiveUpFailure, Die, GoesOn, Steps, Stages, Running

LEMMA StutterInv == ASSUME Inv, UNCHANGED vars PROVE Inv'
<1>0. UNCHANGED <<plan, run, verified>>
  BY DEF vars
<1>1. RunType' /\ InOrder' /\ ShownAsIs' /\ Current'
  <2>1. RunType'
    BY <1>0 DEF Inv, RunType
  <2>2. InOrder' /\ ShownAsIs' /\ Current'
    BY <1>0 DEF Inv, InOrder, ShownAsIs, Current
  <2> QED BY <2>1, <2>2
<1>2. VerifiedSoFar' /\ GateInOrder' /\ OnlyFlagged'
  BY <1>0 DEF Inv, VerifiedSoFar, GateInOrder, OnlyFlagged, Verified
<1>3. ShippedIsJudged'
  BY <1>0 DEF Inv, ShippedIsJudged, Reviewed, Solved, Verified
<1> QED BY <1>1, <1>2, <1>3 DEF Inv

LEMMA StepInv == ASSUME Inv, [Next]_vars PROVE Inv'
<1>1. CASE GoesOn
  BY <1>1, MovesOn DEF GoesOn
<1>2. CASE ~ GoesOn
  BY <1>2, FailInv, GenerateInv, VerifyInv, BlindInputInv, ReviewInv, RepairInv,
     VerifyCandidatesInv, FinalReviewInv, SolveInv, DecideInv, RecordFailureInv, WritesGoOn,
     StutterInv DEF Next
<1> QED BY <1>1, <1>2

THEOREM ReadingInv == Spec => []Inv
BY InitInv, StepInv, PTL DEF Spec

-----------------------------------------------------------------------------
(* What follows from it. *)

\* ShippedIsJudged for any number of questions: an accepted passage ships the
\* very questions one review and one solution agreed on, its INFERENCE
\* questions passed by a verifier in the version that ships.
THEOREM AcceptedIsJudged == Spec => []ShippedIsJudged
<1>1. Inv => ShippedIsJudged
  BY DEF Inv
<1> QED BY <1>1, ReadingInv, PTL

-----------------------------------------------------------------------------
(* The files. *)

Judged == Reviewed /\ Solved /\ Verified

LoadsThisRun == load_reading_source /\ disk.result.run = 1

DiskType ==
  /\ disk \in [generator : Files \cup {None}, provenance : {0, 1, None},
               result : Results \cup {None}]
  /\ batch \in Decisions \cup {None}

\* Beside ShippedIsJudged: a result of this run that says ACCEPT is of the
\* questions held, and by then nothing replaces them any more.
FilesInOrder ==
  /\ plan.mode # "v0.1" /\ run.generator # None =>
       disk.generator = Written(1, run.generator)
  /\ plan.mode # "v0.1" /\ run.pc \in {"result", "rewrite"} => disk.provenance = 1
  /\ run.pc \in {"provenance", "result", "rewrite"} => run.decision \in Decisions
  /\ run.decision = "ACCEPT" =>
       plan.mode # "draft" /\ run.pc \notin {"failure result", "failure provenance"}
  /\ disk.result # None /\ disk.result.run = 0 => disk.result = EarlierRun.result
  /\ /\ plan.mode # "v0.1" /\ disk.result # None
     /\ disk.result.run = 1 /\ disk.result.decision = "ACCEPT"
     => /\ run.pc \notin Running \cup {"check"} /\ run.generator # None
        /\ Judged /\ disk.result.made = Written(1, run.generator)
  /\ run.pc = "report" /\ run.decision = "ACCEPT" => LoadsThisRun
  /\ batch = "ACCEPT" => run.pc = "ended" /\ LoadsThisRun

DiskInv == DiskType /\ FilesInOrder

LEMMA WrittenType ==
  ASSUME NEW number \in {0, 1}, NEW set \in Sets
  PROVE  Written(number, set) \in Files
BY DEF Written, Files

LEMMA InitDisk == Init => DiskInv
<1> SUFFICES ASSUME Init PROVE DiskInv
  OBVIOUS
<1>1. [i \in Items |-> 0] \in Sets
  BY DEF Sets
<1>2. EarlierRun \in [generator : Files, provenance : {0}, result : Results]
  <2>1. Written(0, [i \in Items |-> 0]) \in Files
    BY <1>1, WrittenType
  <2> QED BY <2>1 DEF EarlierRun, Results, Decisions
<1>3. DiskType
  BY <1>2 DEF Init, DiskType, EmptyDirectory
<1>4. disk.result # None => disk.result = EarlierRun.result /\ disk.result.run = 0
  BY DEF Init, EmptyDirectory, EarlierRun
<1>5. run.generator = None /\ run.pc = "generator" /\ run.decision = None /\ batch = None
  BY DEF Init
<1>6. FilesInOrder
  BY <1>4, <1>5, NoneApart DEF FilesInOrder, Decisions
<1> QED BY <1>3, <1>6 DEF DiskInv

\* A stage writes generator.json with the set it puts in, and nothing else.
StageEffect ==
  /\ run.pc \in Running /\ run'.pc \in Running \cup {"check"}
  /\ run'.decision = None
  /\ UNCHANGED <<plan, batch>>
  /\ \/ UNCHANGED disk /\ run'.generator = run.generator
     \/ /\ run'.generator \in Sets
        /\ disk' = disk \/ disk' = [disk EXCEPT !.generator = Written(1, run'.generator)]
        /\ plan.mode # "v0.1" =>
             disk' = [disk EXCEPT !.generator = Written(1, run'.generator)]

LEMMA StagesKeepFiles == ASSUME Inv, DiskInv, StageEffect PROVE DiskInv'
<1>1. /\ disk'.provenance = disk.provenance /\ disk'.result = disk.result
      /\ disk'.generator \in {disk.generator, Written(1, run'.generator)}
      /\ plan.mode # "v0.1" /\ run'.generator # None =>
           disk'.generator = Written(1, run'.generator)
  <2>1. CASE UNCHANGED disk /\ run'.generator = run.generator
    BY <2>1 DEF DiskInv, FilesInOrder, StageEffect
  <2>2. CASE disk' = [disk EXCEPT !.generator = Written(1, run'.generator)]
    BY <2>2 DEF DiskInv, DiskType
  <2>3. CASE disk' = disk /\ plan.mode = "v0.1"
    BY <2>3
  <2> QED BY <2>1, <2>2, <2>3 DEF StageEffect
<1>2. DiskType'
  BY <1>1, WrittenType DEF DiskInv, DiskType, StageEffect
<1>3. plan' = plan /\ run'.decision # "ACCEPT" /\ batch' # "ACCEPT"
  BY NoneApart DEF StageEffect, DiskInv, FilesInOrder, Decisions, Running, Stages
<1>4. plan.mode # "v0.1" /\ disk.result # None =>
        ~ (disk.result.run = 1 /\ disk.result.decision = "ACCEPT")
  BY DEF StageEffect, DiskInv, FilesInOrder
<1>5. run'.pc \notin {"provenance", "result", "rewrite", "report"}
  BY DEF StageEffect, Running, Stages
<1>6. FilesInOrder'
  BY <1>1, <1>3, <1>4, <1>5 DEF FilesInOrder, DiskInv
<1> QED BY <1>2, <1>6 DEF DiskInv

LEMMA StagesHaveEffect ==
  ASSUME Inv, Fail \/ Generate \/ Verify \/ BlindInput \/ Review \/ Repair
                \/ VerifyCandidates \/ FinalReview \/ Solve
  PROVE  StageEffect
<1>1. run.pc \in Running /\ run.decision = None
  BY DEF Inv, InOrder, Fail, Generate, Verify, BlindInput, Review, Repair, VerifyCandidates,
         FinalReview, Solve, Running, Stages
<1>2. CASE Fail \/ Verify \/ BlindInput \/ Repair \/ FinalReview \/ Solve
  <2>1. UNCHANGED <<plan, disk, batch>>
    BY <1>2 DEF Fail, Verify, BlindInput, Repair, FinalReview, Solve
  <2>2. run'.generator = run.generator /\ run'.decision = run.decision
    BY <1>2 DEF Fail, Verify, BlindInput, Repair, FinalReview, Solve, Inv, RunType, StopHere
  <2>3. run'.pc \in Running \cup {"check"}
    BY <1>2 DEF Fail, Verify, BlindInput, Repair, FinalReview, Solve, Inv, RunType, StopHere,
                Running, Stages
  <2> QED BY <1>1, <2>1, <2>2, <2>3 DEF StageEffect
<1>3. CASE Review
  <2>1. UNCHANGED <<plan, disk, batch>>
    BY <1>3 DEF Review
  <2>3. /\ run'.generator = run.generator /\ run'.decision = run.decision
        /\ run'.pc \in {"solver", "check", "repair"}
    BY <1>3 DEF Review, Inv, RunType
  <2> QED BY <1>1, <2>1, <2>3 DEF StageEffect, Running, Stages
<1>4. CASE Generate
  <2>1. CASE NotBound
    BY <1>1, <1>4, <2>1 DEF NotBound, StopHere, Generate, Inv, RunType, StageEffect
  <2>2. CASE Bound
    <3>2. /\ run'.generator = Original /\ run'.decision = run.decision
          /\ run'.pc \in {"check", "verifier", "blind"}
      BY <2>2 DEF Bound, Original, Inv, RunType
    <3>3. disk' = IF plan.mode = "v0.1" THEN disk
                  ELSE [disk EXCEPT !.generator = Written(1, Original)]
      BY <2>2 DEF Bound, Original
    <3> QED BY <1>1, <1>4, <3>2, <3>3, OriginalIsASet
            DEF Generate, StageEffect, Running, Stages
  <2> QED BY <1>4, <2>1, <2>2 DEF Generate
<1>5. CASE VerifyCandidates
  <2>1. UNCHANGED <<plan, batch>> /\ run.pc = "candidate verifier"
    BY <1>5 DEF VerifyCandidates
  <2>2. CASE run' = StopHere /\ UNCHANGED disk
    BY <1>1, <2>1, <2>2 DEF StopHere, Inv, RunType, StageEffect
  <2>3. ASSUME NEW rank \in CandidateJudgments,
               \A i \in run.flagged : Eligible(rank, i) # {}, Merge(rank)
        PROVE  StageEffect
    <3> DEFINE merged == [i \in Items |-> IF i \in run.flagged THEN Selected(rank, i)
                                          ELSE run.generator[i]]
    <3>1. merged \in Sets
      <4>1. merged = [i \in Items |-> IF i \in run.flagged THEN Selected(rank, i)
                                     ELSE run.generator[i]]
        OBVIOUS
      <4> HIDE DEF merged
      <4> QED BY ONLY Inv, <2>1, <2>3, <4>1, MergedIsVerified
    <3>2. disk' = [disk EXCEPT !.generator = Written(1, merged)]
      BY <2>3 DEF Merge
    <3>3. \/ run' = [run EXCEPT !.pc = "check", !.generator = merged, !.sound = FALSE]
          \/ run' = [run EXCEPT !.pc = "check", !.generator = merged, !.blind = merged,
                                !.leak = TRUE]
          \/ run' = [run EXCEPT !.pc = "final review", !.generator = merged, !.blind = merged]
      BY <2>3 DEF Merge
    <3> HIDE DEF merged
    <3>4. /\ run'.generator = merged /\ run'.decision = run.decision
          /\ run'.pc \in {"check", "final review"}
      BY <3>3 DEF Inv, RunType
    <3> QED BY <1>1, <2>1, <3>1, <3>2, <3>4 DEF StageEffect, Running, Stages
  <2> QED BY <1>5, <2>2, <2>3 DEF VerifyCandidates
<1> QED BY <1>2, <1>3, <1>4, <1>5

\* Past the stages nothing that was judged changes.
Settled ==
  /\ run'.generator = run.generator /\ run'.review = run.review /\ run'.solve = run.solve
  /\ UNCHANGED <<plan, verified>>

LEMMA SettledKeepsJudged == ASSUME Settled, Judged PROVE Judged'
BY DEF Settled, Judged, Reviewed, Solved, Verified

LEMMA PlanStays == ASSUME [Next]_vars PROVE plan' = plan
BY DEF Next, vars, Fail, Generate, Verify, BlindInput, Review, Repair, VerifyCandidates,
       FinalReview, Solve, Decide, WriteProvenance, WriteResult, WriteBatchResult, Raise,
       RecordFailure, WriteFailureResult, WriteFailureProvenance, GiveUpFailure, Die

\* Past the stages and the decision there is no way back to them.
LEMMA PastIsSettled ==
  ASSUME Inv, [Next]_vars, run.pc \in Steps \ (Running \cup {"check"})
  PROVE  Settled /\ run'.pc \in Steps \ (Running \cup {"check"})
<1>1. CASE UNCHANGED vars
  BY <1>1 DEF vars, Settled
<1>2. CASE Next
  <2>1. \/ WriteProvenance \/ WriteResult \/ WriteBatchResult \/ Raise \/ RecordFailure
        \/ WriteFailureResult \/ WriteFailureProvenance \/ GiveUpFailure \/ Die
    BY <1>2 DEF Next, Fail, Generate, Verify, BlindInput, Review, Repair, VerifyCandidates,
       FinalReview, Solve, Decide, Running, Stages
  <2>2. PICK step \in Steps \ (Running \cup {"check"}), decision \in Decisions \cup {None} :
          run' = [run EXCEPT !.pc = step, !.decision = decision]
    <3>1. PICK step \in Steps \ (Running \cup {"check"}) :
            \/ run' = [run EXCEPT !.pc = step]
            \/ run' = [run EXCEPT !.pc = step, !.decision = "INFRASTRUCTURE_FAILURE"]
      BY <2>1 DEF WriteProvenance, WriteResult, WriteBatchResult, Raise, RecordFailure,
         WriteFailureResult, WriteFailureProvenance, GiveUpFailure, Die, Steps, Running, Stages
    <3>2. /\ [run EXCEPT !.pc = step] = [run EXCEPT !.pc = step, !.decision = run.decision]
          /\ run.decision \in Decisions \cup {None}
      BY DEF Inv, RunType
    <3> QED BY <3>1, <3>2 DEF Decisions
  <2>3. UNCHANGED <<plan, verified>>
    BY <2>1 DEF WriteProvenance, WriteResult, WriteBatchResult, Raise, RecordFailure,
       WriteFailureResult, WriteFailureProvenance, GiveUpFailure, Die
  <2> QED BY <2>2, <2>3 DEF Settled, Inv, RunType
<1> QED BY <1>1, <1>2

\* A step past the stages that leaves disk and decision alone.
LEMMA FilesUntouched ==
  ASSUME Inv, DiskInv, Settled, run'.pc \notin Running \cup {"check"}, UNCHANGED disk,
         run'.decision = "ACCEPT" => plan.mode # "draft",
         run'.decision = "ACCEPT" => run'.pc \notin {"failure result", "failure provenance"},
         run'.pc \in {"result", "rewrite"} => run.pc \in {"result", "rewrite"},
         run'.pc \in {"provenance", "result", "rewrite"} => run'.decision \in Decisions,
         run'.pc = "report" /\ run'.decision = "ACCEPT" => LoadsThisRun,
         \/ UNCHANGED batch /\ (batch = "ACCEPT" => run'.pc = "ended")
         \/ batch' \in Decisions \cup {None} /\ run'.pc = "ended"
              /\ (batch' = "ACCEPT" => LoadsThisRun)
  PROVE  DiskInv'
<1>1. DiskType'
  BY DEF DiskInv, DiskType
<1>2. LoadsThisRun => LoadsThisRun'
  BY DEF LoadsThisRun, load_reading_source, Settled
<1>3. FilesInOrder'
  BY <1>2, SettledKeepsJudged DEF DiskInv, FilesInOrder, Settled
<1> QED BY <1>1, <1>3 DEF DiskInv

LEMMA DecideFiles == ASSUME Inv, DiskInv, Decide PROVE DiskInv'
<1>1. /\ run.pc = "check" /\ UNCHANGED <<plan, verified, disk, batch>>
      /\ run'.pc = "provenance" /\ Settled
      /\ run'.decision = "ACCEPT" => plan.mode # "draft"
      /\ run'.decision \in Decisions
  BY DEF Decide, Inv, RunType, Settled, Decisions
<1>2. batch # "ACCEPT"
  BY <1>1 DEF DiskInv, FilesInOrder
<1> QED BY <1>1, <1>2, FilesUntouched DEF Running, Stages

LEMMA WriteProvenanceFiles == ASSUME Inv, DiskInv, WriteProvenance PROVE DiskInv'
<1>1. /\ run.pc = "provenance" /\ UNCHANGED <<plan, verified, batch>>
      /\ run'.pc = "result" /\ run'.decision = run.decision /\ Settled
  BY DEF WriteProvenance, Inv, RunType, Settled
<1>2. /\ disk'.generator = disk.generator /\ disk'.result = disk.result
      /\ plan.mode # "v0.1" => disk'.provenance = 1
      /\ disk'.provenance \in {0, 1, None}
  BY DEF WriteProvenance, DiskInv, DiskType
<1>3. DiskType'
  BY <1>1 DEF WriteProvenance, DiskInv, DiskType
<1>4. batch # "ACCEPT"
  BY <1>1 DEF DiskInv, FilesInOrder
<1>5. FilesInOrder'
  BY <1>1, <1>2, <1>4, SettledKeepsJudged DEF DiskInv, FilesInOrder, Settled, Running, Stages
<1> QED BY <1>3, <1>5 DEF DiskInv

LEMMA ResultType == ASSUME Inv, run.decision \in Decisions PROVE Result \in Results
BY WrittenType DEF Result, Results, Inv, RunType

LEMMA WriteResultFiles == ASSUME Inv, DiskInv, WriteResult PROVE DiskInv'
<1>0. run.decision \in Decisions
  BY DEF WriteResult, DiskInv, FilesInOrder
<1>1. /\ run.pc \in {"result", "rewrite"} /\ UNCHANGED <<plan, verified, batch>>
      /\ run'.pc \in {"ended", "rewrite", "report"}
      /\ run'.decision = run.decision /\ Settled
      /\ run'.pc # "ended" => plan.mode # "v0.1"
  BY DEF WriteResult, Inv, RunType, Settled
<1>2. /\ disk'.generator = disk.generator /\ disk'.result = Result
      /\ disk'.provenance = disk.provenance
  BY DEF WriteResult, DiskInv, DiskType
<1>3. DiskType'
  BY <1>0, <1>1, <1>2, ResultType DEF WriteResult, DiskInv, DiskType
<1>4. /\ Result.run = 1 /\ Result.decision = run.decision
      /\ run.generator # None => Result.made = Written(1, run.generator)
      /\ Result # None
  BY <1>0, ResultType, ReadingAssumption DEF Result
<1>5. batch # "ACCEPT"
  BY <1>1 DEF DiskInv, FilesInOrder
<1>6. ASSUME run.decision = "ACCEPT", plan.mode # "v0.1"
      PROVE  /\ run.generator # None /\ Judged
             /\ LoadsThisRun'
  <2>1. /\ run.generator \in Sets /\ run.generator # None /\ Reviewed /\ Solved
        /\ plan.mode = "v0.2" => Verified
    BY <1>6 DEF Inv, ShippedIsJudged, RunType
  <2>2. plan.mode = "v0.2"
    BY <1>6 DEF DiskInv, FilesInOrder, Inv, RunType
  <2>3. disk'.generator = Written(1, run.generator) /\ disk'.generator # None
    BY <1>2, <1>6, <2>1, WrittenType, ReadingAssumption DEF DiskInv, FilesInOrder
  <2>4. disk'.provenance = 1
    BY <1>1, <1>2, <1>6 DEF DiskInv, FilesInOrder
  <2> QED BY <1>1, <1>2, <1>4, <1>6, <2>1, <2>2, <2>3, <2>4
          DEF Judged, LoadsThisRun, load_reading_source
<1>7. FilesInOrder'
  <2>1. /\ disk'.result # None /\ disk'.result.run = 0 => disk'.result = EarlierRun.result
        /\ /\ plan'.mode # "v0.1" /\ disk'.result # None
           /\ disk'.result.run = 1 /\ disk'.result.decision = "ACCEPT"
           => /\ run'.pc \notin Running \cup {"check"} /\ run'.generator # None
              /\ Judged' /\ disk'.result.made = Written(1, run'.generator)
    <3>1. disk'.result.run = 1 /\ disk'.result.decision = run.decision
      BY <1>2, <1>4
    <3>2. ASSUME plan'.mode # "v0.1", disk'.result.decision = "ACCEPT"
          PROVE  /\ run'.generator # None /\ Judged'
                 /\ disk'.result.made = Written(1, run'.generator)
      <4>1. run.decision = "ACCEPT" /\ plan.mode # "v0.1" /\ run'.generator = run.generator
        BY <1>1, <3>1, <3>2 DEF Settled
      <4>2. run.generator # None /\ Judged
        BY <1>6, <4>1
      <4> QED BY <1>1, <1>2, <1>4, <4>1, <4>2, SettledKeepsJudged
    <3>3. run'.pc \notin Running \cup {"check"}
      BY <1>1 DEF Running, Stages
    <3> QED BY <3>1, <3>2, <3>3
  <2>2. run'.pc = "report" /\ run'.decision = "ACCEPT" => LoadsThisRun'
    BY <1>1, <1>6
  <2> QED BY <1>0, <1>1, <1>2, <1>5, <2>1, <2>2 DEF DiskInv, FilesInOrder, Settled
<1> QED BY <1>3, <1>7 DEF DiskInv

LEMMA WriteFailureFiles ==
  ASSUME Inv, DiskInv, WriteFailureResult \/ WriteFailureProvenance
  PROVE  DiskInv'
<1>1. /\ run.pc \in {"failure result", "failure provenance"}
      /\ UNCHANGED <<plan, verified, batch>>
      /\ run'.pc \in {"failure provenance", "report"}
      /\ run'.decision = run.decision /\ Settled
  BY DEF WriteFailureResult, WriteFailureProvenance, Inv, RunType, Settled
<1>2. run.decision # "ACCEPT" /\ batch # "ACCEPT"
  BY <1>1 DEF DiskInv, FilesInOrder
<1>3. /\ disk'.generator = disk.generator
      /\ \/ disk'.result = disk.result
         \/ /\ disk'.result \in Results /\ disk'.result.run = 1
            /\ disk'.result.decision # "ACCEPT"
      /\ DiskType'
  <2>1. CASE WriteFailureResult
    <3> DEFINE failed == [made |-> None, run |-> 1, decision |-> "INFRASTRUCTURE_FAILURE"]
    <3>1. failed \in Results /\ failed.run = 1 /\ failed.decision # "ACCEPT"
      BY DEF Results, Decisions
    <3>2. disk' = [disk EXCEPT !.result = failed]
      BY <2>1 DEF WriteFailureResult
    <3> HIDE DEF failed
    <3> QED BY <1>1, <3>1, <3>2 DEF DiskInv, DiskType
  <2>2. CASE WriteFailureProvenance
    BY <1>1, <2>2 DEF WriteFailureProvenance, DiskInv, DiskType
  <2> QED BY <2>1, <2>2
<1>5. FilesInOrder'
  <2>1. /\ disk'.result # None /\ disk'.result.run = 0 => disk'.result = EarlierRun.result
        /\ /\ plan'.mode # "v0.1" /\ disk'.result # None
           /\ disk'.result.run = 1 /\ disk'.result.decision = "ACCEPT"
           => /\ run'.pc \notin Running \cup {"check"} /\ run'.generator # None
              /\ Judged' /\ disk'.result.made = Written(1, run'.generator)
    <3>1. CASE disk'.result = disk.result
      <4>1. run'.pc \notin Running \cup {"check"}
        BY <1>1 DEF Running, Stages
      <4> QED BY <1>1, <3>1, <4>1, SettledKeepsJudged DEF DiskInv, FilesInOrder, Settled
    <3>2. CASE disk'.result.run = 1 /\ disk'.result.decision # "ACCEPT"
      BY <3>2
    <3> QED BY <1>3, <3>1, <3>2
  <2> QED BY <1>1, <1>2, <1>3, <2>1 DEF DiskInv, FilesInOrder, Settled
<1> QED BY <1>3, <1>5 DEF DiskInv

LEMMA OthersKeepFiles ==
  ASSUME Inv, DiskInv, WriteBatchResult \/ Raise \/ RecordFailure \/ GiveUpFailure \/ Die
  PROVE  DiskInv'
<1>1. Settled /\ UNCHANGED disk
  BY DEF WriteBatchResult, Raise, RecordFailure, GiveUpFailure, Die, Inv, RunType, Settled
<1>2. run.decision = "ACCEPT" => plan.mode # "draft"
  BY DEF DiskInv, FilesInOrder
<1>3. batch = "ACCEPT" => run.pc = "ended" /\ LoadsThisRun
  BY DEF DiskInv, FilesInOrder
<1>4. CASE WriteBatchResult
  <2>1. /\ run.pc = "report" /\ run'.pc = "ended" /\ run'.decision = run.decision
        /\ batch' = run.decision /\ run.decision \in Decisions \cup {None}
    BY <1>4 DEF WriteBatchResult, Inv, RunType
  <2>2. run.decision = "ACCEPT" => LoadsThisRun
    BY <2>1 DEF DiskInv, FilesInOrder
  <2> QED BY <1>1, <1>2, <2>1, <2>2, FilesUntouched DEF Running, Stages
<1>5. CASE Raise
  <2>1. /\ run'.pc \in {"ended", "failure"} /\ run'.decision = run.decision
        /\ UNCHANGED batch /\ run.pc # "ended"
    BY <1>5 DEF Raise, Inv, RunType
  <2> QED BY <1>1, <1>2, <1>3, <2>1, FilesUntouched DEF Running, Stages
<1>6. CASE RecordFailure
  <2>1. /\ run'.pc = "failure result" /\ run'.decision = "INFRASTRUCTURE_FAILURE"
        /\ UNCHANGED batch /\ run.pc # "ended"
    BY <1>6 DEF RecordFailure, Inv, RunType
  <2> QED BY <1>1, <1>3, <2>1, FilesUntouched DEF Running, Stages
<1>7. CASE GiveUpFailure
  <2>1. /\ run'.pc = "report" /\ run'.decision = run.decision
        /\ UNCHANGED batch /\ run.pc \in {"failure result", "failure provenance"}
    BY <1>7 DEF GiveUpFailure, Inv, RunType
  <2>2. run.decision # "ACCEPT"
    BY <2>1 DEF DiskInv, FilesInOrder
  <2> QED BY <1>1, <1>3, <2>1, <2>2, FilesUntouched DEF Running, Stages
<1>8. CASE Die
  <2>1. /\ run'.pc = "ended" /\ run'.decision = run.decision
        /\ UNCHANGED batch /\ run.pc # "ended"
    BY <1>8 DEF Die, Inv, RunType
  <2> QED BY <1>1, <1>2, <1>3, <2>1, FilesUntouched DEF Running, Stages
<1> QED BY <1>4, <1>5, <1>6, <1>7, <1>8

LEMMA StutterFiles == ASSUME DiskInv, UNCHANGED vars PROVE DiskInv'
<1>1. UNCHANGED <<plan, run, verified, disk, batch>>
  BY DEF vars
<1>2. DiskType'
  BY <1>1 DEF DiskInv, DiskType
<1>3. (LoadsThisRun => LoadsThisRun') /\ (Judged => Judged')
  BY <1>1 DEF LoadsThisRun, load_reading_source, Judged, Reviewed, Solved, Verified
<1>4. FilesInOrder'
  BY <1>1, <1>3 DEF DiskInv, FilesInOrder
<1> QED BY <1>2, <1>4 DEF DiskInv

LEMMA StepDisk == ASSUME Inv, DiskInv, [Next]_vars PROVE DiskInv'
BY StagesHaveEffect, StagesKeepFiles, DecideFiles, WriteProvenanceFiles, WriteResultFiles,
   WriteFailureFiles, OthersKeepFiles, StutterFiles DEF Next

THEOREM FilesInv == Spec => [](Inv /\ DiskInv)
<1>1. Init => Inv /\ DiskInv
  BY InitInv, InitDisk
<1>2. Inv /\ DiskInv /\ [Next]_vars => (Inv /\ DiskInv)'
  BY StepInv, StepDisk
<1> QED BY <1>1, <1>2, PTL DEF Spec

\* Type correctness of the pipeline, its files and the batch's verdict.
THEOREM ReadingType == Spec => []TypeOK
<1>1. Inv /\ DiskInv => TypeOK
  BY DEF Inv, RunType, DiskInv, DiskType, TypeOK
<1> QED BY <1>1, FilesInv, PTL

\* AcceptIsWhole for any number of questions: whatever raised or died, a
\* directory load_reading_source takes holds one run's accepted passage, and
\* what the batch reports as accepted can be loaded.
THEOREM OnlyWholeLoads == Spec => []AcceptIsWhole
<1>1. Inv /\ DiskInv => AcceptIsWhole
  <2> SUFFICES ASSUME Inv, DiskInv PROVE AcceptIsWhole
    OBVIOUS
  <2>1. batch = "ACCEPT" => load_reading_source /\ disk.result.run = 1
    BY DEF DiskInv, FilesInOrder, LoadsThisRun
  <2>2. ASSUME load_reading_source
        PROVE  \/ disk = EarlierRun
               \/ /\ disk.generator = Written(1, run.generator)
                  /\ Reviewed /\ Solved /\ Verified
    <3>1. disk.result \in Results
      BY <2>2 DEF DiskInv, DiskType, load_reading_source
    <3>2. CASE disk.result.run = 1
      BY <2>2, <3>2 DEF DiskInv, FilesInOrder, Judged, load_reading_source
    <3>3. CASE disk.result.run = 0
      <4>1. disk.result = EarlierRun.result
        BY <2>2, <3>3 DEF DiskInv, FilesInOrder, load_reading_source
      <4>2. disk.generator = EarlierRun.generator /\ disk.provenance = EarlierRun.provenance
        BY <2>2, <3>3, <4>1 DEF load_reading_source, EarlierRun
      <4> QED BY <4>1, <4>2 DEF DiskInv, DiskType, EarlierRun
    <3> QED BY <3>1, <3>2, <3>3 DEF Results
  <2> QED BY <2>1, <2>2 DEF AcceptIsWhole
<1> QED BY <1>1, FilesInv, PTL

-----------------------------------------------------------------------------
(* The pipeline implements JudgedSet. *)

Outcome == IF run.decision = None THEN "none" ELSE run.decision

LEMMA OutcomeOf ==
  ASSUME Inv
  PROVE  /\ run.decision = None <=> Outcome = "none"
         /\ run.decision = "ACCEPT" <=> Outcome = "ACCEPT"
BY NoneApart DEF Inv, RunType, Outcome, Decisions

LEMMA ApprovalsNeeded == Approvals \subseteq Needed
BY DEF Approvals

\* The three ways a step of the pipeline looks from JudgedSet.
LEMMA LooksLikeNothing ==
  ASSUME Settled, run'.decision = run.decision
  PROVE  UNCHANGED <<Needed, run.generator, Approvals, Outcome>>
BY DEF Settled, Needed, Approvals, Outcome, Reviewed, Solved, Verified

LEMMA LooksLikeApprove ==
  ASSUME UNCHANGED plan, run'.generator = run.generator, run'.decision = run.decision,
         verified \subseteq verified',
         run'.review = run.review \/ ~ Reviewed,
         run'.solve = run.solve \/ ~ Solved
  PROVE  Promise!Approve
<1>1. Needed' = Needed /\ Outcome' = Outcome
  BY DEF Needed, Outcome
<1>2. (Reviewed => Reviewed') /\ (Solved => Solved') /\ (Verified => Verified')
  BY DEF Reviewed, Solved, Verified
<1>3. Approvals \subseteq Approvals'
  BY <1>1, <1>2 DEF Approvals
<1>4. Approvals' \subseteq Needed
  BY <1>1, ApprovalsNeeded DEF Approvals
<1> QED BY <1>1, <1>3, <1>4 DEF Promise!Approve, Outcome

LEMMA LooksLikeMake ==
  ASSUME Inv, UNCHANGED plan, run'.generator # run.generator,
         run.decision = None, run'.decision = None, ~ Reviewed', ~ Solved'
  PROVE  Promise!Make
<1>1. Needed' = Needed /\ Outcome = "none" /\ Outcome' = "none"
  BY DEF Needed, Outcome
<1>2. Approvals' \subseteq {"verifier"}
  BY DEF Approvals, Needed
<1> QED BY <1>1, <1>2 DEF Promise!Make, Outcome

LEMMA LooksLikeDecide ==
  ASSUME Inv, Settled, run'.decision \in Decisions, run'.decision # run.decision,
         run'.decision = "ACCEPT" => run.decision = None /\ run.pc = "check" /\ Accepts
  PROVE  Promise!Decide
<1>1. UNCHANGED <<Needed, run.generator, Approvals>>
  BY DEF Settled, Needed, Approvals, Reviewed, Solved, Verified
<1>2. Outcome' = run'.decision /\ Outcome' # "none" /\ Outcome' # Outcome
  BY NoneApart DEF Outcome, Decisions
<1>3. run'.decision = "ACCEPT" => Outcome = "none" /\ Approvals = Needed
  BY AcceptsTheJudged DEF Outcome, Approvals, Needed
<1> QED BY <1>1, <1>2, <1>3 DEF Promise!Decide, Outcome

LEMMA StageLooks ==
  ASSUME Inv, Verify \/ BlindInput \/ Review \/ Repair \/ FinalReview \/ Solve \/ Fail
  PROVE  Promise!Approve
<1>1. UNCHANGED plan /\ verified \subseteq verified'
  BY DEF Verify, BlindInput, Review, Repair, FinalReview, Solve, Fail
<1>2. run'.generator = run.generator /\ run'.decision = run.decision
  BY DEF Verify, BlindInput, Review, Repair, FinalReview, Solve, Fail, StopHere, Inv, RunType
<1>3. run'.review = run.review \/ ~ Reviewed
  <2>1. CASE Review
    BY <2>1 DEF Review, Inv, InOrder, Reviewed
  <2>2. CASE FinalReview
    BY <2>2 DEF FinalReview, Inv, Current, Reviewed
  <2>3. CASE Verify \/ BlindInput \/ Repair \/ Solve \/ Fail
    BY <2>3 DEF Verify, BlindInput, Repair, Solve, Fail, StopHere, Inv, RunType
  <2> QED BY <2>1, <2>2, <2>3
<1>4. run'.solve = run.solve \/ ~ Solved
  <2>1. CASE Solve
    BY <2>1 DEF Solve, Inv, InOrder, Solved, Running, Stages
  <2>2. CASE Verify \/ BlindInput \/ Review \/ Repair \/ FinalReview \/ Fail
    BY <2>2 DEF Verify, BlindInput, Review, Repair, FinalReview, Fail, StopHere, Inv, RunType
  <2> QED BY <2>1, <2>2
<1> QED BY <1>1, <1>2, <1>3, <1>4, LooksLikeApprove

LEMMA GenerateLooks == ASSUME Inv, Generate PROVE Promise!Make \/ Promise!Approve
<1>1. UNCHANGED <<plan, verified>> /\ run.generator = None /\ run.decision = None
      /\ run.review = None /\ run.solve = None
  BY DEF Generate, Inv, InOrder, Running, Stages
<1>2. CASE NotBound
  <2>1. /\ run'.generator = run.generator /\ run'.decision = run.decision
        /\ run'.review = run.review /\ run'.solve = run.solve
    BY <1>2 DEF NotBound, StopHere, Inv, RunType
  <2> QED BY <1>1, <2>1, LooksLikeApprove
<1>3. CASE Bound
  <2>1. /\ run'.generator = Original /\ run'.decision = None
        /\ run'.review = None /\ run'.solve = None
    BY <1>1, <1>3 DEF Bound, Original, Inv, RunType
  <2>2. ~ Reviewed' /\ ~ Solved'
    BY <2>1 DEF Reviewed, Solved
  <2> QED BY <1>1, <2>1, <2>2, OriginalIsASet, LooksLikeMake
<1> QED BY <1>2, <1>3 DEF Generate

\* The merge makes another set, of which no review is held.
LEMMA MergeLooks == ASSUME Inv, VerifyCandidates PROVE Promise!Make \/ Promise!Approve
<1>1. /\ UNCHANGED plan /\ run.pc = "candidate verifier" /\ verified \subseteq verified'
      /\ run.decision = None /\ run.solve = None /\ run.generator = Original
      /\ run.failure = None /\ run.sound /\ ~ run.leak
  BY DEF VerifyCandidates, Inv, InOrder, ShownAsIs, OnlyFlagged, Repairing, Running, Stages
<1>2. CASE run' = StopHere
  <2>1. /\ run'.generator = run.generator /\ run'.decision = run.decision
        /\ run'.review = run.review /\ run'.solve = run.solve
    BY <1>2 DEF StopHere, Inv, RunType
  <2> QED BY <1>1, <2>1, LooksLikeApprove
<1>3. ASSUME NEW rank \in CandidateJudgments,
             \A i \in run.flagged : Eligible(rank, i) # {}, Merge(rank)
      PROVE  Promise!Make
  <2> DEFINE merged == [i \in Items |-> IF i \in run.flagged THEN Selected(rank, i)
                                        ELSE run.generator[i]]
  <2>1. merged # Original
    <3>1. merged = [i \in Items |-> IF i \in run.flagged THEN Selected(rank, i)
                                   ELSE run.generator[i]]
      OBVIOUS
    <3> HIDE DEF merged
    <3> QED BY ONLY Inv, <1>1, <1>3, <3>1, MergedIsVerified
  <2>2. \/ run' = [run EXCEPT !.pc = "check", !.generator = merged, !.sound = FALSE]
        \/ run' = [run EXCEPT !.pc = "check", !.generator = merged, !.blind = merged,
                              !.leak = TRUE]
        \/ run' = [run EXCEPT !.pc = "final review", !.generator = merged, !.blind = merged]
    BY <1>3 DEF Merge
  <2> HIDE DEF merged
  <2>3. /\ run'.generator = merged /\ run'.decision = None
        /\ run'.review = run.review /\ run'.solve = None
    BY <1>1, <2>2 DEF Inv, RunType
  <2>4. run.review # None => run.review.of = Original
    BY <1>1 DEF Inv, Current, Repairing
  <2>5. ~ Reviewed' /\ ~ Solved'
    BY <2>1, <2>3, <2>4 DEF Reviewed, Solved
  <2> QED BY <1>1, <2>1, <2>3, <2>5, LooksLikeMake
<1> QED BY <1>2, <1>3 DEF VerifyCandidates

LEMMA LateLooks ==
  ASSUME Inv, Decide \/ RecordFailure \/ GoesOn
  PROVE  Promise!Decide \/ UNCHANGED <<Needed, run.generator, Approvals, Outcome>>
<1>1. Settled
  BY DEF Decide, RecordFailure, GoesOn, Settled, Inv, RunType
<1>2. CASE Decide
  <2>1. run.pc = "check" /\ run.decision = None
    BY <1>2 DEF Decide, Inv, InOrder
  <2>2. run'.decision \in Decisions /\ (run'.decision = "ACCEPT" => Accepts)
    BY <1>2 DEF Decide, Inv, RunType, Decisions
  <2> QED BY <1>1, <2>1, <2>2, NoneApart, LooksLikeDecide
<1>3. CASE RecordFailure
  <2>1. run'.decision = "INFRASTRUCTURE_FAILURE"
    BY <1>3 DEF RecordFailure, Inv, RunType
  <2> QED BY <1>1, <2>1, LooksLikeDecide, LooksLikeNothing DEF Decisions
<1>4. CASE GoesOn
  BY <1>1, <1>4, LooksLikeNothing DEF GoesOn, Inv, RunType
<1> QED BY <1>2, <1>3, <1>4

\* Whatever the judges say and wherever the run breaks off, a set of questions
\* is accepted only by every judge it needs, and then never replaced.
THEOREM ImplementsJudgedSet == Spec => IsJudgedSet
<1>1. Init => Promise!Init
  BY NoneApart DEF Init, Promise!Init, Approvals, Needed
<1>2. Inv /\ [Next]_vars =>
        [Promise!Next]_<<Needed, run.generator, Approvals, Outcome>>
  <2> SUFFICES ASSUME Inv, [Next]_vars
               PROVE  \/ Promise!Next
                      \/ UNCHANGED <<Needed, run.generator, Approvals, Outcome>>
    OBVIOUS
  <2>1. CASE UNCHANGED vars
    BY <2>1, LooksLikeNothing DEF vars, Settled
  <2>2. CASE Next
    BY <2>2, StageLooks, GenerateLooks, MergeLooks, LateLooks, WritesGoOn
       DEF Next, Promise!Next
  <2> QED BY <2>1, <2>2
<1>3. Outcome = IF run.decision = None THEN "none" ELSE run.decision
  BY DEF Outcome
<1> QED BY <1>1, <1>2, <1>3, ReadingInv, PTL DEF Spec, IsJudgedSet, Promise!Spec, Outcome
=============================================================================
