------------------------------ MODULE Structure ------------------------------
(***************************************************************************)
(* structure/pipeline.py and structure/v02, v03/pipeline.py: one set of    *)
(* four-option questions from Generator, blind Reviewer and blind Solver,  *)
(* without retries.  v0.1 has the Generator write the four options; v0.2   *)
(* and v0.3 have it write a pool, of which the Reviewer's judgments leave  *)
(* some; v0.3 asks for the pool in three shards.                           *)
(*                                                                         *)
(* An option is "correct" or a distractor of the pool; texts are unique    *)
(* within a question, and the agents are understood by text.  Run 1 is the *)
(* run modelled; its directory may hold an earlier accepted run, run 0.    *)
(***************************************************************************)
EXTENDS Naturals, FiniteSets, Sequences

CONSTANTS
  Items,
  Priority,   \* the distractors of a pool, in the seed's order of preference
  Selections, \* how many of them a question needs: three
  Slices,     \* the items each Generator call of v0.3 is asked for: five of fifteen
  SomeDeals,  \* bound: the permutations of the answer positions that are tried
  None

Letters == 0..Selections    \* 0 is A
Shards == Len(Slices)
Distractors == {Priority[n] : n \in DOMAIN Priority}

\* The pool of a question as its contract lets it through: no text twice.
Texts == {"correct"} \cup Distractors
INSTANCE AnswerPositions

VARIABLES
  version,  \* the pipeline
  made,     \* the run: what the stages have produced and passed so far
  files     \* generator.json, result.json and provenance.json

structureVars == <<version, made, files>>

Stages == {"generator", "reviewer", "solver"}

\* What run checks before it looks at single items; the first before, the
\* second after the selection has passed for all of them.
EarlyGates == {"generator contract", "reviewer input", "reviewer contract", "selection"}
LateGates == {"assembly", "solver input", "solver contract"}

\* What the Reviewer says of a question: of the key, and which distractors are
\* INVALID.  Sound: VALID, natural, without defect, and the best where v0.1
\* asks for the best.  Flawed: any other verdict but INVALID.
Judgments == [key : {"sound", "flawed", "invalid"}, invalid : SUBSET Distractors]

\* What the Solver answers: an option's text, or None for a sentinel; sure is a
\* confidence that is accepted.  What is made of it names the letter instead.
RawAnswers == [text : Texts \cup {None}, sure : BOOLEAN]
Answers == [letter : Letters \cup {None}, sure : BOOLEAN]

ASSUME StructureAssumption ==
  /\ Priority \in Seq(Distractors)
  /\ Selections \in Nat \ {0} /\ Selections <= Len(Priority)
  /\ Slices \in Seq(SUBSET Items) \ {<<>>}
  /\ UNION {Slices[n] : n \in DOMAIN Slices} = Items
  /\ SomeDeals \subseteq Deals
  /\ Items # {}
  /\ None \notin [Items -> Judgments] \cup [Items -> Questions] \cup [Items -> Answers]
  /\ None \notin Stages \cup {"ACCEPT", "QUARANTINE"}

EarlierSet ==
  [i \in Items |->
     [options |-> [l \in Letters |-> IF l = 0 THEN "correct" ELSE Priority[l]], key |-> 0]]
Recorded(run, set, decision) ==
  [run |-> run, version |-> version, decision |-> decision, hash |-> <<run, set>>]
EarlierFiles ==
  [generator |-> <<0, EarlierSet>>, provenance |-> 0,
   result |-> [Recorded(0, EarlierSet, "ACCEPT") EXCEPT !.version = "v0.3"]]
NoFiles == [generator |-> None, result |-> None, provenance |-> None]

StructureType ==
  /\ version \in {"v0.1", "v0.2", "v0.3"}
  /\ made.pc \in Stages \cup {"assemble", "decide", "generator file", "result file",
                              "provenance file", "ended"}
  /\ made.shards \in 0..Shards /\ made.pool \subseteq Items
  /\ made.gates \subseteq EarlyGates \cup LateGates
  /\ made.failure \in Stages \cup {None}
  /\ made.review = None \/ made.review \in [Items -> Judgments]
  /\ made.set = None \/ made.set \in [Items -> Questions]
  /\ made.solve = None \/ made.solve \in [Items -> Answers]
  /\ made.decision \in {"ACCEPT", "QUARANTINE", None}
  /\ files.provenance \in {None, 0, 1}

Idle == [pc |-> "ended", shards |-> 0, pool |-> {}, gates |-> {}, failure |-> None, review |-> None,
         set |-> None, solve |-> None, decision |-> None]

StructureInit ==
  /\ version \in {"v0.1", "v0.2", "v0.3"}
  /\ made = [Idle EXCEPT !.pc = "generator"]
  /\ files \in {NoFiles, EarlierFiles}

-----------------------------------------------------------------------------
(* The stages.  A failed call is recorded and ends the stages.               *)

Stop == made' = [made EXCEPT !.pc = "decide"]

InvokeFails ==
  /\ made.pc \in Stages
  /\ made' = [made EXCEPT !.pc = "decide", !.failure = made.pc]
  /\ UNCHANGED <<version, files>>

\* The Generator's questions are complete; those of v0.1 are set, and permuted.
\* build_blind_input and build_reviewer_candidate_input may refuse.
Blind(set) ==
  \/ made' = [made EXCEPT !.pc = "reviewer", !.set = set,
                          !.pool = Items, !.gates = {"generator contract", "reviewer input"}]
  \/ made' = [made EXCEPT !.pc = "decide", !.set = set,
                          !.pool = Items, !.gates = {"generator contract"}]

Plain == [options |-> [l \in Letters |-> IF l = 0 THEN "correct" ELSE Priority[l]], key |-> 0]

\* Mutant: v0.3 does not see that it has all shards.
ShardsGoOn ==
  /\ made.pc = "generator"
  /\ \/ Stop
     \/ version = "v0.3" /\ made' = [made EXCEPT !.shards = @ + 1]
  /\ UNCHANGED <<version, files>>

GeneratePlain ==
  /\ version = "v0.1"
  /\ \E deals \in [Items -> SomeDeals] : Blind(PermutedSet([i \in Items |-> Plain], deals))

GeneratePool == version = "v0.2" /\ Blind(None)

\* validate_generator_shard_contract: whole pools for exactly the slice.
ShardContract(output, shard) == output = Slices[shard]

\* validate_merged_generator_contract.
MergedContract(pool) == pool = Items

GenerateShard ==
  /\ version = "v0.3"
  /\ \E output \in SUBSET Items :
       LET shard == made.shards + 1
           pool == made.pool \cup output
       IN  /\ ShardContract(output, shard)
           /\ IF shard < Shards
              THEN made' = [made EXCEPT !.shards = shard, !.pool = pool]
              ELSE MergedContract(pool) /\ Blind(None)

Generate ==
  /\ made.pc = "generator"
  /\ Stop \/ GeneratePlain \/ GeneratePool \/ GenerateShard
  /\ UNCHANGED <<version, files>>

\* Every visible text judged once, by validate_reviewer_contract of v0.2 and
\* of v0.1.
PoolReviews == [Items -> Judgments]
OptionReviews ==
  {review \in PoolReviews :
     \A i \in Items : review[i].invalid \subseteq {made.set[i].options[l] : l \in Letters}}

\* v0.1 asks the Solver even after a Reviewer output that breaks the contract.
Review ==
  /\ made.pc = "reviewer"
  /\ \/ IF version = "v0.1" THEN made' = [made EXCEPT !.pc = "solver"] ELSE Stop
     \/ \E review \in IF version = "v0.1" THEN OptionReviews ELSE PoolReviews :
          made' = [made EXCEPT !.pc = IF version = "v0.1" THEN "solver" ELSE "assemble",
                               !.review = review,
                               !.gates = @ \cup {"reviewer contract"}]
  /\ UNCHANGED <<version, files>>

\* build_candidate_selection: the distractors judged INVALID, by their places
\* in the order of priority, and the n-th of them.
Eligible(judgment) == {p \in DOMAIN Priority : Priority[p] \in judgment.invalid}

Choice(judgment, n) ==
  Priority[CHOOSE p \in Eligible(judgment) : Cardinality(Eligible(judgment) \cap 1..p) = n]

Passed(judgment) ==
  /\ judgment.key = "sound"
  /\ Cardinality(Eligible(judgment)) >= Selections

\* assemble_final_generator_output: the key is A.
Assembled(judgment) ==
  [options |-> [l \in Letters |-> IF l = 0 THEN "correct" ELSE Choice(judgment, l)],
   key |-> 0]

\* Selection, assembly, permutation and the Solver's blind input; the checks on
\* selection, assembly and permutation replay them and may refuse.
AllPassed == made.review # None /\ \A i \in Items : Passed(made.review[i])

Assemble ==
  /\ made.pc = "assemble"
  /\ \/ Stop
     \/ made' = [made EXCEPT !.pc = "decide", !.gates = @ \cup {"selection"}]
     \/ /\ AllPassed
        /\ \E deals \in [Items -> SomeDeals], seen \in SUBSET {"solver input"} :
             made' = [made EXCEPT
               !.pc = IF seen = {} THEN "decide" ELSE "solver",
               !.gates = @ \cup {"selection", "assembly"} \cup seen,
               !.set = PermutedSet([i \in Items |-> Assembled(made.review[i])], deals)]
  /\ UNCHANGED <<version, files>>

\* validate_solver_contract: a visible text, or a sentinel.
SolverContract(raw) ==
  \A i \in Items : raw[i].text = None \/ \E l \in Letters : made.set[i].options[l] = raw[i].text

LetterOf(question, text) ==
  IF \E l \in Letters : question.options[l] = text
  THEN CHOOSE l \in Letters : question.options[l] = text ELSE None

canonicalize_solver_output(raw) ==
  [i \in Items |-> [letter |-> LetterOf(made.set[i], raw[i].text), sure |-> raw[i].sure]]

Solve ==
  /\ made.pc = "solver"
  /\ \/ Stop
     \/ \E raw \in [Items -> RawAnswers] :
          /\ SolverContract(raw)
          /\ made' = [made EXCEPT !.pc = "decide",
                          !.solve = canonicalize_solver_output(raw),
                               !.gates = @ \cup {"solver contract"}]
  /\ UNCHANGED <<version, files>>

-----------------------------------------------------------------------------
(* The decision and the files.                                               *)

\* A reason that speaks for every question: global_reason.
GlobalReason ==
  \/ made.failure # None
  \/ ~ EarlyGates \subseteq made.gates
  \/ AllPassed /\ ~ LateGates \subseteq made.gates

\* Mutant: an answer with confidence LOW counts.
UnsureCounts(i) == made.solve # None /\ made.solve[i].letter = made.set[i].key

\* The Solver-vs-key check of one question.
SolverAgrees(i) ==
  /\ made.solve # None
  /\ made.solve[i].letter = made.set[i].key
  /\ made.solve[i].sure

\* canonicalize_reviewer_output of v0.1: judgments by letter.
InvalidLetters(question, judgment) ==
  {l \in Letters : question.options[l] \in judgment.invalid}

\* _item_results of v0.1.
PlainAccepted(i) ==
  /\ made.set # None /\ {"generator contract", "reviewer input"} \subseteq made.gates
  /\ made.review # None
  /\ made.review[i].key = "sound"
  /\ Letters \ {made.set[i].key} \subseteq InvalidLetters(made.set[i], made.review[i])
  /\ SolverAgrees(i)

PoolAccepted(i) == ~ GlobalReason /\ AllPassed /\ SolverAgrees(i)

Accepted(i) == IF version = "v0.1" THEN PlainAccepted(i) ELSE PoolAccepted(i)

Decide ==
  /\ made.pc = "decide"
  /\ made' = [made EXCEPT !.pc = "generator file",
                !.decision = IF \A i \in Items : Accepted(i) THEN "ACCEPT" ELSE "QUARANTINE"]
  /\ UNCHANGED <<version, files>>

WriteGenerator ==
  /\ made.pc = "generator file"
  /\ made' = [made EXCEPT !.pc = "result file"]
  /\ files' = [files EXCEPT !.generator = <<1, made.set>>]
  /\ UNCHANGED version

WriteResult ==
  /\ made.pc = "result file"
  /\ made' = [made EXCEPT !.pc = "provenance file"]
  /\ files' = [files EXCEPT !.result = Recorded(1, made.set, made.decision)]
  /\ UNCHANGED version

WriteProvenance ==
  /\ made.pc = "provenance file"
  /\ made' = [made EXCEPT !.pc = "ended"]
  /\ files' = [files EXCEPT !.provenance = 1]
  /\ UNCHANGED version

\* A write, or a schema check before it, raises; or the process dies.
Die ==
  /\ made.pc # "ended"
  /\ made' = [made EXCEPT !.pc = "ended"]
  /\ UNCHANGED <<version, files>>

StructureNext ==
  \/ InvokeFails \/ Generate \/ Review \/ Assemble \/ Solve
  \/ Decide \/ WriteGenerator \/ WriteResult \/ WriteProvenance \/ Die

-----------------------------------------------------------------------------
(* Properties. *)

\* By the Reviewer, the key of every question that ships is right and natural
\* and every other option wrong; the Solver found the key where it ships.
ReviewerApproves ==
  /\ made.set # None /\ made.review # None
  /\ made.pool = Items
  /\ \A i \in Items :
       /\ made.review[i].key = "sound"
       /\ \A l \in Letters \ {made.set[i].key} :
            made.set[i].options[l] \in made.review[i].invalid
       /\ made.set[i].options[made.set[i].key] = "correct"
SolverApproves ==
  /\ made.set # None /\ made.solve # None
  /\ \A i \in Items : made.solve[i] = [letter |-> made.set[i].key, sure |-> TRUE]
Approved == ReviewerApproves /\ SolverApproves

\* The pipeline implements JudgedSet; the Reviewer judges the pool before the
\* set is put together from it.
Promise == INSTANCE JudgedSet WITH
  Judges <- {"reviewer", "solver"}, Ahead <- {"reviewer"}, NoSet <- None,
  judges <- {"reviewer", "solver"},
  judged <- (IF ReviewerApproves THEN {"reviewer"} ELSE {})
              \cup (IF SolverApproves THEN {"solver"} ELSE {}),
  set <- made.set,
  decision <- IF made.decision = None THEN "none" ELSE made.decision
SetIsJudged == Promise!Spec
=============================================================================
