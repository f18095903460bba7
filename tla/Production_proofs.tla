--------------------------- MODULE Production_proofs ---------------------------
(***************************************************************************)
(* The Structure pipelines implement JudgedSet, the evidence decision is   *)
(* earned, and a problem bank has whole, judged sets: for any number of    *)
(* questions, options, shards and permutations, while the pipelines work   *)
(* in the directories the assembler reads.                                 *)
(***************************************************************************)
EXTENDS Production, FiniteSetTheorems, TLAPS

-----------------------------------------------------------------------------
(* The first distractors judged INVALID. *)

\* The order of the naturals as the library's well-founded relation.
LEMMA LessThanIsARelation == OpToRel(<, Nat) = {ss \in Nat \X Nat : ss[1] < ss[2]}
BY Zenon DEF OpToRel

\* A nonempty set of naturals has a least one.
LEMMA LeastOf ==
  ASSUME NEW T \in SUBSET Nat, T # {}
  PROVE  \E p \in T : \A q \in T : p <= q
<1>1. PICK p \in T : \A q \in T : ~ (<<q, p>> \in OpToRel(<, Nat))
  BY NatLessThanWellFounded, WFMin
<1>2. \A q \in T : ~ (<<q, p>> \in {ss \in Nat \X Nat : ss[1] < ss[2]})
  BY <1>1, LessThanIsARelation, Zenon
<1>3. ASSUME NEW q \in T PROVE p <= q
  <2>1. q \in Nat /\ p \in Nat
    OBVIOUS
  <2>2. <<q, p>> \in Nat \X Nat /\ <<q, p>>[1] = q /\ <<q, p>>[2] = p
    BY <2>1
  <2>3. ~ (q < p)
    BY <1>2, <1>3, <2>2
  <2> QED BY <2>1, <2>3
<1> QED BY <1>3

\* A set of k places has an n-th one, for every n up to its size: the place up
\* to which the set reaches n members for the first time.
LEMMA NthPlace ==
  ASSUME NEW k \in Nat, NEW S \in SUBSET (1..k), NEW n \in 1..Cardinality(S)
  PROVE  \E p \in S : Cardinality(S \cap 1..p) = n
<1> DEFINE upto(p) == S \cap 1..p
           T == {p \in 0..k : Cardinality(upto(p)) >= n}
<1>1. IsFiniteSet(S)
  <2>1. IsFiniteSet(1..k)
    BY FS_Interval
  <2> QED BY <2>1, FS_Subset
<1>2. \A p \in Nat : IsFiniteSet(upto(p)) /\ Cardinality(upto(p)) \in Nat
  BY <1>1, FS_Intersection, FS_CardinalityType
<1>3. Cardinality(S) \in Nat
  BY <1>1, FS_CardinalityType
<1>4. k \in T
  <2>1. upto(k) = S
    OBVIOUS
  <2> QED BY <1>3, <2>1
<1>5. PICK p \in T : \A q \in T : p <= q
  <2>1. T \in SUBSET Nat
    OBVIOUS
  <2> HIDE DEF T
  <2> QED BY <1>4, <2>1, LeastOf
<1>6. p # 0
  <2>1. upto(0) = {}
    OBVIOUS
  <2>2. Cardinality(upto(0)) = 0
    BY <2>1, FS_EmptySet
  <2> QED BY <2>2, <1>3
<1>7. p - 1 \in 0..k /\ p \in 1..k /\ p - 1 \in Nat
  BY <1>6
<1>8. Cardinality(upto(p - 1)) < n
  BY <1>2, <1>3, <1>5, <1>7
<1>9. Cardinality(upto(p)) >= n
  OBVIOUS
<1>10. CASE p \notin S
  <2>1. upto(p) = upto(p - 1)
    BY <1>7, <1>10
  <2> HIDE DEF upto
  <2> QED BY <1>2, <1>3, <1>7, <1>8, <1>9, <2>1
<1>11. CASE p \in S
  <2>1. upto(p) = upto(p - 1) \cup {p} /\ p \notin upto(p - 1)
    BY <1>7, <1>11
  <2>2. Cardinality(upto(p)) = Cardinality(upto(p - 1)) + 1
    BY <1>2, <1>7, <2>1, FS_AddElement
  <2>3. Cardinality(upto(p)) = n
    <3> HIDE DEF upto
    <3> QED BY <1>2, <1>3, <1>7, <1>8, <1>9, <2>2
  <2> QED BY <1>11, <2>3
<1> QED BY <1>10, <1>11

\* A question that passes has as many INVALID distractors as it needs.
LEMMA ChoiceIsInvalid ==
  ASSUME NEW judgment \in Judgments, Passed(judgment), NEW n \in 1..Selections
  PROVE  Choice(judgment, n) \in Distractors \cap judgment.invalid
<1> DEFINE S == Eligible(judgment)
<1>1. /\ Len(Priority) \in Nat /\ DOMAIN Priority = 1..Len(Priority)
      /\ Selections \in Nat
  BY StructureAssumption
<1>2. S \in SUBSET (1..Len(Priority)) /\ Cardinality(S) >= Selections
  BY <1>1 DEF Eligible, Passed
<1>3. Cardinality(S) \in Nat
  <2>1. IsFiniteSet(1..Len(Priority))
    BY <1>1, FS_Interval
  <2> HIDE DEF S
  <2> QED BY <1>2, <2>1, FS_Subset, FS_CardinalityType
<1>4. n \in 1..Cardinality(S)
  <2> HIDE DEF S
  <2> QED BY <1>1, <1>2, <1>3
<1>5. \E p \in S : Cardinality(S \cap 1..p) = n
  <2> HIDE DEF S
  <2> QED BY <1>1, <1>2, <1>4, NthPlace
<1>6. \E p \in S : Choice(judgment, n) = Priority[p]
  <2>1. Choice(judgment, n) = Priority[CHOOSE p \in S : Cardinality(S \cap 1..p) = n]
    BY DEF Choice
  <2> HIDE DEF S
  <2> QED BY <1>5, <2>1
<1> QED BY <1>6 DEF Eligible, Distractors

-----------------------------------------------------------------------------
(* Answer positions. *)

\* There are as many letters as letters, so a deal leaves none out.
LEMMA DealsAreOnto ==
  ASSUME NEW deal \in Deals
  PROVE  Onto(deal)
<1>1. IsFiniteSet(Letters)
  BY StructureAssumption, FS_Interval DEF Letters
<1>2. deal \in Injection(Letters, Letters)
  BY DEF Deals, Injection, IsInjective
<1>3. deal \in Surjection(Letters, Letters)
  BY <1>1, <1>2, FS_Injection
<1> QED BY <1>3 DEF Onto, Surjection

\* original_to_canonical undoes canonical_to_original, as
\* apply_choice_permutation_to_question demands of its two mappings.
LEMMA MappingsAreInverse ==
  ASSUME NEW deal \in Deals, NEW l \in Letters
  PROVE  /\ NewLetter(deal, l) \in Letters
         /\ deal[NewLetter(deal, l)] = l
         /\ NewLetter(deal, deal[l]) = l
<1>1. ASSUME NEW k \in Letters
      PROVE  NewLetter(deal, k) \in Letters /\ deal[NewLetter(deal, k)] = k
  <2>1. \E m \in Letters : deal[m] = k
    BY <1>1, DealsAreOnto DEF Onto
  <2> QED BY <2>1 DEF NewLetter
<1>2. deal[l] \in Letters
  BY DEF Deals
<1>3. NewLetter(deal, deal[l]) = l
  BY <1>1, <1>2 DEF Deals
<1> QED BY <1>1, <1>3

\* Whatever the deal, the permuted question is a question, its key names the
\* text that the key named before, and every text keeps exactly one place: the
\* Reviewer and the Solver judge the question the Generator wrote.
THEOREM PermutationKeepsTheQuestion ==
  ASSUME NEW question \in Questions, NEW deal \in Deals
  PROVE  LET permuted == Permuted(question, deal)
         IN  /\ permuted \in Questions
             /\ permuted.options[permuted.key] = question.options[question.key]
             /\ \A l \in Letters :
                  permuted.options[NewLetter(deal, l)] = question.options[l]
<1>1. question.options \in [Letters -> Texts] /\ question.key \in Letters
  BY DEF Questions
<1>2. \A l \in Letters : NewLetter(deal, l) \in Letters /\ deal[NewLetter(deal, l)] = l
  BY MappingsAreInverse
<1>3. [l \in Letters |-> question.options[deal[l]]] \in [Letters -> Texts]
  BY <1>1 DEF Deals
<1>4. Permuted(question, deal) \in Questions
  BY <1>1, <1>2, <1>3 DEF Permuted, Questions
<1>5. \A l \in Letters :
        Permuted(question, deal).options[NewLetter(deal, l)] = question.options[l]
  BY <1>2 DEF Permuted
<1>6. Permuted(question, deal).key = NewLetter(deal, question.key)
  BY DEF Permuted
<1> QED BY <1>1, <1>4, <1>5, <1>6

\* The same of a set of questions, each with a deal of its own: no question's
\* answer changes because another's options moved.
COROLLARY SetKeepsItsAnswers ==
  ASSUME NEW set \in [Items -> Questions], NEW deals \in [Items -> Deals]
  PROVE  LET permuted == PermutedSet(set, deals)
         IN  /\ permuted \in [Items -> Questions]
             /\ \A i \in Items :
                  permuted[i].options[permuted[i].key] = set[i].options[set[i].key]
<1>1. ASSUME NEW i \in Items
      PROVE  /\ Permuted(set[i], deals[i]) \in Questions
             /\ Permuted(set[i], deals[i]).options[Permuted(set[i], deals[i]).key]
                  = set[i].options[set[i].key]
  BY <1>1, PermutationKeepsTheQuestion
<1> QED BY <1>1 DEF PermutedSet

-----------------------------------------------------------------------------
(* The Structure pipelines. *)

Before == Stages \cup {"assemble"}
Writing == {"generator file", "result file", "provenance file", "ended"}

MadeType ==
  /\ version \in {"v0.1", "v0.2", "v0.3"}
  /\ made \in [pc : Before \cup {"decide"} \cup Writing, shards : 0..Shards,
               pool : SUBSET Items, gates : SUBSET (EarlyGates \cup LateGates),
               failure : Stages \cup {None}, review : [Items -> Judgments] \cup {None},
               set : [Items -> Questions] \cup {None}, solve : [Items -> Answers] \cup {None},
               decision : {"ACCEPT", "QUARANTINE", None}]

\* No stage has what a later one makes, and nothing is decided before the end.
StagesInOrder ==
  /\ made.pc \in Before \cup {"decide"} => made.decision = None
  /\ made.pc = "generator" => made.shards < Shards
  /\ made.pc \in {"generator", "reviewer"} => made.review = None
  /\ made.pc = "generator" => made.set = None
  /\ made.pc \in {"reviewer", "assemble"} => (made.set = None <=> version # "v0.1")
  /\ made.pc = "assemble" => version # "v0.1" /\ made.review # None
  /\ made.pc = "solver" => made.set # None
  /\ made.pc \in Before => made.solve = None
  /\ made.solve # None => made.set # None

\* What the gates passed, and the set itself, stand for.
SetIsSound ==
  /\ made.pc = "generator" => made.gates = {}
  /\ "generator contract" \in made.gates => made.pool = Items
  /\ made.set # None =>
       \A i \in Items : made.set[i].options[made.set[i].key] = "correct"
  /\ made.set # None /\ version # "v0.1" =>
       /\ made.review # None
       /\ \A i \in Items : \A l \in Letters \ {made.set[i].key} :
            made.set[i].options[l] \in made.review[i].invalid

AcceptedIsApproved == made.decision = "ACCEPT" => Approved

SetInv == MadeType /\ StagesInOrder /\ SetIsSound /\ AcceptedIsApproved

\* What the assembled and permuted set is, from a Reviewer that passed it.
LEMMA PlainIsAQuestion == Plain \in Questions /\ Plain.options[Plain.key] = "correct"
<1>1. 0 \in Letters /\ Selections \in Nat /\ DOMAIN Priority = 1..Len(Priority)
  BY StructureAssumption DEF Letters
<1>2. \A l \in Letters \ {0} : Priority[l] \in Distractors
  BY <1>1, StructureAssumption DEF Letters, Distractors
<1> QED BY <1>1, <1>2 DEF Plain, Questions, Texts

LEMMA AssembledIsAQuestion ==
  ASSUME NEW judgment \in Judgments, Passed(judgment)
  PROVE  /\ Assembled(judgment) \in Questions
         /\ Assembled(judgment).key = 0 /\ Assembled(judgment).options[0] = "correct"
         /\ \A l \in Letters \ {0} : Assembled(judgment).options[l] \in judgment.invalid
<1>1. 0 \in Letters /\ Letters \ {0} = 1..Selections
  BY StructureAssumption DEF Letters
<1>2. \A l \in Letters \ {0} : Choice(judgment, l) \in Distractors \cap judgment.invalid
  BY <1>1, ChoiceIsInvalid
<1> QED BY <1>1, <1>2 DEF Assembled, Questions, Texts

\* Permuting moves the key and the distractors together.
LEMMA PermutedAssembly ==
  ASSUME NEW judgment \in Judgments, Passed(judgment), NEW deal \in Deals
  PROVE  LET q == Permuted(Assembled(judgment), deal)
         IN  /\ q \in Questions /\ q.options[q.key] = "correct"
             /\ \A l \in Letters \ {q.key} : q.options[l] \in judgment.invalid
<1> DEFINE q == Permuted(Assembled(judgment), deal)
<1>1. q \in Questions /\ q.options[q.key] = "correct"
  BY AssembledIsAQuestion, PermutationKeepsTheQuestion
<1>2. ASSUME NEW l \in Letters \ {q.key}
      PROVE  q.options[l] \in judgment.invalid
  <2>1. q.options[l] = Assembled(judgment).options[deal[l]] /\ q.key = NewLetter(deal, 0)
    BY AssembledIsAQuestion DEF Permuted
  <2>2. deal[l] \in Letters
    BY DEF Deals
  <2>3. deal[l] # 0
    BY <2>1, <1>2, MappingsAreInverse
  <2> QED BY <2>1, <2>2, <2>3, AssembledIsAQuestion
<1> QED BY <1>1, <1>2

LEMMA PermutedPlain ==
  ASSUME NEW deals \in [Items -> SomeDeals]
  PROVE  LET set == PermutedSet([i \in Items |-> Plain], deals)
         IN  set \in [Items -> Questions] /\ \A i \in Items : set[i].options[set[i].key] = "correct"
<1>1. deals \in [Items -> Deals] /\ [i \in Items |-> Plain] \in [Items -> Questions]
  BY PlainIsAQuestion, StructureAssumption
<1> QED BY <1>1, PlainIsAQuestion, SetKeepsItsAnswers

LEMMA PermutedChoice ==
  ASSUME NEW review \in [Items -> Judgments], \A i \in Items : Passed(review[i]),
         NEW deals \in [Items -> SomeDeals]
  PROVE  LET set == PermutedSet([i \in Items |-> Assembled(review[i])], deals)
         IN  /\ set \in [Items -> Questions]
             /\ \A i \in Items :
                  /\ set[i].options[set[i].key] = "correct"
                  /\ \A l \in Letters \ {set[i].key} : set[i].options[l] \in review[i].invalid
<1> DEFINE q(i) == Permuted(Assembled(review[i]), deals[i])
<1>1. ASSUME NEW i \in Items
      PROVE  /\ q(i) \in Questions /\ q(i).options[q(i).key] = "correct"
             /\ \A l \in Letters \ {q(i).key} : q(i).options[l] \in review[i].invalid
  BY PermutedAssembly, StructureAssumption
<1>2. PermutedSet([i \in Items |-> Assembled(review[i])], deals) = [i \in Items |-> q(i)]
  BY DEF PermutedSet
<1> HIDE DEF q
<1> QED BY <1>1, <1>2

LEMMA StructureInitInv == StructureInit => SetInv
<1> SUFFICES ASSUME StructureInit PROVE SetInv
  OBVIOUS
<1>1. Shards \in Nat /\ Shards > 0
  BY StructureAssumption DEF Shards
<1>2. MadeType
  BY <1>1 DEF StructureInit, Idle, MadeType, Before, Stages
<1>3. StagesInOrder /\ SetIsSound /\ AcceptedIsApproved
  BY <1>1, StructureAssumption
     DEF StructureInit, Idle, StagesInOrder, SetIsSound, AcceptedIsApproved, Before, Stages
<1> QED BY <1>2, <1>3 DEF SetInv

LEMMA IdleInv == ASSUME version = "v0.3", made = Idle PROVE SetInv
<1>1. Shards \in Nat /\ Shards > 0
  BY StructureAssumption DEF Shards
<1>2. MadeType
  BY <1>1 DEF Idle, MadeType, Writing
<1>3. StagesInOrder /\ SetIsSound /\ AcceptedIsApproved
  BY <1>1, StructureAssumption
     DEF Idle, StagesInOrder, SetIsSound, AcceptedIsApproved, Before, Stages
<1> QED BY <1>2, <1>3 DEF SetInv

\* A stage that stops or fails, a file that is written, a death: what was made stays.
LEMMA MadeStays ==
  ASSUME SetInv, version' = version, NEW failure \in Stages \cup {None},
         NEW step \in {"decide"} \cup Writing, step = "decide" => made.pc \in Before,
         made' = [made EXCEPT !.pc = step, !.failure = failure]
  PROVE  SetInv'
<1> USE DEF SetInv
<1>1. MadeType'
  BY DEF MadeType
<1>2. /\ made'.pc = step /\ made'.set = made.set /\ made'.review = made.review
      /\ made'.solve = made.solve /\ made'.pool = made.pool /\ made'.gates = made.gates
      /\ made'.decision = made.decision /\ step \notin Before
  BY DEF MadeType, Writing, Before, Stages
<1>3. StagesInOrder'
  BY <1>2 DEF StagesInOrder, Before, Stages, Writing
<1>4. SetIsSound'
  BY <1>2 DEF SetIsSound, Before, Stages
<1>5. AcceptedIsApproved'
  BY <1>2 DEF AcceptedIsApproved, Approved, ReviewerApproves, SolverApproves
<1> QED BY <1>1, <1>3, <1>4, <1>5

LEMMA StopKeeps == ASSUME SetInv, made.pc \in Before, Stop, version' = version PROVE SetInv'
<1>1. made' = [made EXCEPT !.pc = "decide", !.failure = made.failure]
      /\ made.failure \in Stages \cup {None}
  BY DEF Stop, SetInv, MadeType
<1> QED BY <1>1, MadeStays

LEMMA BlindKeeps ==
  ASSUME SetInv, version' = version, made.pc = "generator", NEW set, Blind(set),
         \/ set = None /\ version # "v0.1"
         \/ /\ set \in [Items -> Questions] /\ version = "v0.1"
            /\ \A i \in Items : set[i].options[set[i].key] = "correct"
  PROVE  SetInv'
<1> USE DEF SetInv
<1>1. set \in [Items -> Questions] \cup {None} /\ (set = None <=> version # "v0.1")
  BY StructureAssumption
<1>2. PICK step \in {"reviewer", "decide"}, gates \in SUBSET EarlyGates :
        made' = [made EXCEPT !.pc = step, !.set = set, !.pool = Items, !.gates = gates]
  BY DEF Blind, EarlyGates
<1>3. made.review = None /\ made.solve = None /\ made.decision = None
  BY DEF StagesInOrder, Before, Stages
<1>4. /\ made'.pc = step /\ made'.set = set /\ made'.pool = Items
      /\ made'.gates = gates /\ made'.review = None /\ made'.solve = None
      /\ made'.decision = None
  BY <1>2, <1>3 DEF MadeType
<1>5. MadeType'
  BY <1>1, <1>2 DEF MadeType, Before, Stages
<1>6. StagesInOrder'
  BY <1>1, <1>4 DEF StagesInOrder, Before, Stages
<1>7. SetIsSound'
  BY <1>1, <1>4 DEF SetIsSound
<1>8. AcceptedIsApproved'
  BY <1>4, StructureAssumption DEF AcceptedIsApproved
<1> QED BY <1>5, <1>6, <1>7, <1>8

LEMMA GenerateKeeps == ASSUME SetInv, Generate PROVE SetInv'
<1>0. made.pc = "generator" /\ version' = version
  BY DEF Generate
<1>1. CASE Stop
  BY <1>0, <1>1, StopKeeps DEF Before, Stages
<1>2. CASE GeneratePlain
  <2>1. PICK deals \in [Items -> SomeDeals] :
          Blind(PermutedSet([i \in Items |-> Plain], deals))
    BY <1>2 DEF GeneratePlain
  <2> DEFINE set == PermutedSet([i \in Items |-> Plain], deals)
  <2>2. set \in [Items -> Questions] /\ \A i \in Items : set[i].options[set[i].key] = "correct"
    BY PermutedPlain
  <2>3. Blind(set) /\ version = "v0.1"
    BY <1>2, <2>1 DEF GeneratePlain
  <2> HIDE DEF set
  <2> QED BY <1>0, <2>2, <2>3, BlindKeeps
<1>3. CASE GeneratePool
  BY <1>0, <1>3, BlindKeeps DEF GeneratePool
<1>4. CASE GenerateShard
  <2>1. PICK output \in SUBSET Items :
          IF made.shards + 1 < Shards
          THEN made' = [made EXCEPT !.shards = made.shards + 1, !.pool = made.pool \cup output]
          ELSE Blind(None)
    BY <1>4 DEF GenerateShard
  <2>2. version = "v0.3"
    BY <1>4 DEF GenerateShard
  <2>3. CASE ~ (made.shards + 1 < Shards)
    BY <1>0, <2>1, <2>2, <2>3, BlindKeeps
  <2>4. CASE made.shards + 1 < Shards
    <3>1. made' = [made EXCEPT !.shards = made.shards + 1, !.pool = made.pool \cup output]
      BY <2>1, <2>4
    <3>2. Shards \in Nat /\ made.shards + 1 \in 0..Shards
      BY <2>4, StructureAssumption DEF SetInv, MadeType, Shards
    <3>3. MadeType'
      BY <1>0, <3>1, <3>2 DEF SetInv, MadeType
    <3>4. /\ made'.pc = "generator" /\ made'.set = made.set /\ made'.review = made.review
          /\ made'.solve = made.solve /\ made'.decision = made.decision
          /\ made'.gates = {} /\ made.gates = {} /\ made'.shards = made.shards + 1
          /\ made.decision = None /\ made.set = None /\ made.review = None /\ made.solve = None
      BY <1>0, <3>1 DEF SetInv, MadeType, SetIsSound, StagesInOrder, Before, Stages
    <3>5. StagesInOrder'
      BY <2>4, <3>4 DEF StagesInOrder, Before, Stages
    <3>6. SetIsSound' /\ AcceptedIsApproved'
      BY <3>4, StructureAssumption DEF SetIsSound, AcceptedIsApproved
    <3> QED BY <3>3, <3>5, <3>6 DEF SetInv
  <2> QED BY <2>3, <2>4
<1> QED BY <1>1, <1>2, <1>3, <1>4 DEF Generate

LEMMA ReviewKeeps == ASSUME SetInv, Review PROVE SetInv'
<1> USE DEF SetInv
<1>0. made.pc = "reviewer" /\ version' = version
  BY DEF Review
<1>1. CASE version # "v0.1" /\ Stop
  BY <1>0, <1>1, StopKeeps DEF Before, Stages
<1>2. ASSUME made' = [made EXCEPT !.pc = "solver"], version = "v0.1"
      PROVE  SetInv'
  <2>1. MadeType'
    BY <1>0, <1>2 DEF MadeType, Before, Stages
  <2>2. /\ made'.pc = "solver" /\ made'.set = made.set /\ made'.review = made.review
        /\ made'.solve = made.solve /\ made'.pool = made.pool /\ made'.gates = made.gates
        /\ made'.decision = made.decision
    BY <1>2 DEF MadeType
  <2>3. StagesInOrder'
    BY <1>0, <1>2, <2>2 DEF StagesInOrder, Before, Stages
  <2>4. SetIsSound' /\ AcceptedIsApproved'
    BY <1>0, <1>2, <2>2, StructureAssumption
       DEF SetIsSound, AcceptedIsApproved, StagesInOrder, Before, Stages
  <2> QED BY <2>1, <2>3, <2>4
<1>3. ASSUME NEW review \in PoolReviews,
             made' = [made EXCEPT !.pc = IF version = "v0.1" THEN "solver" ELSE "assemble",
                                  !.review = review, !.gates = @ \cup {"reviewer contract"}]
      PROVE  SetInv'
  <2>1. MadeType'
    BY <1>0, <1>3 DEF MadeType, Before, Stages, PoolReviews, EarlyGates
  <2>2. /\ made'.pc = (IF version = "v0.1" THEN "solver" ELSE "assemble")
        /\ made'.set = made.set /\ made'.review = review
        /\ made'.solve = made.solve /\ made'.pool = made.pool
        /\ made'.gates = made.gates \cup {"reviewer contract"}
        /\ made'.decision = made.decision
    BY <1>3 DEF MadeType
  <2>3. review # None /\ made.decision = None /\ made.solve = None
    BY <1>0, StructureAssumption DEF PoolReviews, StagesInOrder, Before, Stages
  <2>4. StagesInOrder'
    BY <1>0, <2>2, <2>3 DEF StagesInOrder, Before, Stages
  <2>5. SetIsSound' /\ AcceptedIsApproved'
    BY <1>0, <2>2, <2>3, StructureAssumption
       DEF SetIsSound, AcceptedIsApproved, StagesInOrder
  <2> QED BY <2>1, <2>4, <2>5
<1> QED BY <1>1, <1>2, <1>3 DEF Review, OptionReviews

LEMMA AssembleKeeps == ASSUME SetInv, Assemble PROVE SetInv'
<1> USE DEF SetInv
<1>0. /\ made.pc = "assemble" /\ version' = version /\ version # "v0.1"
      /\ made.set = None /\ made.review # None /\ made.review \in [Items -> Judgments]
      /\ made.solve = None /\ made.decision = None
  BY DEF Assemble, StagesInOrder, MadeType, Before, Stages
<1>1. CASE Stop
  BY <1>0, <1>1, StopKeeps DEF Before
<1>2. ASSUME made' = [made EXCEPT !.pc = "decide", !.gates = @ \cup {"selection"}]
      PROVE  SetInv'
  <2>1. MadeType'
    <3>1. made.gates \cup {"selection"} \in SUBSET (EarlyGates \cup LateGates)
      BY DEF MadeType, EarlyGates
    <3> QED BY <1>0, <1>2, <3>1 DEF MadeType
  <2>2. /\ made'.pc = "decide" /\ made'.set = None /\ made'.review = made.review
        /\ made'.solve = None /\ made'.pool = made.pool
        /\ made'.gates = made.gates \cup {"selection"} /\ made'.decision = None
    BY <1>0, <1>2 DEF MadeType
  <2>3. StagesInOrder' /\ SetIsSound' /\ AcceptedIsApproved'
    BY <1>0, <2>2, StructureAssumption
       DEF StagesInOrder, SetIsSound, AcceptedIsApproved, Before, Stages
  <2> QED BY <2>1, <2>3
<1>3. ASSUME AllPassed, NEW deals \in [Items -> SomeDeals], NEW seen \in SUBSET {"solver input"},
             made' = [made EXCEPT
               !.pc = IF seen = {} THEN "decide" ELSE "solver",
               !.gates = @ \cup {"selection", "assembly"} \cup seen,
               !.set = PermutedSet([i \in Items |-> Assembled(made.review[i])], deals)]
      PROVE  SetInv'
  <2> DEFINE set == PermutedSet([i \in Items |-> Assembled(made.review[i])], deals)
  <2>1. /\ set \in [Items -> Questions]
        /\ \A i \in Items :
             /\ set[i].options[set[i].key] = "correct"
             /\ \A l \in Letters \ {set[i].key} : set[i].options[l] \in made.review[i].invalid
    BY <1>0, <1>3, PermutedChoice DEF AllPassed
  <2>2. made' = [made EXCEPT !.pc = IF seen = {} THEN "decide" ELSE "solver",
                             !.gates = @ \cup {"selection", "assembly"} \cup seen,
                             !.set = set]
    BY <1>3
  <2> HIDE DEF set
  <2>3. set # None
    BY <2>1, StructureAssumption
  <2>4. MadeType'
    <3>1. made.gates \cup {"selection", "assembly"} \cup seen \in SUBSET (EarlyGates \cup LateGates)
      BY DEF MadeType, EarlyGates, LateGates
    <3> QED BY <1>0, <2>1, <2>2, <3>1 DEF MadeType, Before, Stages
  <2>5. /\ made'.pc \in {"decide", "solver"} /\ made'.set = set /\ made'.review = made.review
        /\ made'.solve = None /\ made'.pool = made.pool
        /\ made'.gates = made.gates \cup {"selection", "assembly"} \cup seen
        /\ made'.decision = None
    BY <1>0, <2>2 DEF MadeType
  <2>6. StagesInOrder'
    BY <1>0, <2>3, <2>5 DEF StagesInOrder, Before, Stages
  <2>7. SetIsSound' /\ AcceptedIsApproved'
    BY <1>0, <2>1, <2>3, <2>5, StructureAssumption DEF SetIsSound, AcceptedIsApproved
  <2> QED BY <2>4, <2>6, <2>7
<1> QED BY <1>1, <1>2, <1>3 DEF Assemble

LEMMA SolveKeeps == ASSUME SetInv, Solve PROVE SetInv'
<1> USE DEF SetInv
<1>0. /\ made.pc = "solver" /\ version' = version /\ made.decision = None
      /\ made.set # None /\ made.set \in [Items -> Questions]
  BY DEF Solve, StagesInOrder, MadeType, Before, Stages
<1>1. CASE Stop
  BY <1>0, <1>1, StopKeeps DEF Before, Stages
<1>2. ASSUME NEW raw \in [Items -> RawAnswers],
             made' = [made EXCEPT !.pc = "decide",
                          !.solve = canonicalize_solver_output(raw),
                               !.gates = @ \cup {"solver contract"}]
      PROVE  SetInv'
  <2> DEFINE answers == canonicalize_solver_output(raw)
  <2>1. answers \in [Items -> Answers]
    <3>1. ASSUME NEW i \in Items
          PROVE  LetterOf(made.set[i], raw[i].text) \in Letters \cup {None} /\ raw[i].sure \in BOOLEAN
      BY DEF LetterOf, RawAnswers
    <3> QED BY <3>1 DEF canonicalize_solver_output, Answers
  <2>2. made' = [made EXCEPT !.pc = "decide", !.solve = answers,
                             !.gates = @ \cup {"solver contract"}]
    BY <1>2
  <2> HIDE DEF answers
  <2>3. MadeType'
    <3>1. made.gates \cup {"solver contract"} \in SUBSET (EarlyGates \cup LateGates)
      BY DEF MadeType, LateGates
    <3> QED BY <1>0, <2>1, <2>2, <3>1 DEF MadeType
  <2>4. /\ made'.pc = "decide" /\ made'.set = made.set /\ made'.review = made.review
        /\ made'.solve = answers /\ made'.pool = made.pool
        /\ made'.gates = made.gates \cup {"solver contract"}
        /\ made'.decision = None
    BY <1>0, <2>2 DEF MadeType
  <2>5. StagesInOrder'
    BY <1>0, <2>4 DEF StagesInOrder, Before, Stages
  <2>6. SetIsSound' /\ AcceptedIsApproved'
    BY <1>0, <2>4, StructureAssumption DEF SetIsSound, AcceptedIsApproved
  <2> QED BY <2>3, <2>5, <2>6
<1> QED BY <1>1, <1>2 DEF Solve

\* The checks of the decision amount to the approval of both judges.
LEMMA AcceptedMeansApproved ==
  ASSUME SetInv, \A i \in Items : Accepted(i)
  PROVE  Approved
<1> USE DEF SetInv
<1>1. PICK i \in Items : TRUE
  BY StructureAssumption
<1>2. /\ made.set # None /\ made.solve # None
      /\ \A j \in Items : SolverAgrees(j)
  BY <1>1 DEF Accepted, PlainAccepted, PoolAccepted, SolverAgrees, StagesInOrder
<1>3. SolverApproves
  <2>1. made.solve \in [Items -> Answers]
    BY <1>2 DEF MadeType
  <2> QED BY <1>2, <2>1 DEF SolverApproves, SolverAgrees, Answers
<1>4. CASE version = "v0.1"
  <2>1. \A j \in Items : PlainAccepted(j)
    BY <1>4 DEF Accepted
  <2>2. made.review # None /\ made.pool = Items
    BY <1>1, <2>1 DEF PlainAccepted, SetIsSound
  <2>3. ASSUME NEW j \in Items
        PROVE  /\ made.review[j].key = "sound"
               /\ \A l \in Letters \ {made.set[j].key} :
                    made.set[j].options[l] \in made.review[j].invalid
    BY <2>1, <2>3 DEF PlainAccepted, InvalidLetters
  <2> QED BY <1>2, <1>3, <2>2, <2>3 DEF Approved, ReviewerApproves, SetIsSound
<1>5. CASE version # "v0.1"
  <2>1. AllPassed /\ EarlyGates \subseteq made.gates
    BY <1>1, <1>5 DEF Accepted, PoolAccepted, GlobalReason
  <2>2. made.review # None /\ made.pool = Items /\ \A j \in Items : made.review[j].key = "sound"
    BY <2>1 DEF AllPassed, Passed, EarlyGates, SetIsSound
  <2> QED BY <1>2, <1>3, <1>5, <2>2 DEF Approved, ReviewerApproves, SetIsSound
<1> QED BY <1>4, <1>5

LEMMA DecideKeeps == ASSUME SetInv, Decide PROVE SetInv'
<1> USE DEF SetInv
<1>1. /\ made.pc = "decide" /\ version' = version
      /\ made' = [made EXCEPT !.pc = "generator file",
                    !.decision = IF \A i \in Items : Accepted(i) THEN "ACCEPT" ELSE "QUARANTINE"]
  BY DEF Decide
<1>2. MadeType'
  BY <1>1 DEF MadeType, Writing
<1>3. /\ made'.pc = "generator file" /\ made'.set = made.set /\ made'.review = made.review
      /\ made'.solve = made.solve /\ made'.pool = made.pool /\ made'.gates = made.gates
      /\ made'.decision = "ACCEPT" => \A i \in Items : Accepted(i)
  BY <1>1 DEF MadeType
<1>4. StagesInOrder' /\ SetIsSound'
  BY <1>1, <1>3 DEF StagesInOrder, SetIsSound, Before, Stages
<1>5. AcceptedIsApproved'
  <2>1. Approved => Approved'
    BY <1>3 DEF Approved, ReviewerApproves, SolverApproves
  <2> QED BY <1>3, <2>1, AcceptedMeansApproved DEF AcceptedIsApproved
<1> QED BY <1>2, <1>4, <1>5

LEMMA StructureStep == ASSUME SetInv, [StructureNext]_structureVars PROVE SetInv'
<1>1. CASE InvokeFails
  BY <1>1, MadeStays DEF InvokeFails, Before
<1>2. CASE WriteGenerator \/ WriteResult \/ WriteProvenance \/ Die
  <2>1. PICK step \in Writing : made' = [made EXCEPT !.pc = step]
    BY <1>2 DEF WriteGenerator, WriteResult, WriteProvenance, Die, Writing
  <2>2. made' = [made EXCEPT !.pc = step, !.failure = made.failure]
        /\ made.failure \in Stages \cup {None} /\ version' = version
    BY <1>2, <2>1 DEF SetInv, MadeType, WriteGenerator, WriteResult, WriteProvenance, Die
  <2> QED BY <2>2, MadeStays DEF Writing
<1>3. CASE UNCHANGED structureVars
  BY <1>3 DEF structureVars, SetInv, MadeType, StagesInOrder, SetIsSound, AcceptedIsApproved,
     Approved, ReviewerApproves, SolverApproves
<1> QED BY <1>1, <1>2, <1>3, GenerateKeeps, ReviewKeeps, AssembleKeeps, SolveKeeps, DecideKeeps
        DEF StructureNext

-----------------------------------------------------------------------------
(* The Structure pipelines implement JudgedSet. *)

Judged == (IF ReviewerApproves THEN {"reviewer"} ELSE {})
            \cup (IF SolverApproves THEN {"solver"} ELSE {})
Outcome == IF made.decision = None THEN "none" ELSE made.decision

\* The two judges have not spoken while there is no review and no solution.
LEMMA NobodyYet ==
  /\ made.review = None => ~ ReviewerApproves
  /\ made.solve = None => ~ SolverApproves
  /\ made.set = None => ~ ReviewerApproves /\ ~ SolverApproves
BY DEF ReviewerApproves, SolverApproves

\* A step that changes nothing a judge looks at.
LEMMA LooksTheSame ==
  ASSUME made'.set = made.set, made'.review = made.review, made'.solve = made.solve,
         made'.pool = made.pool
  PROVE  Judged' = Judged
BY DEF Judged, ReviewerApproves, SolverApproves

Quiet == made'.set = made.set /\ Judged' = Judged /\ Outcome' = Outcome

LEMMA LooksQuiet == Quiet => UNCHANGED <<{"reviewer", "solver"}, made.set, Judged, Outcome>>
BY DEF Quiet

\* Making the set, or the pool: nobody has judged it.
LEMMA GenerateIsMake == ASSUME SetInv, Generate PROVE Promise!Make \/ Quiet
<1>1. /\ made.pc = "generator" /\ made.review = None /\ made.solve = None /\ made.decision = None
  BY DEF Generate, SetInv, StagesInOrder, Before, Stages
<1>2. made'.review = None /\ made'.solve = None /\ made'.decision = None
  BY <1>1 DEF Generate, SetInv, MadeType, Stop, GeneratePlain, GeneratePool, GenerateShard, Blind
<1>3. Judged = {} /\ Judged' = {} /\ Outcome = "none" /\ Outcome' = "none"
  BY <1>1, <1>2 DEF Judged, Outcome, ReviewerApproves, SolverApproves
<1> QED BY <1>3 DEF Promise!Make, Quiet, Judged, Outcome

LEMMA ReviewIsApproval == ASSUME SetInv, Review PROVE Promise!Approve \/ Quiet
<1>1. /\ made.pc = "reviewer" /\ made.review = None /\ made.solve = None /\ made.decision = None
  BY DEF Review, SetInv, StagesInOrder, Before, Stages
<1>2. made'.set = made.set /\ made'.solve = None /\ made'.decision = None
  BY <1>1 DEF Review, SetInv, MadeType, Stop
<1>3. Judged = {} /\ Judged' \subseteq {"reviewer"} /\ Outcome = "none" /\ Outcome' = "none"
  BY <1>1, <1>2 DEF Judged, Outcome, ReviewerApproves, SolverApproves
<1> QED BY <1>2, <1>3 DEF Promise!Approve, Judged, Outcome

LEMMA AssembleIsMake == ASSUME SetInv, Assemble PROVE Promise!Make \/ Quiet
<1>1. /\ made.pc = "assemble" /\ made.set = None /\ made.solve = None /\ made.decision = None
  BY DEF Assemble, SetInv, StagesInOrder, Before, Stages
<1>2. made'.review = made.review /\ made'.pool = made.pool
      /\ made'.solve = None /\ made'.decision = None
  BY <1>1 DEF Assemble, SetInv, MadeType, Stop
<1>3. Judged = {} /\ Judged' \subseteq {"reviewer"} /\ Outcome = "none" /\ Outcome' = "none"
  BY <1>1, <1>2 DEF Judged, Outcome, ReviewerApproves, SolverApproves
<1>4. CASE made'.set = made.set
  <2>1. Judged' = {}
    BY <1>1, <1>2, <1>4 DEF Judged, ReviewerApproves, SolverApproves
  <2> QED BY <1>3, <1>4, <2>1 DEF Quiet
<1>5. CASE made'.set # made.set
  BY <1>3, <1>5 DEF Promise!Make, Judged, Outcome
<1> QED BY <1>4, <1>5

LEMMA SolveIsApproval == ASSUME SetInv, Solve PROVE Promise!Approve \/ Quiet
<1>1. /\ made.pc = "solver" /\ made.solve = None /\ made.decision = None
  BY DEF Solve, SetInv, StagesInOrder, Before, Stages
<1>2. made'.set = made.set /\ made'.review = made.review /\ made'.pool = made.pool
      /\ made'.decision = None
  BY <1>1 DEF Solve, SetInv, MadeType, Stop
<1>3. ReviewerApproves' = ReviewerApproves /\ ~ SolverApproves
  BY <1>1, <1>2 DEF ReviewerApproves, SolverApproves
<1>4. Judged \subseteq Judged' /\ Judged' \subseteq {"reviewer", "solver"}
  BY <1>3 DEF Judged
<1> QED BY <1>1, <1>2, <1>4 DEF Promise!Approve, Judged, Outcome

LEMMA DecideIsDecide == ASSUME SetInv, Decide PROVE Promise!Decide
<1>1. /\ made.pc = "decide" /\ made.decision = None
      /\ made' = [made EXCEPT !.pc = "generator file",
                    !.decision = IF \A i \in Items : Accepted(i) THEN "ACCEPT" ELSE "QUARANTINE"]
  BY DEF Decide, SetInv, StagesInOrder
<1>2. /\ made'.set = made.set /\ made'.review = made.review /\ made'.solve = made.solve
      /\ made'.pool = made.pool /\ made'.decision \in {"ACCEPT", "QUARANTINE"}
      /\ made'.decision = "ACCEPT" => \A i \in Items : Accepted(i)
  BY <1>1 DEF SetInv, MadeType
<1>3. Judged' = Judged
  BY <1>2, LooksTheSame
<1>4. Outcome = "none" /\ Outcome' = made'.decision
  BY <1>1, <1>2, StructureAssumption DEF Outcome
<1>5. made'.decision = "ACCEPT" => Judged = {"reviewer", "solver"}
  BY <1>2, AcceptedMeansApproved DEF Approved, Judged
<1> QED BY <1>2, <1>3, <1>4, <1>5 DEF Promise!Decide, Judged, Outcome

LEMMA LateIsQuiet ==
  ASSUME SetInv, InvokeFails \/ WriteGenerator \/ WriteResult \/ WriteProvenance \/ Die
                   \/ UNCHANGED structureVars
  PROVE  Quiet
<1>1. /\ made'.set = made.set /\ made'.review = made.review /\ made'.solve = made.solve
      /\ made'.pool = made.pool /\ made'.decision = made.decision
  BY DEF InvokeFails, WriteGenerator, WriteResult, WriteProvenance, Die, structureVars, SetInv, MadeType
<1> QED BY <1>1, LooksTheSame DEF Quiet, Outcome

LEMMA StructureLooks ==
  ASSUME SetInv, [StructureNext]_structureVars
  PROVE  [Promise!Next]_<<{"reviewer", "solver"}, made.set, Judged, Outcome>>
<1>1. Promise!Make \/ Promise!Approve \/ Promise!Decide \/ Quiet
  BY GenerateIsMake, ReviewIsApproval, AssembleIsMake, SolveIsApproval, DecideIsDecide,
     LateIsQuiet DEF StructureNext
<1> QED BY <1>1, LooksQuiet DEF Promise!Next

LEMMA StructureStarts ==
  ASSUME StructureInit \/ (version = "v0.3" /\ made = Idle)
  PROVE  Promise!Init
<1>1. made.set = None /\ made.review = None /\ made.solve = None /\ made.decision = None
  BY DEF StructureInit, Idle
<1> QED BY <1>1, NobodyYet DEF Promise!Init

-----------------------------------------------------------------------------
(* The Structure pipelines within the production model. *)

LEMMA StructureSteps == Next => [StructureNext]_structureVars
BY DEF Next, Make, MakeStructure, MakeReading, MakeEvidence, Harness, Assembler,
       write_problem_bank, sourceVars, structureVars

LEMMA NextStructure == [Next]_vars => [StructureNext]_structureVars
BY StructureSteps DEF vars, sourceVars

LEMMA StructureBegins == Init => StructureInit \/ (version = "v0.3" /\ made = Idle)
BY DEF Init

LEMMA SetStarts == Init => SetInv
BY StructureBegins, StructureInitInv, IdleInv

\* SetIsJudged for any number of questions, options, shards and permutations:
\* no set is accepted without the Reviewer and the Solver having approved that
\* very set, and an accepted set never changes.
THEOREM StructureImplementsJudgedSet == Spec => SetIsJudged
<1>1. Init => SetInv /\ Promise!Init
  BY SetStarts, StructureBegins, StructureStarts
<1>2. SetInv /\ [Next]_vars => SetInv'
  BY NextStructure, StructureStep
<1>3. SetInv /\ [Next]_vars =>
        [Promise!Next]_<<{"reviewer", "solver"}, made.set, Judged, Outcome>>
  BY NextStructure, StructureLooks
<1> QED BY <1>1, <1>2, <1>3, PTL DEF Spec, SetIsJudged, Promise!Spec, Judged, Outcome

-----------------------------------------------------------------------------
(* The Written Expression evidence. *)

AuditType ==
  /\ document \in G!Documents
  /\ evidence = None \/ evidence \subseteq G!Records
  /\ audit \in [pc : {"idle", "auditing", "validator", "result file", "ended"},
                loaded : G!Documents \cup {None}, outcome : [WeItems -> G!Kinds \cup {None}],
                valid : BOOLEAN, validated : G!Documents \cup {None},
                decision : G!Decisions \cup {None}]
  /\ audited \subseteq {0, 1} \X WeItems

\* A record says strong of a content the auditor found sound, and so does what
\* is held of the document at work, of which nothing is left out at the end.
RecordsAreTrue ==
  evidence # None => \A r \in evidence : r.strong => <<r.run, r.item>> \in audited
OutcomesAreTrue ==
  \A i \in WeItems : audit.outcome[i] = "strong" => <<audit.loaded.run, i>> \in audited
AuditIsWhole ==
  /\ audit.pc = "idle" => \A i \in WeItems : audit.outcome[i] = None
  /\ audit.pc \in {"auditing", "validator", "result file"} => audit.loaded \in G!Documents
  /\ audit.pc \in {"validator", "result file"} =>
       \A i \in audit.loaded.items : audit.outcome[i] # None
ValidIsSound ==
  audit.valid =>
    /\ audit.validated \in G!Documents
    /\ \A i \in audit.validated.items : <<audit.validated.run, i>> \in audited

AuditInv ==
  /\ AuditType /\ RecordsAreTrue /\ OutcomesAreTrue /\ AuditIsWhole /\ ValidIsSound
  /\ audit.pc # "ended" => audit.decision = None
  /\ G!DecisionIsEvidenced

\* What the validator accepts was audited as it is.
LEMMA StrongIsAudited ==
  ASSUME document \in G!Documents, RecordsAreTrue, G!BoundAndStrong(document, evidence)
  PROVE  \A i \in document.items : <<document.run, i>> \in audited
BY DEF G!BoundAndStrong, RecordsAreTrue

LEMMA AuditStarts == G!EvidenceInit => AuditInv
<1> SUFFICES ASSUME G!EvidenceInit PROVE AuditInv
  OBVIOUS
<1>1. evidence = None \/ (evidence = G!EarlierEvidence /\ audited = {0} \X WeItems)
  BY DEF G!EvidenceInit
<1>2. G!EarlierDocument \in G!Documents /\ G!EarlierEvidence \subseteq G!Records
  <2>1. \A i \in WeItems : [item |-> i, run |-> 0, strong |-> TRUE] \in G!Records
    BY DEF G!Records
  <2> QED BY <2>1 DEF G!EarlierDocument, G!Documents, G!EarlierEvidence
<1>3. audited \subseteq {0, 1} \X WeItems
  BY DEF G!EvidenceInit
<1>4. AuditType
  BY <1>1, <1>2, <1>3 DEF G!EvidenceInit, AuditType
<1>5. RecordsAreTrue
  BY <1>1 DEF RecordsAreTrue, G!EarlierEvidence
<1>6. OutcomesAreTrue /\ AuditIsWhole /\ ValidIsSound
  BY ProductionAssumption
     DEF G!EvidenceInit, OutcomesAreTrue, AuditIsWhole, ValidIsSound, G!Kinds
<1>7. audit.decision = None /\ G!DecisionIsEvidenced
  BY ProductionAssumption DEF G!EvidenceInit, G!DecisionIsEvidenced, G!Decisions
<1> QED BY <1>4, <1>5, <1>6, <1>7 DEF AuditInv

LEMMA AuditKeeps == ASSUME AuditInv, G!EvidenceNext PROVE AuditInv'
<1> USE DEF AuditInv
<1>1. CASE G!Load
  <2>1. /\ audit.pc = "idle" /\ UNCHANGED <<document, evidence, audited>>
        /\ audit' = [audit EXCEPT !.pc = "auditing", !.loaded = document]
    BY <1>1 DEF G!Load
  <2>2. AuditType' /\ RecordsAreTrue'
    BY <2>1 DEF AuditType, RecordsAreTrue
  <2>3. /\ audit'.outcome = audit.outcome /\ audit'.valid = audit.valid
        /\ audit'.validated = audit.validated /\ audit'.decision = audit.decision
        /\ audit'.pc = "auditing" /\ audit'.loaded = document
    BY <2>1 DEF AuditType
  <2>4. OutcomesAreTrue' /\ AuditIsWhole' /\ ValidIsSound'
    BY <2>1, <2>3, ProductionAssumption
       DEF OutcomesAreTrue, AuditIsWhole, ValidIsSound, AuditType, G!Kinds
  <2>5. audit'.decision = None /\ G!DecisionIsEvidenced'
    BY <2>1, <2>3, ProductionAssumption DEF G!DecisionIsEvidenced, G!Decisions
  <2> QED BY <2>2, <2>4, <2>5
<1>2. ASSUME NEW i \in WeItems, G!Audit(i) PROVE AuditInv'
  <2>1. PICK kind \in G!Kinds :
          /\ audit' = [audit EXCEPT !.outcome[i] = kind]
          /\ audited' = IF kind = "strong" THEN audited \cup {<<audit.loaded.run, i>>} ELSE audited
    BY <1>2 DEF G!Audit
  <2>2. /\ audit.pc = "auditing" /\ audit.loaded \in G!Documents
        /\ UNCHANGED <<document, evidence>>
    BY <1>2 DEF G!Audit, AuditIsWhole
  <2>3. /\ audit'.outcome = [audit.outcome EXCEPT ![i] = kind]
        /\ audit'.loaded = audit.loaded /\ audit'.valid = audit.valid
        /\ audit'.validated = audit.validated /\ audit'.decision = audit.decision
        /\ audit'.pc = audit.pc
    BY <2>1 DEF AuditType
  <2>4. audited \subseteq audited' /\ audited' \subseteq {0, 1} \X WeItems
    <3>1. <<audit.loaded.run, i>> \in {0, 1} \X WeItems
      BY <2>2 DEF G!Documents
    <3> QED BY <2>1, <3>1 DEF AuditType
  <2>5. AuditType'
    BY <2>1, <2>2, <2>4 DEF AuditType
  <2>6. RecordsAreTrue' /\ ValidIsSound'
    BY <2>2, <2>3, <2>4 DEF RecordsAreTrue, ValidIsSound
  <2>7. OutcomesAreTrue'
    <3> SUFFICES ASSUME NEW j \in WeItems, audit'.outcome[j] = "strong"
                 PROVE  <<audit.loaded.run, j>> \in audited'
      BY <2>3 DEF OutcomesAreTrue
    <3>1. CASE j = i
      BY <2>1, <2>3, <3>1 DEF AuditType
    <3>2. CASE j # i
      BY <2>3, <2>4, <3>2 DEF AuditType, OutcomesAreTrue
    <3> QED BY <3>1, <3>2
  <2>8. AuditIsWhole'
    BY <2>2, <2>3 DEF AuditIsWhole
  <2>9. audit'.decision = None /\ G!DecisionIsEvidenced'
    BY <2>2, <2>3, ProductionAssumption DEF G!DecisionIsEvidenced, G!Decisions
  <2> QED BY <2>5, <2>6, <2>7, <2>8, <2>9
<1>3. CASE G!WriteEvidence
  <2> DEFINE records ==
        {[item |-> i, run |-> audit.loaded.run, strong |-> audit.outcome[i] = "strong"] :
           i \in {j \in audit.loaded.items : audit.outcome[j] \in {"strong", "weak"}}}
  <2>1. /\ audit.pc = "auditing" /\ evidence' = records
        /\ audit' = [audit EXCEPT !.pc = "validator"]
        /\ UNCHANGED <<document, audited>>
        /\ \A i \in audit.loaded.items : audit.outcome[i] # None
    BY <1>3 DEF G!WriteEvidence
  <2>2. audit.loaded \in G!Documents
    BY <2>1 DEF AuditIsWhole
  <2>3. ASSUME NEW r \in records
        PROVE  r \in G!Records /\ (r.strong => <<r.run, r.item>> \in audited)
    <3>1. PICK i \in audit.loaded.items :
            r = [item |-> i, run |-> audit.loaded.run, strong |-> audit.outcome[i] = "strong"]
      BY <2>3
    <3>2. i \in WeItems /\ audit.loaded.run \in {0, 1}
      BY <2>2 DEF G!Documents
    <3>3. r.strong = (audit.outcome[i] = "strong") /\ r.run = audit.loaded.run /\ r.item = i
      BY <3>1
    <3>4. r \in G!Records
      BY <3>1, <3>2 DEF G!Records
    <3> QED BY <3>2, <3>3, <3>4 DEF OutcomesAreTrue
  <2> HIDE DEF records
  <2>5. AuditType' /\ RecordsAreTrue'
    BY <2>1, <2>3 DEF AuditType, RecordsAreTrue
  <2>6. /\ audit'.outcome = audit.outcome /\ audit'.valid = audit.valid
        /\ audit'.validated = audit.validated /\ audit'.decision = audit.decision
        /\ audit'.pc = "validator" /\ audit'.loaded = audit.loaded
    BY <2>1 DEF AuditType
  <2>7. OutcomesAreTrue' /\ AuditIsWhole' /\ ValidIsSound'
    BY <2>1, <2>2, <2>6 DEF OutcomesAreTrue, AuditIsWhole, ValidIsSound
  <2>8. audit'.decision = None /\ G!DecisionIsEvidenced'
    BY <2>1, <2>6, ProductionAssumption DEF G!DecisionIsEvidenced, G!Decisions
  <2> QED BY <2>5, <2>7, <2>8
<1>4. CASE G!Validate
  <2>1. PICK valid \in BOOLEAN :
          /\ valid => G!BoundAndStrong(document, evidence)
          /\ audit' = [audit EXCEPT !.pc = "result file", !.valid = valid,
                                    !.validated = IF valid THEN document ELSE None]
    BY <1>4 DEF G!Validate
  <2>2. audit.pc = "validator" /\ UNCHANGED <<document, evidence, audited>>
    BY <1>4 DEF G!Validate
  <2>3. AuditType' /\ RecordsAreTrue'
    BY <2>1, <2>2 DEF AuditType, RecordsAreTrue
  <2>4. /\ audit'.outcome = audit.outcome /\ audit'.loaded = audit.loaded
        /\ audit'.valid = valid /\ audit'.decision = audit.decision
        /\ audit'.pc = "result file" /\ (valid => audit'.validated = document)
    BY <2>1 DEF AuditType
  <2>5. OutcomesAreTrue' /\ AuditIsWhole'
    BY <2>2, <2>4 DEF OutcomesAreTrue, AuditIsWhole
  <2>6. ValidIsSound'
    BY <2>1, <2>2, <2>4, StrongIsAudited DEF ValidIsSound, AuditType
  <2>7. audit'.decision = None /\ G!DecisionIsEvidenced'
    BY <2>2, <2>4, ProductionAssumption DEF G!DecisionIsEvidenced, G!Decisions
  <2> QED BY <2>3, <2>5, <2>6, <2>7
<1>5. CASE G!WriteAuditResult
  <2>1. /\ audit.pc = "result file" /\ UNCHANGED <<document, evidence, audited>>
        /\ audit' = [audit EXCEPT !.pc = "ended", !.decision = G!Decision]
    BY <1>5 DEF G!WriteAuditResult
  <2>2. G!Decision \in G!Decisions
    BY DEF G!Decision, G!Decisions
  <2>3. AuditType' /\ RecordsAreTrue'
    BY <2>1, <2>2 DEF AuditType, RecordsAreTrue
  <2>4. /\ audit'.outcome = audit.outcome /\ audit'.loaded = audit.loaded
        /\ audit'.valid = audit.valid /\ audit'.decision = G!Decision
        /\ audit'.pc = "ended" /\ audit'.validated = audit.validated
    BY <2>1 DEF AuditType
  <2>5. audited' = audited /\ audit'.outcome = audit.outcome /\ audit'.loaded = audit.loaded
         /\ audit'.valid = audit.valid /\ audit'.validated = audit.validated
    BY <2>1, <2>4
  <2>6. OutcomesAreTrue' /\ ValidIsSound'
    BY <2>5 DEF OutcomesAreTrue, ValidIsSound
  <2>7. AuditIsWhole'
    BY <2>4 DEF AuditIsWhole
  <2>8. G!Decision = "PASS" => audit.valid
    BY DEF G!Decision
  <2>9. ASSUME G!Decision = "INFRASTRUCTURE_FAILURE", NEW i \in audit.loaded.items
        PROVE  audit.outcome[i] \in {"strong", "infrastructure"}
    <3>1. audit.outcome[i] \notin {"weak", "refused"}
      BY <2>9 DEF G!Decision, G!Failed
    <3>2. i \in WeItems /\ audit.outcome[i] # None
      BY <2>1 DEF AuditIsWhole, G!Documents
    <3> QED BY <3>1, <3>2 DEF AuditType, G!Kinds
  <2>10. G!DecisionIsEvidenced'
    <3>1. audit.valid => \A i \in audit.validated.items : <<audit.validated.run, i>> \in audited
      BY DEF ValidIsSound
    <3> DEFINE decided == G!Decision
    <3>2. audit'.decision = decided /\ (decided = "PASS" => audit.valid)
          /\ (decided = "INFRASTRUCTURE_FAILURE" =>
                \A i \in audit.loaded.items : audit.outcome[i] \in {"strong", "infrastructure"})
      BY <2>4, <2>8, <2>9
    <3> HIDE DEF decided
    <3> QED BY <2>5, <3>1, <3>2 DEF G!DecisionIsEvidenced
  <2> QED BY <2>3, <2>4, <2>6, <2>7, <2>10
<1>6. CASE G!AuditDies
  <2>1. /\ UNCHANGED <<document, evidence, audited>> /\ audit' = [audit EXCEPT !.pc = "ended"]
    BY <1>6 DEF G!AuditDies
  <2>2. AuditType' /\ RecordsAreTrue'
    BY <2>1 DEF AuditType, RecordsAreTrue
  <2>3. /\ audit'.outcome = audit.outcome /\ audit'.loaded = audit.loaded
        /\ audit'.valid = audit.valid /\ audit'.decision = audit.decision
        /\ audit'.pc = "ended" /\ audit'.validated = audit.validated
        /\ audit'.decision = audit.decision
    BY <2>1 DEF AuditType
  <2>4. OutcomesAreTrue' /\ ValidIsSound'
    BY <2>1, <2>3 DEF OutcomesAreTrue, ValidIsSound
  <2>5. AuditIsWhole'
    BY <2>3 DEF AuditIsWhole
  <2>6. G!DecisionIsEvidenced'
    BY <2>1, <2>3 DEF G!DecisionIsEvidenced
  <2> QED BY <2>2, <2>3, <2>4, <2>5, <2>6
<1> QED BY <1>1, <1>2, <1>3, <1>4, <1>5, <1>6 DEF G!EvidenceNext

\* The file may be rewritten under the audit.
LEMMA RewriteKeepsAudit ==
  ASSUME AuditInv, document' \in G!Documents, UNCHANGED <<evidence, audit, audited>>
  PROVE  AuditInv'
<1>1. AuditType' /\ RecordsAreTrue' /\ OutcomesAreTrue'
  BY DEF AuditInv, AuditType, RecordsAreTrue, OutcomesAreTrue
<1>2. AuditIsWhole' /\ ValidIsSound' /\ G!DecisionIsEvidenced'
  BY DEF AuditInv, AuditIsWhole, ValidIsSound, G!DecisionIsEvidenced
<1> QED BY <1>1, <1>2 DEF AuditInv

-----------------------------------------------------------------------------
(* The Written Expression directory under a rerun of the harness. *)

OutcomeFiles == [run : {0, 1}, items : SUBSET WeItems, accepted : BOOLEAN]
TestFiles == [run : {0, 1}, passed : BOOLEAN]

WeType ==
  /\ document \in G!Documents
  /\ we \in [outcomes : OutcomeFiles, tests : TestFiles,
             manifest : [document : G!Documents, outcomes : OutcomeFiles, tests : TestFiles]]
  /\ rerun \in [pc : {"document", "outcomes", "tests", "manifest", "ended"},
                reached : SUBSET WeItems, generated : SUBSET WeItems, accepted : BOOLEAN]

\* The manifest is the earlier run's until the rerun ends, and then of the files
\* as they are; the outcomes are of all items once the items are behind.
RerunInOrder ==
  /\ rerun.pc \in {"tests", "manifest", "ended"} =>
       we.outcomes = Outcomes(1, WeItems, rerun.accepted)
  /\ rerun.pc # "ended" => we.manifest = EarlierWe.manifest
  /\ rerun.pc = "ended" => we.manifest = Manifest(document, we.outcomes, we.tests)

RerunInv == WeType /\ RerunInOrder

LEMMA RerunStarts ==
  ASSUME G!EvidenceInit, we = EarlierWe,
         rerun = [pc |-> "document", reached |-> {}, generated |-> {}, accepted |-> TRUE]
  PROVE  RerunInv
<1>1. G!EarlierDocument \in G!Documents /\ document = G!EarlierDocument
  BY DEF G!EvidenceInit, G!EarlierDocument, G!Documents
<1>2. Outcomes(0, WeItems, TRUE) \in OutcomeFiles /\ Tests(0, TRUE) \in TestFiles
  BY DEF Outcomes, Tests, OutcomeFiles, TestFiles
<1>3. WeType
  BY <1>1, <1>2 DEF WeType, EarlierWe, Manifest
<1>4. RerunInOrder
  BY DEF RerunInOrder
<1> QED BY <1>3, <1>4 DEF RerunInv

LEMMA HarnessKeeps == ASSUME RerunInv, Harness PROVE RerunInv'
<1> USE DEF RerunInv
<1>1. CASE RewriteDocument
  <2>1. PICK i \in WeItems, generated \in BOOLEAN, accepted \in BOOLEAN :
          LET all == rerun.generated \cup (IF generated THEN {i} ELSE {})
          IN  /\ document' = [run |-> 1, items |-> all]
              /\ rerun' = [pc |-> "outcomes", reached |-> rerun.reached \cup {i},
                           generated |-> all, accepted |-> rerun.accepted /\ accepted]
    BY <1>1 DEF RewriteDocument
  <2>2. rerun.pc = "document" /\ we' = we
    BY <1>1 DEF RewriteDocument
  <2>3. (rerun.accepted /\ accepted) \in BOOLEAN
    OBVIOUS
  <2>4. rerun.generated \cup (IF generated THEN {i} ELSE {}) \in SUBSET WeItems
    BY DEF WeType
  <2>5. WeType'
    BY <2>1, <2>2, <2>3, <2>4 DEF WeType, G!Documents
  <2>6. RerunInOrder'
    BY <2>1, <2>2 DEF RerunInOrder, EarlierWe
  <2> QED BY <2>5, <2>6
<1>2. CASE RewriteOutcomes
  <2>1. /\ rerun.pc = "outcomes" /\ document' = document
        /\ we' = [we EXCEPT !.outcomes = Outcomes(1, rerun.reached, rerun.accepted)]
        /\ rerun' = [rerun EXCEPT !.pc = IF rerun.reached = WeItems THEN "tests" ELSE "document"]
    BY <1>2 DEF RewriteOutcomes
  <2>2. Outcomes(1, rerun.reached, rerun.accepted) \in OutcomeFiles
    BY DEF WeType, Outcomes, OutcomeFiles
  <2>3. WeType'
    BY <2>1, <2>2 DEF WeType
  <2>4. /\ rerun'.accepted = rerun.accepted /\ we'.manifest = we.manifest
        /\ rerun'.pc # "ended" /\ (rerun'.pc = "tests" => rerun.reached = WeItems)
        /\ rerun'.pc \notin {"manifest", "ended"}
        /\ we'.outcomes = Outcomes(1, rerun.reached, rerun.accepted)
    BY <2>1 DEF WeType
  <2>5. RerunInOrder'
    BY <2>1, <2>4 DEF RerunInOrder, EarlierWe
  <2> QED BY <2>3, <2>5
<1>3. CASE RewriteTests
  <2>1. PICK passed \in BOOLEAN : we' = [we EXCEPT !.tests = Tests(1, passed)]
    BY <1>3 DEF RewriteTests
  <2>2. rerun.pc = "tests" /\ document' = document /\ rerun' = [rerun EXCEPT !.pc = "manifest"]
    BY <1>3 DEF RewriteTests
  <2>3. Tests(1, passed) \in TestFiles
    BY DEF Tests, TestFiles
  <2>4. WeType'
    BY <2>1, <2>2, <2>3 DEF WeType
  <2>5. /\ rerun'.accepted = rerun.accepted /\ we'.manifest = we.manifest
        /\ rerun'.pc = "manifest" /\ we'.outcomes = we.outcomes
    BY <2>1, <2>2 DEF WeType
  <2>6. RerunInOrder'
    BY <2>2, <2>5 DEF RerunInOrder, EarlierWe
  <2> QED BY <2>4, <2>6
<1>4. CASE RewriteManifest
  <2>1. /\ rerun.pc = "manifest" /\ document' = document
        /\ we' = [we EXCEPT !.manifest = Manifest(document, we.outcomes, we.tests)]
        /\ rerun' = [rerun EXCEPT !.pc = "ended"]
    BY <1>4 DEF RewriteManifest
  <2>2. WeType'
    BY <2>1 DEF WeType, Manifest
  <2>3. /\ rerun'.accepted = rerun.accepted /\ rerun'.pc = "ended"
        /\ we'.outcomes = we.outcomes /\ we'.tests = we.tests
        /\ we'.manifest = Manifest(document, we.outcomes, we.tests)
    BY <2>1 DEF WeType
  <2>4. RerunInOrder'
    BY <2>1, <2>3 DEF RerunInOrder
  <2> QED BY <2>2, <2>4
<1> QED BY <1>1, <1>2, <1>3, <1>4 DEF Harness

LEMMA RerunUntouched ==
  ASSUME RerunInv, UNCHANGED <<document, we, rerun>> PROVE RerunInv'
BY DEF RerunInv, WeType, RerunInOrder, EarlierWe

\* A manifest that matches its files, of a run whose items are all accepted, is
\* of one finished run.
LEMMA MatchedIsWhole ==
  ASSUME RerunInv, document = we.manifest.document, document.items = we.outcomes.items,
         AllAccepted(we.outcomes)
  PROVE  document.items = WeItems /\ (document.run = 1 => rerun.pc = "ended" /\ rerun.accepted)
<1>1. CASE rerun.pc = "ended"
  BY <1>1 DEF RerunInv, RerunInOrder, Outcomes, AllAccepted
<1>2. CASE rerun.pc # "ended"
  BY <1>2 DEF RerunInv, RerunInOrder, EarlierWe, Manifest, G!EarlierDocument
<1> QED BY <1>1, <1>2

-----------------------------------------------------------------------------
(* The files of the Structure directory. *)

\* What a result found there is: the earlier run's, or of the set as decided.
OfStructure(result) ==
  \/ result = EarlierFiles.result
  \/ made.decision # None /\ result = Recorded(1, made.set, made.decision)

FilesInv ==
  /\ files = [generator |-> files.generator, result |-> files.result,
              provenance |-> files.provenance]
  /\ files.provenance \in {None, 0, 1}
  /\ files.result # None => OfStructure(files.result)
  /\ made.pc \in Writing \ {"ended"} => made.decision # None

\* After the decision what was made stays as it is.
DecidedStays ==
  made.decision # None =>
    /\ made'.decision = made.decision /\ made'.set = made.set
    /\ Approved => Approved'

LEMMA DecisionIsLast ==
  ASSUME SetInv, [StructureNext]_structureVars PROVE version' = version /\ DecidedStays
<1>1. CASE made.decision = None
  BY <1>1 DEF DecidedStays, StructureNext, structureVars, InvokeFails, Generate, Review, Assemble,
     Solve, Decide, WriteGenerator, WriteResult, WriteProvenance, Die
<1>2. CASE made.decision # None
  <2>1. made.pc \notin Before \cup {"decide"}
    BY <1>2 DEF SetInv, StagesInOrder
  <2>2. WriteGenerator \/ WriteResult \/ WriteProvenance \/ Die \/ UNCHANGED structureVars
    BY <2>1 DEF StructureNext, InvokeFails, Generate, Review, Assemble, Solve, Decide, Before, Stages
  <2>3. /\ version' = version /\ made'.set = made.set /\ made'.review = made.review
        /\ made'.solve = made.solve /\ made'.pool = made.pool /\ made'.decision = made.decision
    BY <2>2 DEF WriteGenerator, WriteResult, WriteProvenance, Die, structureVars, SetInv, MadeType
  <2>4. Approved' = Approved
    BY <2>3 DEF Approved, ReviewerApproves, SolverApproves
  <2> QED BY <2>3, <2>4 DEF DecidedStays
<1> QED BY <1>1, <1>2

LEMMA OfStructureStays ==
  ASSUME version' = version, DecidedStays
  PROVE  \A result : OfStructure(result) => OfStructure(result)'
BY DEF OfStructure, DecidedStays, Recorded, EarlierFiles

LEMMA FilesStart == Init => FilesInv
<1> SUFFICES ASSUME Init PROVE FilesInv
  OBVIOUS
<1>1. files \in {NoFiles, EarlierFiles}
  BY DEF Init, StructureInit
<1>2. made.pc \notin Writing \ {"ended"}
  <2>1. made = Idle \/ made = [Idle EXCEPT !.pc = "generator"]
    BY DEF Init, StructureInit
  <2>2. made.pc \in {"ended", "generator"}
    BY <2>1 DEF Idle
  <2> QED BY <2>2 DEF Writing
<1>3. files = NoFiles => files.result = None
  BY DEF NoFiles
<1> QED BY <1>1, <1>2, <1>3 DEF FilesInv, NoFiles, EarlierFiles, OfStructure

LEMMA FilesKeep ==
  ASSUME SetInv, FilesInv, [StructureNext]_structureVars PROVE FilesInv'
<1>1. version' = version /\ DecidedStays
  BY DecisionIsLast
<1>2. ASSUME files'.result = files.result
      PROVE  files'.result # None => OfStructure(files.result)'
  BY <1>1, <1>2, OfStructureStays DEF FilesInv, OfStructure
<1>3. CASE InvokeFails \/ Generate \/ Review \/ Assemble \/ Solve \/ Die \/ UNCHANGED structureVars
  <2>1. files' = files
    BY <1>3 DEF InvokeFails, Generate, Review, Assemble, Solve, Die, structureVars
  <2>2. made'.pc \in Before \cup {"decide", "ended"} \/ made' = made
    BY <1>3 DEF InvokeFails, Generate, GeneratePlain, GeneratePool, GenerateShard, Blind, Review,
       Assemble, Solve, Die, structureVars, Stop, SetInv, MadeType, Before, Stages
  <2>3. made'.pc \in Writing \ {"ended"} => made'.decision # None
    BY <2>2 DEF Before, Stages, Writing, FilesInv
  <2> QED BY <1>2, <2>1, <2>3 DEF FilesInv
<1>4. CASE Decide
  <2>1. files' = files /\ made'.decision \in {"ACCEPT", "QUARANTINE"}
    BY <1>4 DEF Decide, SetInv, MadeType
  <2> QED BY <1>2, <2>1, StructureAssumption DEF FilesInv
<1>5. CASE WriteGenerator \/ WriteResult \/ WriteProvenance
  <2>1. made.decision # None
    BY <1>5 DEF WriteGenerator, WriteResult, WriteProvenance, FilesInv, Writing
  <2>2. made'.decision # None /\ made'.decision = made.decision /\ made'.set = made.set
    BY <1>1, <2>1 DEF DecidedStays
  <2>3. CASE WriteResult
    <3>1. files' = [files EXCEPT !.result = Recorded(1, made.set, made.decision)]
      BY <2>3 DEF WriteResult
    <3>2. OfStructure(Recorded(1, made.set, made.decision))'
      BY <1>1, <2>2 DEF OfStructure, Recorded
    <3>3. /\ files'.result = Recorded(1, made.set, made.decision)
          /\ files'.provenance = files.provenance
          /\ files' = [generator |-> files'.generator, result |-> files'.result,
                       provenance |-> files'.provenance]
      BY <3>1 DEF FilesInv
    <3>4. OfStructure(files.result)'
      BY <1>1, <2>2, <3>3 DEF OfStructure, Recorded
    <3> QED BY <2>2, <3>3, <3>4 DEF FilesInv
  <2>4. CASE WriteGenerator \/ WriteProvenance
    <3>1. /\ files'.result = files.result /\ files'.provenance \in {None, 0, 1}
          /\ files' = [generator |-> files'.generator, result |-> files'.result,
                       provenance |-> files'.provenance]
      BY <2>4 DEF WriteGenerator, WriteProvenance, FilesInv
    <3> QED BY <1>2, <2>2, <3>1 DEF FilesInv
  <2> QED BY <1>5, <2>3, <2>4
<1> QED BY <1>3, <1>4, <1>5 DEF StructureNext

-----------------------------------------------------------------------------
(* The Reading pipeline, with what Reading_proofs shows of it. *)

RP == INSTANCE Reading_proofs WITH Items <- ReadingItems, Inference <- ReadingItems

LEMMA ReadingAssumed == RP!ReadingAssumption
BY ProductionAssumption
   DEF RP!ReadingAssumption, R!Sets, RP!Sets, R!Stages, RP!Stages, R!Decisions, RP!Decisions,
       R!Files, RP!Files, R!Results, RP!Results

\* R and RP are two instances of one module, and what R does RP does.
LEMMA SameStart == R!Init => RP!Init
BY DEF R!Init, RP!Init, R!EarlierRun, RP!EarlierRun, R!EmptyDirectory, RP!EmptyDirectory,
       R!Written, RP!Written

LEMMA SameStep == R!Next => RP!Next
<1>1. R!Fail \/ R!Generate \/ R!Verify \/ R!BlindInput => RP!Next
  BY DEF RP!Next, R!Fail, RP!Fail, R!Stages, RP!Stages, R!Generate, RP!Generate,
         R!NotBound, RP!NotBound, R!Bound, RP!Bound, R!StopHere, RP!StopHere, R!Written, RP!Written,
         R!GeneratorContract, RP!GeneratorContract, R!Diagnostics, RP!Diagnostics,
         R!Verify, RP!Verify, R!Flagged, RP!Flagged, R!InferenceJudgments, RP!InferenceJudgments,
         R!BlindInput, RP!BlindInput
<1>2. R!Review \/ R!FinalReview \/ R!Solve => RP!Next
  BY DEF RP!Next, R!Review, RP!Review, R!Reviews, RP!Reviews, R!Judgments, RP!Judgments,
         R!Blocking, RP!Blocking, R!ToRepair, RP!ToRepair, R!Repairable, RP!Repairable,
         R!QualityPass, RP!QualityPass, R!FinalReview, RP!FinalReview,
         R!Solve, RP!Solve, R!Solutions, RP!Solutions
<1>3. R!Repair \/ R!VerifyCandidates => RP!Next
  BY DEF RP!Next, R!Repair, RP!Repair, R!Requested, RP!Requested, R!Survive, RP!Survive,
         R!StopHere, RP!StopHere, R!VerifyCandidates, RP!VerifyCandidates,
         R!CandidateJudgments, RP!CandidateJudgments, R!Ranks, RP!Ranks, R!Eligible, RP!Eligible,
         R!Merge, RP!Merge, R!Selected, RP!Selected, R!Written, RP!Written
<1>4. R!Decide \/ R!WriteProvenance \/ R!WriteResult \/ R!WriteBatchResult => RP!Next
  BY DEF RP!Next, R!Decide, RP!Decide, R!Accepts, RP!Accepts, R!NoDefects, RP!NoDefects,
         R!AllAgree, RP!AllAgree, R!WriteProvenance, RP!WriteProvenance,
         R!WriteResult, RP!WriteResult, R!Result, RP!Result, R!Written, RP!Written,
         R!WriteBatchResult, RP!WriteBatchResult
<1>5. R!Raise \/ R!RecordFailure \/ R!WriteFailureResult \/ R!WriteFailureProvenance
        \/ R!GiveUpFailure \/ R!Die => RP!Next
  BY DEF RP!Next, R!Raise, RP!Raise, R!Steps, RP!Steps, R!Stages, RP!Stages,
         R!RecordFailure, RP!RecordFailure, R!WriteFailureResult, RP!WriteFailureResult,
         R!WriteFailureProvenance, RP!WriteFailureProvenance,
         R!GiveUpFailure, RP!GiveUpFailure, R!Die, RP!Die
<1> QED BY <1>1, <1>2, <1>3, <1>4, <1>5 DEF R!Next

ReadingInv == RP!Inv /\ RP!DiskInv

LEMMA ReadingStarts == Init => ReadingInv
BY ReadingAssumed, SameStart, RP!InitInv, RP!InitDisk DEF Init, ReadingInv

LEMMA NextReading == [Next]_vars => [RP!Next]_RP!vars
<1>1. Next => RP!Next \/ UNCHANGED readingVars
  BY SameStep DEF Next, Make, MakeStructure, MakeReading, MakeEvidence, Harness, Assembler,
     write_problem_bank, sourceVars
<1> QED BY <1>1 DEF vars, sourceVars, readingVars, RP!vars

LEMMA ReadingKeeps == ASSUME ReadingInv, [RP!Next]_RP!vars PROVE ReadingInv'
BY ReadingAssumed, RP!StepInv, RP!StepDisk DEF ReadingInv

Past == RP!Steps \ (RP!Running \cup {"check"})

\* What a result found there is: the earlier run's, or, if it says ACCEPT, of
\* the questions as they are, which nothing replaces any more.
OfReading(result) ==
  /\ result \in RP!Results
  /\ result.run = 0 => result = RP!EarlierRun.result
  /\ plan.mode # "v0.1" /\ result.run = 1 /\ result.decision = "ACCEPT" =>
       /\ run.pc \in Past /\ run.generator # None /\ RP!Judged
       /\ result.made = RP!Written(1, run.generator)

LEMMA OfReadingStays ==
  ASSUME ReadingInv, [RP!Next]_RP!vars
  PROVE  \A result : OfReading(result) => OfReading(result)'
<1>1. plan' = plan /\ (run.pc \in Past => RP!Settled /\ run'.pc \in Past)
  BY ReadingAssumed, RP!PlanStays, RP!PastIsSettled DEF ReadingInv, Past
<1>2. RP!Settled /\ RP!Judged => RP!Judged'
  BY ReadingAssumed, RP!SettledKeepsJudged
<1> QED BY <1>1, <1>2 DEF OfReading, RP!Settled

LEMMA DiskIsOfReading == ASSUME ReadingInv, disk.result # None PROVE OfReading(disk.result)
<1>1. run.pc \in RP!Steps
  BY DEF ReadingInv, RP!Inv, RP!RunType
<1> QED BY <1>1 DEF ReadingInv, RP!DiskInv, RP!DiskType, RP!FilesInOrder, OfReading, Past

-----------------------------------------------------------------------------
(* The assembler. *)

AfterStructure == {"written_expression"} \cup {"reading", "combine", "write", "written"}
AfterWe == {"reading", "combine", "write", "written"}
AfterReading == {"combine", "write", "written"}

AsmType ==
  /\ asm = [pc |-> asm.pc, asked |-> asm.asked, seen |-> asm.seen, stable |-> asm.stable,
            taken |-> asm.taken]
  /\ asm.pc \in Sections \cup {"combine", "write", "written", "refused"}
  /\ asm.asked \subseteq Sections
  /\ asm.stable \in BOOLEAN
  /\ asm.taken = [s \in asm.asked |-> asm.taken[s]]
  /\ \E S : asm.seen \in Seq(S)
  /\ asm.pc \in Sections \ asm.asked => asm.seen = <<>>

\* What has been read of the section at work.  Structure and Reading may have
\* been written again since, but a result that says ACCEPT stays true.
SeenStructure ==
  asm.pc = "structure" =>
    /\ Len(asm.seen) > 0 => OfStructure(asm.seen[1])
    /\ Len(asm.seen) > 1 => asm.seen[2] # None
SeenReading ==
  asm.pc = "reading" =>
    /\ Len(asm.seen) > 0 => OfReading(asm.seen[1])
    /\ Len(asm.seen) > 1 => asm.seen[2] # None

\* Of Written Expression what was compared is still so, if nothing was written.
SeenDocument ==
  asm.pc = "written_expression" /\ Len(asm.seen) > 6 => asm.seen[7] \in G!Documents
SeenWe ==
  asm.pc = "written_expression" /\ asm.stable =>
    /\ Len(asm.seen) > 0 => asm.seen[1] = we.manifest
    /\ Len(asm.seen) > 1 => document = we.manifest.document
    /\ Len(asm.seen) > 4 => asm.seen[5] = we.outcomes /\ AllAccepted(we.outcomes)
    /\ Len(asm.seen) > 6 => asm.seen[7] = document /\ document.items = we.outcomes.items

Seen == SeenStructure /\ SeenReading /\ SeenDocument /\ SeenWe

\* What a section taken into the bank is.
WholeStructure(content) ==
  content # None =>
    \/ content = EarlierFiles.generator
    \/ made.decision = "ACCEPT" /\ content = <<1, made.set>>
WholeReading(content) ==
  content # None =>
    \/ content = RP!EarlierRun.generator
    \/ /\ run.pc \in Past /\ run.generator # None /\ RP!Judged
       /\ content = RP!Written(1, run.generator)
WholeWe(content) ==
  content # None =>
    /\ content.items = WeItems
    /\ content.run = 1 => rerun.pc = "ended" /\ rerun.accepted
    /\ \A i \in content.items : <<content.run, i>> \in audited

Taken ==
  /\ "structure" \in asm.asked => WholeStructure(asm.taken["structure"])
  /\ "reading" \in asm.asked => WholeReading(asm.taken["reading"])
  /\ "written_expression" \in asm.asked /\ asm.stable => WholeWe(asm.taken["written_expression"])

\* A section that is asked for and behind is taken.
AllTaken ==
  /\ "structure" \in asm.asked /\ asm.pc \in AfterStructure => asm.taken["structure"] # None
  /\ "written_expression" \in asm.asked /\ asm.pc \in AfterWe =>
       asm.taken["written_expression"] # None
  /\ "reading" \in asm.asked /\ asm.pc \in AfterReading => asm.taken["reading"] # None

AsmInv ==
  /\ AsmType /\ Seen /\ Taken /\ AllTaken
  /\ bank # None => asm.pc = "written" /\ bank = asm.taken

LEMMA AppendedTo ==
  ASSUME NEW seen, \E S : seen \in Seq(S), NEW value
  PROVE  /\ \E S : Append(seen, value) \in Seq(S)
         /\ Len(seen) \in Nat /\ Len(Append(seen, value)) = Len(seen) + 1
         /\ Append(seen, value)[Len(seen) + 1] = value
         /\ \A n \in 1..Len(seen) : Append(seen, value)[n] = seen[n]
<1>1. PICK S : seen \in Seq(S)
  OBVIOUS
<1> DEFINE T == S \cup {value}
<1>2. seen \in Seq(T) /\ value \in T
  BY <1>1
<1> HIDE DEF T
<1>3. Append(seen, value) \in Seq(T)
  BY <1>2
<1>4. /\ Len(seen) \in Nat /\ Len(Append(seen, value)) = Len(seen) + 1
      /\ Append(seen, value)[Len(seen) + 1] = value
      /\ \A n \in 1..Len(seen) : Append(seen, value)[n] = seen[n]
  BY <1>2
<1> QED BY <1>3, <1>4

LEMMA Lengths ==
  ASSUME NEW n \in Nat
  PROVE  /\ n + 1 > 1 => n = 1 \/ n > 1
         /\ n + 1 > 4 => n = 4 \/ n > 4
         /\ n + 1 > 6 => n = 6 \/ n > 6
         /\ n \notin {0, 1, 2} => n > 0 /\ n > 1
         /\ n \notin {0, 1, 2, 3, 4, 5, 6} => n > 0 /\ n > 1 /\ n > 4 /\ n > 6
OBVIOUS

LEMMA EmptyIsASequence == <<>> \in Seq({}) /\ Len(<<>>) = 0
OBVIOUS

LEMMA AsmStarts == Init => AsmInv
<1> SUFFICES ASSUME Init PROVE AsmInv
  OBVIOUS
<1>1. PICK asked \in {{busy}, Sections} :
        asm = [pc |-> "structure", asked |-> asked, seen |-> <<>>, stable |-> TRUE,
               taken |-> [s \in asked |-> None]]
  BY DEF Init
<1>2. asked \subseteq Sections /\ bank = None
  BY DEF Init
<1>3. /\ asm.pc = "structure" /\ asm.asked = asked /\ asm.seen = <<>>
      /\ asm.stable = TRUE /\ asm.taken = [s \in asked |-> None]
  BY <1>1
<1>4. \E S : asm.seen \in Seq(S)
  BY <1>3, EmptyIsASequence
<1>5. AsmType
  BY <1>1, <1>2, <1>3, <1>4 DEF AsmType, Sections
<1>6. Seen
  BY <1>3 DEF Seen, SeenStructure, SeenReading, SeenDocument, SeenWe
<1>7. \A s \in asked : asm.taken[s] = None
  BY <1>3
<1>8. Taken /\ AllTaken
  BY <1>3, <1>7 DEF Taken, AllTaken, WholeStructure, WholeReading, WholeWe, AfterStructure,
     AfterWe, AfterReading
<1> QED BY <1>2, <1>5, <1>6, <1>8 DEF AsmInv

\* Before the first reading there is nothing to say.
LEMMA NothingSeen == Len(asm.seen) = 0 => Seen
BY DEF Seen, SeenStructure, SeenReading, SeenDocument, SeenWe

\* The pipelines go on: what was taken stays whole.
LEMMA WholeStays ==
  ASSUME SetInv, ReadingInv, RerunInv, AuditInv, [Next]_vars
  PROVE  /\ \A content : WholeStructure(content) => WholeStructure(content)'
         /\ \A content : WholeReading(content) => WholeReading(content)'
         /\ \A content : WholeWe(content) => WholeWe(content)'
<1>1. \A content : WholeStructure(content) => WholeStructure(content)'
  <2>1. version' = version /\ DecidedStays
    BY NextStructure, DecisionIsLast
  <2>2. EarlierFiles' = EarlierFiles
    BY <2>1 DEF EarlierFiles, Recorded
  <2> QED BY <2>1, <2>2, StructureAssumption DEF WholeStructure, DecidedStays
<1>2. \A content : WholeReading(content) => WholeReading(content)'
  <2>1. run.pc \in Past => RP!Settled /\ run'.pc \in Past
    BY NextReading, ReadingAssumed, RP!PastIsSettled DEF ReadingInv, Past
  <2>2. RP!Settled /\ RP!Judged => RP!Judged'
    BY ReadingAssumed, RP!SettledKeepsJudged
  <2> QED BY <2>1, <2>2 DEF WholeReading, RP!Settled
<1>3. \A content : WholeWe(content) => WholeWe(content)'
  <2>1. audited \subseteq audited'
    BY DEF Next, Make, MakeStructure, MakeReading, MakeEvidence, Harness, Assembler,
       write_problem_bank, vars, sourceVars, weVars, G!EvidenceNext, G!Load, G!Audit,
       G!WriteEvidence, G!Validate, G!WriteAuditResult, G!AuditDies
  <2>2. rerun.pc = "ended" => rerun' = rerun
    BY DEF Next, Make, MakeStructure, MakeReading, MakeEvidence, Harness, Assembler,
       write_problem_bank, vars, sourceVars, weVars, RewriteDocument, RewriteOutcomes,
       RewriteTests, RewriteManifest
  <2> QED BY <2>1, <2>2 DEF WholeWe
<1> QED BY <1>1, <1>2, <1>3

LEMMA MakeKeepsAsm ==
  ASSUME AsmInv, SetInv, ReadingInv, RerunInv, AuditInv, Make PROVE AsmInv'
<1> USE DEF AsmInv
<1>0. Next
  BY DEF Next
<1>1. /\ asm'.pc = asm.pc /\ asm'.asked = asm.asked /\ asm'.seen = asm.seen
      /\ asm'.taken = asm.taken /\ bank' = bank /\ asm'.stable \in BOOLEAN
      /\ asm' = [pc |-> asm'.pc, asked |-> asm'.asked, seen |-> asm'.seen,
                 stable |-> asm'.stable, taken |-> asm'.taken]
      /\ asm'.stable =>
           asm.stable /\ (asm.pc = "written_expression" => UNCHANGED <<document, we>>)
  BY DEF Make, AsmType
<1>2. AsmType'
  BY <1>1 DEF AsmType
<1>3. \A result : OfStructure(result) => OfStructure(result)'
  BY <1>0, NextStructure, DecisionIsLast, OfStructureStays
<1>4. \A result : OfReading(result) => OfReading(result)'
  BY <1>0, NextReading, OfReadingStays
<1>5. SeenStructure' /\ SeenReading'
  BY <1>1, <1>3, <1>4 DEF Seen, SeenStructure, SeenReading, OfStructure, OfReading
<1>6. SeenDocument' /\ SeenWe'
  BY <1>1 DEF Seen, SeenDocument, SeenWe, AllAccepted
<1>7. Taken'
  <2>1. /\ \A content : WholeStructure(content) => WholeStructure(content)'
        /\ \A content : WholeReading(content) => WholeReading(content)'
        /\ \A content : WholeWe(content) => WholeWe(content)'
    BY <1>0, WholeStays
  <2>2. "structure" \in asm'.asked => WholeStructure(asm.taken["structure"])'
    BY <1>1, <2>1 DEF Taken, WholeStructure
  <2>3. "reading" \in asm'.asked => WholeReading(asm.taken["reading"])'
    BY <1>1, <2>1 DEF Taken, WholeReading
  <2>4. "written_expression" \in asm'.asked /\ asm'.stable =>
          WholeWe(asm.taken["written_expression"])'
    BY <1>1, <2>1 DEF Taken, WholeWe
  <2> QED BY <2>2, <2>3, <2>4 DEF Taken
<1>8. AllTaken'
  BY <1>1 DEF AllTaken
<1> QED BY <1>1, <1>2, <1>5, <1>6, <1>7, <1>8 DEF Seen

\* A step of the assembler leaves what sections are as it is.
LEMMA SourcesSame ==
  ASSUME UNCHANGED sourceVars
  PROVE  /\ \A result : OfStructure(result)' = OfStructure(result)
         /\ \A result : OfReading(result)' = OfReading(result)
         /\ \A content : WholeStructure(content)' = WholeStructure(content)
         /\ \A content : WholeReading(content)' = WholeReading(content)
         /\ \A content : WholeWe(content)' = WholeWe(content)
         /\ UNCHANGED <<made, version, files, disk, plan, run, verified, we, document, evidence>>
<1>1. UNCHANGED <<version, made, files, plan, run, verified, disk, batch,
                  document, evidence, audit, audited, we, rerun>>
  BY DEF sourceVars, structureVars, readingVars, weVars
<1>2. RP!Judged' = RP!Judged
  BY <1>1 DEF RP!Judged, RP!Reviewed, RP!Solved, RP!Verified
<1> QED BY <1>1, <1>2 DEF OfStructure, OfReading, WholeStructure, WholeReading, WholeWe,
                         EarlierFiles, Recorded

LEMMA AssemblerSame == Assembler => UNCHANGED sourceVars /\ bank' = bank
BY DEF Assembler

\* A refusal keeps nothing.
LEMMA RefuseKeeps ==
  ASSUME AsmInv, UNCHANGED sourceVars, bank' = bank, Refuse, asm.pc # "written"
  PROVE  AsmInv'
<1> USE DEF AsmInv
<1>1. asm' = [asm EXCEPT !.pc = "refused", !.seen = <<>>]
  BY DEF Refuse
<1>2. /\ asm'.pc = "refused" /\ asm'.asked = asm.asked /\ asm'.seen = <<>>
      /\ asm'.taken = asm.taken /\ asm'.stable = asm.stable
      /\ asm' = [pc |-> asm'.pc, asked |-> asm'.asked, seen |-> asm'.seen,
                 stable |-> asm'.stable, taken |-> asm'.taken]
  BY <1>1 DEF AsmType
<1>3. \E S : asm'.seen \in Seq(S)
  BY <1>2, EmptyIsASequence
<1>4. AsmType'
  BY <1>2, <1>3 DEF AsmType, Sections
<1>5. Seen' /\ AllTaken'
  BY <1>2 DEF Seen, SeenStructure, SeenReading, SeenDocument, SeenWe, AllTaken, AfterStructure,
     AfterWe, AfterReading
<1>6. Taken'
  BY <1>2, SourcesSame DEF Taken, WholeStructure, WholeReading, WholeWe
<1> QED BY <1>2, <1>4, <1>5, <1>6

\* One more reading.
LEMMA AppendKeeps ==
  ASSUME AsmInv, UNCHANGED sourceVars, bank' = bank, asm.pc \in asm.asked, NEW value,
         asm' = [asm EXCEPT !.seen = Append(@, value)], Seen'
  PROVE  AsmInv'
<1> USE DEF AsmInv
<1>1. /\ asm'.pc = asm.pc /\ asm'.asked = asm.asked /\ asm'.seen = Append(asm.seen, value)
      /\ asm'.taken = asm.taken /\ asm'.stable = asm.stable
      /\ asm' = [pc |-> asm'.pc, asked |-> asm'.asked, seen |-> asm'.seen,
                 stable |-> asm'.stable, taken |-> asm'.taken]
  BY DEF AsmType
<1>2. \E S : asm'.seen \in Seq(S)
  BY <1>1, AppendedTo DEF AsmType
<1>3. AsmType'
  BY <1>1, <1>2 DEF AsmType
<1>4. AllTaken'
  BY <1>1 DEF AllTaken
<1>5. Taken'
  BY <1>1, SourcesSame DEF Taken, WholeStructure, WholeReading, WholeWe
<1>6. asm.pc # "written"
  BY DEF AsmType, Sections
<1> QED BY <1>1, <1>3, <1>4, <1>5, <1>6

\* A section that is whole is taken, and the next one's turn.
LEMMA TakeKeeps ==
  ASSUME AsmInv, UNCHANGED sourceVars, bank' = bank, NEW section \in asm.asked,
         asm.pc = section, NEW content, content # None, NEW next,
         \/ section = "structure" /\ next = "written_expression" /\ WholeStructure(content)
         \/ section = "written_expression" /\ next = "reading"
              /\ (asm.stable => WholeWe(content))
         \/ section = "reading" /\ next = "combine" /\ WholeReading(content),
         Take(section, content, next)
  PROVE  AsmInv'
<1> USE DEF AsmInv
<1>1. asm' = [asm EXCEPT !.pc = next, !.taken[section] = content, !.seen = <<>>]
  BY DEF Take
<1> DEFINE taken == [asm.taken EXCEPT ![section] = content]
<1>2. /\ asm'.pc = next /\ asm'.asked = asm.asked /\ asm'.seen = <<>>
      /\ asm'.taken = taken /\ asm'.stable = asm.stable
      /\ asm' = [pc |-> asm'.pc, asked |-> asm'.asked, seen |-> asm'.seen,
                 stable |-> asm'.stable, taken |-> asm'.taken]
  BY <1>1 DEF AsmType
<1>3. /\ taken = [s \in asm.asked |-> taken[s]]
      /\ taken[section] = content
      /\ \A s \in asm.asked \ {section} : taken[s] = asm.taken[s]
  BY DEF AsmType
<1> HIDE DEF taken
<1>4. (\E S : asm'.seen \in Seq(S)) /\ Len(asm'.seen) = 0
  BY <1>2, EmptyIsASequence
<1>5. AsmType'
  BY <1>2, <1>3, <1>4 DEF AsmType, Sections
<1>6. Seen'
  <2>1. (Len(asm.seen) = 0)'
    BY <1>4
  <2> QED BY <2>1, NothingSeen, PTL
<1>7. Taken'
  <2>1. "structure" \in asm.asked => WholeStructure(taken["structure"])
    BY <1>3 DEF Taken
  <2>2. "reading" \in asm.asked => WholeReading(taken["reading"])
    BY <1>3 DEF Taken
  <2>3. "written_expression" \in asm.asked /\ asm.stable => WholeWe(taken["written_expression"])
    BY <1>3 DEF Taken
  <2> QED BY <1>2, <2>1, <2>2, <2>3, SourcesSame DEF Taken, WholeStructure, WholeReading, WholeWe
<1>8. AllTaken'
  BY <1>2, <1>3 DEF AllTaken, AfterStructure, AfterWe, AfterReading
<1>9. asm.pc # "written"
  BY DEF AsmType, Sections
<1> QED BY <1>2, <1>5, <1>6, <1>7, <1>8, <1>9

LEMMA SkipKeeps ==
  ASSUME AsmInv, UNCHANGED sourceVars, bank' = bank, NEW section, NEW next,
         \/ section = "structure" /\ next = "written_expression"
         \/ section = "written_expression" /\ next = "reading"
         \/ section = "reading" /\ next = "combine",
         Skip(section, next)
  PROVE  AsmInv'
<1> USE DEF AsmInv
<1>1. asm' = [asm EXCEPT !.pc = next] /\ asm.pc = section /\ section \notin asm.asked
  BY DEF Skip
<1>2. /\ asm'.pc = next /\ asm'.asked = asm.asked /\ asm'.seen = asm.seen
      /\ asm'.taken = asm.taken /\ asm'.stable = asm.stable
      /\ asm' = [pc |-> asm'.pc, asked |-> asm'.asked, seen |-> asm'.seen,
                 stable |-> asm'.stable, taken |-> asm'.taken]
  BY <1>1 DEF AsmType
<1>3. asm.seen = <<>>
  BY <1>1 DEF AsmType
<1>4. (\E S : asm'.seen \in Seq(S)) /\ Len(asm'.seen) = 0
  BY <1>2, <1>3, EmptyIsASequence
<1>5. AsmType'
  BY <1>2, <1>3, <1>4 DEF AsmType, Sections
<1>6. Seen'
  <2>1. (Len(asm.seen) = 0)'
    BY <1>4
  <2> QED BY <2>1, NothingSeen, PTL
<1>7. Taken'
  BY <1>2, SourcesSame DEF Taken, WholeStructure, WholeReading, WholeWe
<1>8. AllTaken'
  BY <1>1, <1>2 DEF AllTaken, AfterStructure, AfterWe, AfterReading
<1>9. asm.pc # "written"
  BY <1>1
<1> QED BY <1>2, <1>5, <1>6, <1>7, <1>8, <1>9

\* What has been read so far stays read.
LEMMA SeenAppended ==
  ASSUME AsmInv, NEW value, asm' = [asm EXCEPT !.seen = Append(@, value)]
  PROVE  /\ asm'.pc = asm.pc /\ asm'.stable = asm.stable
         /\ Len(asm.seen) \in Nat /\ Len(asm'.seen) = Len(asm.seen) + 1
         /\ asm'.seen[Len(asm.seen) + 1] = value
         /\ \A n \in 1..Len(asm.seen) : asm'.seen[n] = asm.seen[n]
<1>1. asm'.pc = asm.pc /\ asm'.stable = asm.stable /\ asm'.seen = Append(asm.seen, value)
  BY DEF AsmInv, AsmType
<1> QED BY <1>1, AppendedTo DEF AsmInv, AsmType

LEMMA StructureLoads ==
  ASSUME AsmInv, FilesInv, UNCHANGED sourceVars, bank' = bank, load_structure_source
  PROVE  AsmInv'
<1>1. asm.pc = "structure" /\ "structure" \in asm.asked /\ asm.pc # "written"
  BY DEF load_structure_source
<1>2. Len(asm.seen) \in Nat
  BY DEF AsmInv, AsmType
<1>3. CASE Refuse
  BY <1>1, <1>3, RefuseKeeps
<1>4. ASSUME NEW value, asm' = [asm EXCEPT !.seen = Append(@, value)],
             Len(asm.seen) = 0 => OfStructure(value), Len(asm.seen) = 1 => value # None
      PROVE  AsmInv'
  <2>1. /\ asm'.pc = "structure" /\ Len(asm'.seen) = Len(asm.seen) + 1
        /\ asm'.seen[Len(asm.seen) + 1] = value
        /\ \A n \in 1..Len(asm.seen) : asm'.seen[n] = asm.seen[n]
    BY <1>1, <1>4, SeenAppended
  <2>2. Len(asm'.seen) > 0 => OfStructure(asm'.seen[1])
    <3>1. CASE Len(asm.seen) = 0
      BY <1>4, <2>1, <3>1
    <3>2. CASE Len(asm.seen) > 0
      BY <1>1, <1>2, <2>1, <3>2 DEF AsmInv, Seen, SeenStructure
    <3> QED BY <1>2, <3>1, <3>2
  <2>3. Len(asm'.seen) > 1 => asm'.seen[2] # None
    <3>1. CASE Len(asm.seen) = 1
      BY <1>4, <2>1, <3>1
    <3>2. CASE Len(asm.seen) > 1
      BY <1>1, <1>2, <2>1, <3>2 DEF AsmInv, Seen, SeenStructure
    <3>3. Len(asm'.seen) > 1 => Len(asm.seen) = 1 \/ Len(asm.seen) > 1
      BY <1>2, <2>1, Lengths
    <3> QED BY <3>1, <3>2, <3>3
  <2>4. SeenStructure'
    <3>1. UNCHANGED <<made, version>>
      BY SourcesSame
    <3> QED BY <2>1, <2>2, <2>3, <3>1 DEF SeenStructure, OfStructure, EarlierFiles, Recorded
  <2>5. Seen'
    BY <2>1, <2>4 DEF Seen, SeenReading, SeenDocument, SeenWe
  <2> QED BY <1>1, <1>4, <2>5, AppendKeeps
<1>5. CASE Len(asm.seen) = 0 /\ Read(files.result)
  <2>1. Refuse \/ (files.result # None /\ asm' = [asm EXCEPT !.seen = Append(@, files.result)])
    BY <1>5 DEF Read, ReadIf
  <2>2. files.result # None => OfStructure(files.result)
    BY DEF FilesInv
  <2> QED BY <1>3, <1>4, <1>5, <2>1, <2>2
<1>6. CASE Len(asm.seen) = 1 /\ Read(files.generator)
  <2>1. Refuse \/ (files.generator # None /\ asm' = [asm EXCEPT !.seen = Append(@, files.generator)])
    BY <1>6 DEF Read, ReadIf
  <2>2. Len(asm.seen) # 0
    BY <1>6
  <2> QED BY <1>3, <1>4, <2>1, <2>2
<1>7. CASE Len(asm.seen) = 2 /\ Read(files.provenance)
  <2>1. Refuse \/ asm' = [asm EXCEPT !.seen = Append(@, files.provenance)]
    BY <1>7 DEF Read, ReadIf
  <2> QED BY <1>3, <1>4, <1>7, <2>1
<1>8. CASE /\ Len(asm.seen) \notin {0, 1, 2}
           /\ StructureEligible(asm.seen[1], asm.seen[2], asm.seen[3])
           /\ Take("structure", asm.seen[2], "written_expression")
  <2>1. OfStructure(asm.seen[1]) /\ asm.seen[2] # None
    <3>1. Len(asm.seen) > 0 /\ Len(asm.seen) > 1
      BY <1>2, <1>8, Lengths
    <3> QED BY <1>1, <3>1 DEF AsmInv, Seen, SeenStructure
  <2>2. asm.seen[1].decision = "ACCEPT" /\ asm.seen[1].hash = asm.seen[2]
    BY <1>8 DEF StructureEligible
  <2>3. WholeStructure(asm.seen[2])
    BY <2>1, <2>2 DEF OfStructure, WholeStructure, EarlierFiles, Recorded
  <2> QED BY <1>1, <1>8, <2>1, <2>3, TakeKeeps
<1> QED BY <1>3, <1>5, <1>6, <1>7, <1>8 DEF load_structure_source

LEMMA ReadingLoads ==
  ASSUME AsmInv, ReadingInv, UNCHANGED sourceVars, bank' = bank, load_reading_source
  PROVE  AsmInv'
<1>1. asm.pc = "reading" /\ "reading" \in asm.asked /\ asm.pc # "written"
  BY DEF load_reading_source
<1>2. Len(asm.seen) \in Nat
  BY DEF AsmInv, AsmType
<1>3. CASE Refuse
  BY <1>1, <1>3, RefuseKeeps
<1>4. ASSUME NEW value, asm' = [asm EXCEPT !.seen = Append(@, value)],
             Len(asm.seen) = 0 => OfReading(value), Len(asm.seen) = 1 => value # None
      PROVE  AsmInv'
  <2>1. /\ asm'.pc = "reading" /\ Len(asm'.seen) = Len(asm.seen) + 1
        /\ asm'.seen[Len(asm.seen) + 1] = value
        /\ \A n \in 1..Len(asm.seen) : asm'.seen[n] = asm.seen[n]
    BY <1>1, <1>4, SeenAppended
  <2>2. Len(asm'.seen) > 0 => OfReading(asm'.seen[1])
    <3>1. CASE Len(asm.seen) = 0
      BY <1>4, <2>1, <3>1
    <3>2. CASE Len(asm.seen) > 0
      BY <1>1, <1>2, <2>1, <3>2 DEF AsmInv, Seen, SeenReading
    <3> QED BY <1>2, <3>1, <3>2
  <2>3. Len(asm'.seen) > 1 => asm'.seen[2] # None
    <3>1. CASE Len(asm.seen) = 1
      BY <1>4, <2>1, <3>1
    <3>2. CASE Len(asm.seen) > 1
      BY <1>1, <1>2, <2>1, <3>2 DEF AsmInv, Seen, SeenReading
    <3>3. Len(asm'.seen) > 1 => Len(asm.seen) = 1 \/ Len(asm.seen) > 1
      BY <1>2, <2>1, Lengths
    <3> QED BY <3>1, <3>2, <3>3
  <2>4. SeenReading'
    <3>1. /\ UNCHANGED <<plan, run, verified>>
          /\ RP!Judged' = RP!Judged
      BY SourcesSame DEF RP!Judged, RP!Reviewed, RP!Solved, RP!Verified
    <3> QED BY <2>1, <2>2, <2>3, <3>1 DEF SeenReading, OfReading
  <2>5. Seen'
    BY <2>1, <2>4 DEF Seen, SeenStructure, SeenDocument, SeenWe
  <2> QED BY <1>1, <1>4, <2>5, AppendKeeps
<1>5. CASE Len(asm.seen) = 0 /\ Read(disk.result)
  <2>1. Refuse \/ (disk.result # None /\ asm' = [asm EXCEPT !.seen = Append(@, disk.result)])
    BY <1>5 DEF Read, ReadIf
  <2> QED BY <1>3, <1>4, <1>5, <2>1, DiskIsOfReading
<1>6. CASE Len(asm.seen) = 1 /\ Read(disk.generator)
  <2>1. Refuse \/ (disk.generator # None /\ asm' = [asm EXCEPT !.seen = Append(@, disk.generator)])
    BY <1>6 DEF Read, ReadIf
  <2>2. Len(asm.seen) # 0
    BY <1>6
  <2> QED BY <1>3, <1>4, <2>1, <2>2
<1>7. CASE Len(asm.seen) = 2 /\ Read(disk.provenance)
  <2>1. Refuse \/ asm' = [asm EXCEPT !.seen = Append(@, disk.provenance)]
    BY <1>7 DEF Read, ReadIf
  <2> QED BY <1>3, <1>4, <1>7, <2>1
<1>8. CASE /\ Len(asm.seen) \notin {0, 1, 2}
           /\ ReadingEligible(asm.seen[1], asm.seen[2], asm.seen[3])
           /\ Take("reading", asm.seen[2], "combine")
  <2>1. OfReading(asm.seen[1]) /\ asm.seen[2] # None
    <3>1. Len(asm.seen) > 0 /\ Len(asm.seen) > 1
      BY <1>2, <1>8, Lengths
    <3> QED BY <1>1, <3>1 DEF AsmInv, Seen, SeenReading
  <2>2. /\ asm.seen[1].decision = "ACCEPT" /\ asm.seen[1].made = asm.seen[2]
        /\ asm.seen[1].run = 1 => plan.mode # "v0.1"
    BY <1>8 DEF ReadingEligible
  <2>3. asm.seen[1].run \in {0, 1}
    BY <2>1 DEF OfReading, RP!Results
  <2>4. WholeReading(asm.seen[2])
    BY <2>1, <2>2, <2>3 DEF OfReading, WholeReading, RP!EarlierRun
  <2> QED BY <1>1, <1>8, <2>1, <2>4, TakeKeeps
<1> QED BY <1>3, <1>5, <1>6, <1>7, <1>8 DEF load_reading_source

\* What one more element does to the elements that are looked at.
LEMMA OneMore ==
  ASSUME NEW n \in Nat, NEW seen, NEW longer, NEW value, longer[n + 1] = value,
         \A k \in 1..n : longer[k] = seen[k]
  PROVE  /\ longer[1] = IF n = 0 THEN value ELSE seen[1]
         /\ n + 1 > 4 => longer[5] = IF n = 4 THEN value ELSE seen[5]
         /\ n + 1 > 6 => longer[7] = IF n = 6 THEN value ELSE seen[7]
<1>1. CASE n = 0
  BY <1>1
<1>2. CASE n # 0
  <2>1. 1 \in 1..n /\ longer[1] = seen[1]
    BY <1>2
  <2>2. ASSUME n + 1 > 4 PROVE longer[5] = IF n = 4 THEN value ELSE seen[5]
    <3>1. CASE n = 4
      BY <3>1
    <3>2. CASE n # 4
      <4>1. 5 \in 1..n
        BY <2>2, <3>2
      <4> QED BY <3>2, <4>1
    <3> QED BY <3>1, <3>2
  <2>3. ASSUME n + 1 > 6 PROVE longer[7] = IF n = 6 THEN value ELSE seen[7]
    <3>1. CASE n = 6
      BY <3>1
    <3>2. CASE n # 6
      <4>1. 7 \in 1..n
        BY <2>3, <3>2
      <4> QED BY <3>2, <4>1
    <3> QED BY <3>1, <3>2
  <2> QED BY <1>2, <2>1, <2>2, <2>3
<1> QED BY <1>1, <1>2

\* What is so of a value when it is read of Written Expression, by its place.
WeReading(value) ==
  /\ Len(asm.seen) = 0 => value = we.manifest
  /\ Len(asm.seen) = 1 => document = asm.seen[1].document
  /\ Len(asm.seen) = 4 => value = we.outcomes /\ AllAccepted(we.outcomes)
  /\ Len(asm.seen) = 6 =>
       value = document /\ document \in G!Documents /\ document.items = asm.seen[5].items

LEMMA WeReads ==
  ASSUME AsmInv, UNCHANGED sourceVars, bank' = bank,
         asm.pc = "written_expression", "written_expression" \in asm.asked,
         NEW value, asm' = [asm EXCEPT !.seen = Append(@, value)], WeReading(value)
  PROVE  AsmInv'
<1> DEFINE n == Len(asm.seen)
<1>1. n \in Nat
  BY DEF AsmInv, AsmType
<1>2. /\ asm'.pc = "written_expression" /\ asm'.stable = asm.stable
      /\ Len(asm'.seen) = n + 1
      /\ asm'.seen[n + 1] = value
      /\ \A k \in 1..n : asm'.seen[k] = asm.seen[k]
  BY SeenAppended
<1>3. UNCHANGED <<we, document>>
  BY SourcesSame
<1>4. /\ n = 0 => value = we.manifest
      /\ n = 1 => document = asm.seen[1].document
      /\ n = 4 => value = we.outcomes /\ AllAccepted(we.outcomes)
      /\ n = 6 => value = document /\ document \in G!Documents
                   /\ document.items = asm.seen[5].items
  BY DEF WeReading
<1>5. n > 6 => asm.seen[7] \in G!Documents
  BY DEF AsmInv, Seen, SeenDocument
<1>6. asm.stable =>
        /\ n > 0 => asm.seen[1] = we.manifest
        /\ n > 1 => document = we.manifest.document
        /\ n > 4 => asm.seen[5] = we.outcomes /\ AllAccepted(we.outcomes)
        /\ n > 6 => asm.seen[7] = document /\ document.items = we.outcomes.items
  BY DEF AsmInv, Seen, SeenWe
<1> HIDE DEF n
<1>7. /\ asm'.seen[1] = IF n = 0 THEN value ELSE asm.seen[1]
      /\ n + 1 > 4 => asm'.seen[5] = IF n = 4 THEN value ELSE asm.seen[5]
      /\ n + 1 > 6 => asm'.seen[7] = IF n = 6 THEN value ELSE asm.seen[7]
  BY <1>1, <1>2, OneMore
<1>8. /\ n = 0 \/ n > 0
      /\ n + 1 > 1 => n = 1 \/ n > 1
      /\ n + 1 > 4 => n = 4 \/ n > 4
      /\ n + 1 > 6 => n = 6 \/ n > 6
      /\ (n = 1 => n > 0) /\ (n = 6 => n > 4)
      /\ (n > 0 => n # 0) /\ (n > 4 => n # 4) /\ (n > 6 => n # 6)
  BY <1>1
<1>9. n + 1 > 6 => asm'.seen[7] \in G!Documents
  BY <1>4, <1>5, <1>7, <1>8
<1>10. ASSUME asm.stable
       PROVE  /\ asm'.seen[1] = we.manifest
              /\ n + 1 > 1 => document = we.manifest.document
              /\ n + 1 > 4 => asm'.seen[5] = we.outcomes /\ AllAccepted(we.outcomes)
              /\ n + 1 > 6 => asm'.seen[7] = document /\ document.items = we.outcomes.items
  BY <1>4, <1>6, <1>7, <1>8, <1>10
<1>11. SeenWe' /\ SeenDocument'
  BY <1>2, <1>3, <1>9, <1>10 DEF SeenWe, SeenDocument, AllAccepted
<1>12. Seen'
  BY <1>2, <1>11 DEF Seen, SeenStructure, SeenReading
<1> QED BY <1>12, AppendKeeps

LEMMA WeLoads ==
  ASSUME AsmInv, RerunInv, AuditInv, UNCHANGED sourceVars, bank' = bank,
         load_written_expression_source
  PROVE  AsmInv'
<1>1. /\ asm.pc = "written_expression" /\ "written_expression" \in asm.asked
      /\ asm.pc # "written"
  BY DEF load_written_expression_source
<1>2. Len(asm.seen) \in Nat
  BY DEF AsmInv, AsmType
<1>3. CASE Refuse
  BY <1>1, <1>3, RefuseKeeps
<1>4. CASE Len(asm.seen) = 0 /\ Read(we.manifest)
  <2>1. Refuse \/ asm' = [asm EXCEPT !.seen = Append(@, we.manifest)]
    BY <1>4 DEF Read, ReadIf
  <2> QED BY <1>1, <1>3, <1>4, <2>1, WeReads DEF WeReading
<1>5. CASE Len(asm.seen) = 1 /\ ReadIf(document = asm.seen[1].document, document)
  <2>1. Refuse \/ (document = asm.seen[1].document
                     /\ asm' = [asm EXCEPT !.seen = Append(@, document)])
    BY <1>5 DEF ReadIf
  <2> QED BY <1>1, <1>3, <1>5, <2>1, WeReads DEF WeReading
<1>6. ASSUME Len(asm.seen) # 0, Len(asm.seen) # 1, Len(asm.seen) # 4, Len(asm.seen) # 6,
             NEW value, asm' = [asm EXCEPT !.seen = Append(@, value)]
      PROVE  AsmInv'
  <2>1. WeReading(value)
    BY <1>6, Zenon DEF WeReading
  <2> QED BY <1>1, <1>6, <2>1, WeReads
<1>7. CASE Len(asm.seen) = 4 /\ ReadIf(AllAccepted(we.outcomes), we.outcomes)
  <2>1. Refuse \/ (AllAccepted(we.outcomes)
                     /\ asm' = [asm EXCEPT !.seen = Append(@, we.outcomes)])
    BY <1>7 DEF ReadIf
  <2> QED BY <1>1, <1>3, <1>7, <2>1, WeReads DEF WeReading
<1>8. CASE Len(asm.seen) = 6 /\ ReadIf(document.items = asm.seen[5].items, document)
  <2>1. Refuse \/ (document.items = asm.seen[5].items
                     /\ asm' = [asm EXCEPT !.seen = Append(@, document)])
    BY <1>8 DEF ReadIf
  <2>2. document \in G!Documents
    BY DEF RerunInv, WeType
  <2> QED BY <1>1, <1>3, <1>8, <2>1, <2>2, WeReads DEF WeReading
<1>9. CASE /\ Len(asm.seen) \notin {0, 1, 2, 3, 4, 5, 6}
           /\ G!BoundAndStrong(document, evidence)
           /\ Take("written_expression", asm.seen[7], "reading")
  <2>1. Len(asm.seen) > 1 /\ Len(asm.seen) > 4 /\ Len(asm.seen) > 6
    BY <1>2, <1>9, Lengths
  <2>2. asm.seen[7] \in G!Documents /\ asm.seen[7] # None
    BY <1>1, <2>1, ProductionAssumption DEF AsmInv, Seen, SeenDocument
  <2>3. ASSUME asm.stable PROVE WholeWe(asm.seen[7])
    <3>1. /\ document = we.manifest.document /\ AllAccepted(we.outcomes)
          /\ asm.seen[7] = document /\ document.items = we.outcomes.items
      BY <1>1, <2>1, <2>3 DEF AsmInv, Seen, SeenWe
    <3>2. document.items = WeItems /\ (document.run = 1 => rerun.pc = "ended" /\ rerun.accepted)
      BY <3>1, MatchedIsWhole
    <3>3. \A i \in document.items : <<document.run, i>> \in audited
      BY <1>9, StrongIsAudited DEF AuditInv, AuditType
    <3> QED BY <3>1, <3>2, <3>3 DEF WholeWe
  <2> QED BY <1>1, <1>9, <2>2, <2>3, TakeKeeps
<1>10. CASE Len(asm.seen) = 2 /\ ReadIf(we.outcomes = asm.seen[1].outcomes, we.outcomes)
  <2>1. Refuse \/ asm' = [asm EXCEPT !.seen = Append(@, we.outcomes)]
    BY <1>10 DEF ReadIf
  <2>2. /\ Len(asm.seen) # 0 /\ Len(asm.seen) # 1 /\ Len(asm.seen) # 4 /\ Len(asm.seen) # 6
    BY <1>10
  <2> QED BY <1>3, <1>6, <2>1, <2>2
<1>11. CASE Len(asm.seen) = 3 /\ ReadIf(we.tests = asm.seen[1].tests, we.tests)
  <2>1. Refuse \/ asm' = [asm EXCEPT !.seen = Append(@, we.tests)]
    BY <1>11 DEF ReadIf
  <2>2. /\ Len(asm.seen) # 0 /\ Len(asm.seen) # 1 /\ Len(asm.seen) # 4 /\ Len(asm.seen) # 6
    BY <1>11
  <2> QED BY <1>3, <1>6, <2>1, <2>2
<1>12. CASE Len(asm.seen) = 5 /\ ReadIf(we.tests.passed, we.tests)
  <2>1. Refuse \/ asm' = [asm EXCEPT !.seen = Append(@, we.tests)]
    BY <1>12 DEF ReadIf
  <2>2. /\ Len(asm.seen) # 0 /\ Len(asm.seen) # 1 /\ Len(asm.seen) # 4 /\ Len(asm.seen) # 6
    BY <1>12
  <2> QED BY <1>3, <1>6, <2>1, <2>2
<1> QED BY <1>3, <1>4, <1>5, <1>7, <1>8, <1>9, <1>10, <1>11, <1>12
        DEF load_written_expression_source

LEMMA CombineKeeps ==
  ASSUME AsmInv, UNCHANGED sourceVars, bank' = bank, assemble_problem_bank PROVE AsmInv'
<1> USE DEF AsmInv
<1>1. asm.pc = "combine" /\ asm.pc # "written"
  BY DEF assemble_problem_bank
<1>2. CASE Refuse
  BY <1>1, <1>2, RefuseKeeps
<1>3. CASE asm' = [asm EXCEPT !.pc = "write"]
  <2>1. /\ asm'.pc = "write" /\ asm'.asked = asm.asked /\ asm'.seen = asm.seen
        /\ asm'.taken = asm.taken /\ asm'.stable = asm.stable
        /\ asm' = [pc |-> asm'.pc, asked |-> asm'.asked, seen |-> asm'.seen,
                   stable |-> asm'.stable, taken |-> asm'.taken]
    BY <1>3 DEF AsmType
  <2>2. AsmType'
    BY <2>1 DEF AsmType, Sections
  <2>3. Seen' /\ AllTaken'
    BY <1>1, <2>1 DEF Seen, SeenStructure, SeenReading, SeenDocument, SeenWe, AllTaken,
       AfterStructure, AfterWe, AfterReading
  <2>4. Taken'
    BY <2>1, SourcesSame DEF Taken, WholeStructure, WholeReading, WholeWe
  <2> QED BY <1>1, <2>1, <2>2, <2>3, <2>4
<1> QED BY <1>2, <1>3 DEF assemble_problem_bank

LEMMA WriteKeeps == ASSUME AsmInv, write_problem_bank PROVE AsmInv'
<1> USE DEF AsmInv
<1>1. asm.pc = "write" /\ UNCHANGED sourceVars /\ bank' = asm.taken
  BY DEF write_problem_bank
<1>2. /\ asm'.pc = "written" /\ asm'.asked = asm.asked /\ asm'.seen = asm.seen
      /\ asm'.taken = asm.taken /\ asm'.stable = asm.stable
      /\ asm' = [pc |-> asm'.pc, asked |-> asm'.asked, seen |-> asm'.seen,
                 stable |-> asm'.stable, taken |-> asm'.taken]
  BY DEF write_problem_bank, AsmType
<1>3. AsmType'
  BY <1>2 DEF AsmType, Sections
<1>4. Seen' /\ AllTaken'
  BY <1>1, <1>2 DEF Seen, SeenStructure, SeenReading, SeenDocument, SeenWe, AllTaken,
     AfterStructure, AfterWe, AfterReading
<1>5. Taken'
  BY <1>1, <1>2, SourcesSame DEF Taken, WholeStructure, WholeReading, WholeWe
<1> QED BY <1>1, <1>2, <1>3, <1>4, <1>5

LEMMA AsmStutters == ASSUME AsmInv, UNCHANGED vars PROVE AsmInv'
<1>1. UNCHANGED sourceVars /\ asm' = asm /\ bank' = bank
  BY DEF vars
<1>2. AsmType' /\ AllTaken'
  BY <1>1 DEF AsmInv, AsmType, AllTaken
<1>4. Taken'
  BY <1>1, SourcesSame DEF AsmInv, Taken, WholeStructure, WholeReading, WholeWe
<1>3. SeenStructure' /\ SeenReading' /\ SeenDocument' /\ SeenWe'
  <2>1. RP!Judged' = RP!Judged /\ UNCHANGED <<made, version, plan, run, verified, we, document>>
    BY <1>1, SourcesSame DEF RP!Judged, RP!Reviewed, RP!Solved, RP!Verified
  <2> QED BY <1>1, <2>1 DEF AsmInv, Seen, SeenStructure, SeenReading, SeenDocument, SeenWe,
          OfStructure, OfReading, EarlierFiles, Recorded, AllAccepted
<1> QED BY <1>1, <1>2, <1>3, <1>4 DEF AsmInv, Seen

LEMMA AsmKeeps ==
  ASSUME AsmInv, SetInv, FilesInv, ReadingInv, RerunInv, AuditInv, [Next]_vars PROVE AsmInv'
<1>1. CASE Assembler
  BY <1>1, AssemblerSame, StructureLoads, ReadingLoads, WeLoads, SkipKeeps, CombineKeeps
     DEF Assembler
<1> QED BY <1>1, MakeKeepsAsm, WriteKeeps, AsmStutters DEF Next

-----------------------------------------------------------------------------
(* The whole. *)

ProductionInv == SetInv /\ FilesInv /\ ReadingInv /\ AuditInv /\ RerunInv /\ AsmInv

LEMMA ProductionStarts == Init => ProductionInv
<1> SUFFICES ASSUME Init PROVE ProductionInv
  OBVIOUS
<1>1. AuditInv /\ RerunInv
  BY AuditStarts, RerunStarts DEF Init
<1> QED BY <1>1, SetStarts, FilesStart, ReadingStarts, AsmStarts DEF ProductionInv

LEMMA ProductionStep == ProductionInv /\ [Next]_vars => ProductionInv'
<1> SUFFICES ASSUME ProductionInv, [Next]_vars PROVE ProductionInv'
  OBVIOUS
<1>1. SetInv' /\ FilesInv' /\ ReadingInv'
  BY NextStructure, StructureStep, FilesKeep, NextReading, ReadingKeeps DEF ProductionInv
<1>2. RerunInv'
  <2>1. Harness \/ UNCHANGED <<document, we, rerun>>
    BY DEF Next, Make, MakeStructure, MakeReading, MakeEvidence, Assembler, write_problem_bank,
       vars, sourceVars, weVars, G!EvidenceNext, G!Load, G!Audit, G!WriteEvidence, G!Validate,
       G!WriteAuditResult, G!AuditDies
  <2> QED BY <2>1, HarnessKeeps, RerunUntouched DEF ProductionInv
<1>3. AuditInv'
  <2>1. G!EvidenceNext \/ UNCHANGED <<evidence, audit, audited>>
    BY DEF Next, Make, MakeStructure, MakeReading, MakeEvidence, Harness, Assembler,
       write_problem_bank, vars, sourceVars, weVars
  <2>2. document' \in G!Documents
    BY <1>2 DEF RerunInv, WeType
  <2> QED BY <2>1, <2>2, AuditKeeps, RewriteKeepsAudit DEF ProductionInv
<1>4. AsmInv'
  BY AsmKeeps DEF ProductionInv
<1> QED BY <1>1, <1>2, <1>3, <1>4 DEF ProductionInv

LEMMA ProductionAlways == Spec => []ProductionInv
BY ProductionStarts, ProductionStep, PTL DEF Spec

\* Type correctness of the three sections, the assembler and its bank.
THEOREM ProductionTypeCorrect == Spec => []ProductionType
<1>1. ProductionInv => ProductionType
  <2> SUFFICES ASSUME ProductionInv PROVE ProductionType
    OBVIOUS
  <2>1. StructureType
    BY DEF ProductionInv, SetInv, MadeType, FilesInv, StructureType, Before, Writing
  <2>2. R!TypeOK
    BY DEF ProductionInv, ReadingInv, RP!Inv, RP!RunType, RP!DiskInv, RP!DiskType, R!TypeOK,
       R!Steps, RP!Steps, R!Stages, RP!Stages, R!Sets, RP!Sets, R!Decisions, RP!Decisions,
       R!Files, RP!Files, R!Results, RP!Results, R!ReviewRecords, RP!ReviewRecords,
       R!SolveRecords, RP!SolveRecords, R!Judgments, RP!Judgments
  <2>3. G!EvidenceType
    BY DEF ProductionInv, AuditInv, AuditType, G!EvidenceType
  <2>4. rerun.reached \subseteq WeItems /\ asm.asked \subseteq Sections
        /\ DOMAIN asm.taken = asm.asked
    BY DEF ProductionInv, RerunInv, WeType, AsmInv, AsmType
  <2> QED BY <2>1, <2>2, <2>3, <2>4 DEF ProductionType
<1> QED BY <1>1, ProductionAlways, PTL

\* DecisionIsEvidenced for any number of items: the producer says PASS only of
\* contents each found sound, however the file was rewritten under the audit.
THEOREM PassIsEarned == Spec => []DecisionIsEvidenced
<1>1. ProductionInv => DecisionIsEvidenced
  BY DEF ProductionInv, AuditInv, DecisionIsEvidenced
<1> QED BY <1>1, ProductionAlways, PTL

\* BankIsWhole for any number of questions, items, options and shards: a bank
\* has one run's whole and judged set of each section, though the files it was
\* assembled from are read one by one while they are written.
THEOREM BankHasWholeSets == Spec => []BankIsWhole
<1>1. ProductionInv => BankIsWhole
  <2> SUFFICES ASSUME ProductionInv, bank # None
               PROVE  BankIsWhole
    BY DEF BankIsWhole
  <2>1. /\ asm.pc = "written" /\ bank = asm.taken /\ asm.asked \subseteq Sections
        /\ DOMAIN bank = asm.asked
    BY DEF ProductionInv, AsmInv, AsmType
  <2>2. \A s \in asm.asked : bank[s] # None
    BY <2>1 DEF ProductionInv, AsmInv, AllTaken, AfterStructure, AfterWe, AfterReading, Sections
  <2>3. "structure" \in asm.asked =>
          \/ bank["structure"] = EarlierFiles.generator
          \/ bank["structure"] = <<1, made.set>> /\ Approved
    BY <2>1, <2>2 DEF ProductionInv, AsmInv, Taken, WholeStructure, SetInv, AcceptedIsApproved
  <2>4. "reading" \in asm.asked =>
          \/ bank["reading"] = R!EarlierRun.generator
          \/ /\ bank["reading"] = R!Written(1, run.generator)
             /\ R!Reviewed /\ R!Solved /\ R!Verified
    BY <2>1, <2>2 DEF ProductionInv, AsmInv, Taken, WholeReading, RP!Judged,
       R!EarlierRun, RP!EarlierRun, R!Written, RP!Written, R!Reviewed, RP!Reviewed,
       R!Solved, RP!Solved, R!Verified, RP!Verified
  <2>5. "written_expression" \in asm.asked /\ asm.stable => WholeWe(bank["written_expression"])
    BY <2>1 DEF ProductionInv, AsmInv, Taken
  <2> QED BY <2>1, <2>2, <2>3, <2>4, <2>5 DEF BankIsWhole, WholeWe
<1> QED BY <1>1, ProductionAlways, PTL
=============================================================================
