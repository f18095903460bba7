--------------------------- MODULE LiveCohort_proofs ---------------------------
(***************************************************************************)
(* The live harness, for every cohort, retry budget, answer and drift: what *)
(* its evidence says of the items of a run, and what the report-only mode  *)
(* may publish.                                                            *)
(***************************************************************************)
EXTENDS LiveCohort, CandidateOps_proofs, FiniteSetTheorems

-----------------------------------------------------------------------------
(* The inductive invariant: the items of the run. *)

GeneratorSteps == {"generator", "generator call", "generator check"}
ReviewerSteps == {"reviewer", "reviewer call", "reviewer check"}
SolverSteps == {"solver", "solver call", "solver check"}
LastSteps == {"tests", "metrics", "manifest"}

RunType ==
  run \in [pc : Steps, id : Nat, items : Nat, frozen : 0..1, cohort : Nat \ {0},
           order : Nat, attempt : Nat, written : 0..4, candidate : Candidate \cup {None}]

Listed(stage) ==
  CASE stage = "generator" -> [order : Nat, body : GeneratorBodies]
    [] stage = "reviewer"  -> [order : Nat, body : ReviewBodies, status : Statuses]
    [] OTHER               -> [order : Nat, body : SolverBodies]

Recorded == [order : Nat, state : States, category : LiveErrors \cup {"none"},
             auto_accept : BOOLEAN]

SourceType == src.version \in 0..1

MemType ==
  /\ mem = [a \in Lists \cup {"tests"} |-> mem[a]]
  /\ \A stage \in Stages : mem[stage] \in Seq(Listed(stage))
  /\ mem.provenance \in Seq(Sidecar)
  /\ mem.outcomes \in Seq(Recorded)

\* The item at work is the last one anything is known of.
UpToNow ==
  run.pc # "ended" =>
    /\ run.order \in 1..run.cohort
    /\ Len(mem.outcomes) = run.order - (IF InItem THEN 1 ELSE 0)
    /\ run.pc \in LastSteps => run.order = run.cohort
    /\ \A k \in DOMAIN mem.provenance : mem.provenance[k].order \in 1..run.order
    /\ \A stage \in Stages : Orders(mem[stage]) \subseteq 1..run.order

ListedOnce ==
  \A stage \in Stages : \A j, k \in DOMAIN mem[stage] :
    mem[stage][j].order = mem[stage][k].order => j = k

Tried(e, cohort, n) ==
  LET tries == Of(e, n, "generator") IN
  /\ Cardinality(tries) \in 1..MaxTries(cohort)
  /\ \A k \in tries : (\E later \in tries : later > k) => e.provenance[k].category = "schema"

Untouched(e, n, stage) == Of(e, n, stage) = {} /\ n \notin Orders(e[stage])

\* An item at a stage: what is recorded of it, and the Candidate at work.
AtGenerator(n) ==
  /\ run.attempt \in 1..MaxTries(run.cohort)
  /\ Cardinality(Of(mem, n, "generator")) = run.attempt - 1
  /\ \A k \in Of(mem, n, "generator") :
       mem.provenance[k].category = "schema" /\ ~ mem.provenance[k].contract_valid
  /\ n \notin Orders(mem.generator)
  /\ Untouched(mem, n, "reviewer") /\ Untouched(mem, n, "solver")

Working ==
  /\ run.candidate \in Candidate
  /\ run.candidate.generator_item.body = ByOrder(mem.generator, run.order)

AtReviewer(n) ==
  /\ Tried(mem, run.cohort, n) /\ Valid(mem, n, "generator") # {} /\ n \in Orders(mem.generator)
  /\ Untouched(mem, n, "reviewer") /\ Untouched(mem, n, "solver")
  /\ Working /\ InputsCanonical(run.candidate)

AtSolver(n) ==
  /\ Tried(mem, run.cohort, n) /\ Valid(mem, n, "generator") # {} /\ n \in Orders(mem.generator)
  /\ Cardinality(Of(mem, n, "reviewer")) = 1 /\ Cardinality(Valid(mem, n, "reviewer")) = 1
  /\ n \in Orders(mem.reviewer)
  /\ ByOrder(mem.reviewer, n).verdict = "PASS"
  /\ Untouched(mem, n, "solver")
  /\ Working
  /\ run.candidate.reviewer_item # None
  /\ run.candidate.reviewer_item.body = ByOrder(mem.reviewer, n)

\* An item with its outcome.
Done(e, cohort, n) ==
  /\ e.outcomes[n].order = n
  /\ Tried(e, cohort, n)
  /\ Cardinality(Of(e, n, "reviewer")) = IF Valid(e, n, "generator") # {} THEN 1 ELSE 0
  /\ Cardinality(Of(e, n, "solver")) <= Cardinality(Valid(e, n, "reviewer"))
  /\ \A stage \in Stages : n \in Orders(e[stage]) <=> Valid(e, n, stage) # {}
  /\ n \in Orders(e.solver) =>
       n \in Orders(e.reviewer) /\ ByOrder(e.reviewer, n).verdict = "PASS"
  /\ e.outcomes[n].state = "ACCEPTED" =>
       /\ n \in Orders(e.generator) /\ n \in Orders(e.solver)
       /\ ByOrder(e.reviewer, n).answer = ByOrder(e.generator, n).key
       /\ ByOrder(e.solver, n).answer = ByOrder(e.generator, n).key

AtWork ==
  /\ run.pc \in GeneratorSteps => AtGenerator(run.order)
  /\ run.pc \in ReviewerSteps => AtReviewer(run.order)
  /\ run.pc \in SolverSteps => AtSolver(run.order)

ItemsInv ==
  /\ SourceType /\ RunType /\ MemType
  /\ UpToNow /\ ListedOnce
  /\ \A n \in DOMAIN mem.outcomes : Done(mem, run.cohort, n)
  /\ AtWork

-----------------------------------------------------------------------------
(* The inductive invariant: the output directory and the report. *)

OnDisk(a) == disk[a] = Written(a)

\* What of the run's own evidence is on disk.
WrittenSoFar ==
  /\ disk = [a \in Evidence \cup {"manifest", "verdict", "drift"} |-> disk[a]]
  /\ run.id # 0 => disk.freeze = [run |-> run.id, value |-> run.frozen]
  /\ run.id = 0 => run.pc = "ended" /\ disk.manifest = None /\ disk.freeze = None
  /\ InItem => run.written = 0
  /\ run.pc = "write" => \A k \in 1..run.written : OnDisk(WriteOrder[k])
  /\ run.pc \in LastSteps => \A a \in Lists : OnDisk(a)
  /\ run.pc \in {"metrics", "manifest"} => disk.tests = Written("tests")

ManifestIsPast ==
  disk.manifest # None =>
    /\ disk.manifest.run \in 1..run.id
    /\ run.pc # "ended" => disk.manifest.run # run.id

ThisRunPublished == disk.manifest # None /\ disk.manifest.run = run.id

\* The manifest of the last run names its evidence, which tampering only empties.
Published ==
  ThisRunPublished =>
    /\ Len(mem.outcomes) = run.cohort
    /\ Orders(mem.solver) \subseteq 1..run.cohort
    /\ \A a \in Lists \cup {"tests"} :
         /\ disk.manifest.files[a] = Written(a)
         /\ disk[a] \in {Written(a), [run |-> run.id, value |-> <<>>]}

\* What a reporter that may yet publish has read is the evidence of the run, or
\* the file it was read from is no longer the one the manifest names; once that
\* is checked it is the evidence of the run.  Tests that it ran itself are its own.
Reads == {a \in Lists \cup {"tests"} : a = "tests" => ~ reporter.retest}

SeenTruly(a) == reporter.seen[a] = mem[a] \/ disk[a] # Written(a)

SeenWhole == reporter.seen = [a \in Lists \cup {"tests"} |-> reporter.seen[a]]

CheckedSteps == {"measured", "decided", "writing"}

ReporterReads ==
  reporter.pc # "idle" =>
    /\ reporter.freeze.run \in 1..run.id
    /\ reporter.freeze.run = run.id =>
         /\ ThisRunPublished
         /\ reporter.pc = "half read" =>
              SeenTruly("outcomes") /\ SeenTruly("tests")
         /\ reporter.pc = "read" => SeenWhole /\ \A a \in Reads : SeenTruly(a)
         /\ reporter.pc \in CheckedSteps =>
              SeenWhole /\ \A a \in Reads : reporter.seen[a] = mem[a]

ReporterShape ==
  reporter = [pc |-> reporter.pc, freeze |-> reporter.freeze, retest |-> reporter.retest,
              seen |-> reporter.seen]

DiskInv == WrittenSoFar /\ ManifestIsPast /\ Published /\ ReporterShape /\ ReporterReads

\* The verdict that is there, if it is the last run's, and so not of a run that
\* is still gathering its evidence.
VerdictInv ==
  /\ disk.verdict # None =>
       /\ disk.verdict.run \in 1..run.id
       /\ disk.verdict.run = run.id => run.pc \in {"manifest", "ended"}
  /\ ReadyMeansThrough

IInv == ItemsInv /\ DiskInv /\ VerdictInv
-----------------------------------------------------------------------------
(* Lists of items and of sidecars. *)

\* The greatest of one number.
LEMMA MaxOfOne ==
  ASSUME NEW j \in Nat
  PROVE  Max({j}) = j
<1>1. \E x \in {j} : \A y \in {j} : x >= y
  OBVIOUS
<1>2. Max({j}) \in {j}
  BY <1>1 DEF Max
<1> QED BY <1>2

\* What Append does, position by position.
LEMMA Appended ==
  ASSUME NEW S, NEW s \in Seq(S), NEW x \in S
  PROVE  /\ Append(s, x) \in Seq(S)
         /\ Len(Append(s, x)) = Len(s) + 1
         /\ DOMAIN Append(s, x) = DOMAIN s \cup {Len(s) + 1}
         /\ Append(s, x)[Len(s) + 1] = x
         /\ \A k \in DOMAIN s : Append(s, x)[k] = s[k] /\ k \in Nat /\ k < Len(s) + 1
OBVIOUS

\* What an appended item adds to a list that had none of its order.
LEMMA ItemAdded ==
  ASSUME NEW S, NEW s \in Seq(S), NEW x \in S, x.order \notin Orders(s),
         \A j, k \in DOMAIN s : s[j].order = s[k].order => j = k
  PROVE  LET t == Append(s, x) IN
         /\ Orders(t) = Orders(s) \cup {x.order}
         /\ \A j, k \in DOMAIN t : t[j].order = t[k].order => j = k
         /\ ByOrder(t, x.order) = x.body
         /\ \A n \in Orders(s) : ByOrder(t, n) = ByOrder(s, n)
<1> DEFINE t == Append(s, x)
           At(q, n) == {k \in DOMAIN q : q[k].order = n}
<1>0. /\ DOMAIN t = DOMAIN s \cup {Len(s) + 1} /\ t[Len(s) + 1] = x
      /\ \A k \in DOMAIN s : t[k] = s[k] /\ k \in Nat /\ k < Len(s) + 1
      /\ Len(s) + 1 \in Nat
  BY Appended
<1> HIDE DEF t
<1>1. Orders(t) = Orders(s) \cup {x.order}
  BY <1>0 DEF Orders
<1>2. \A k \in DOMAIN s : s[k].order # x.order
  BY DEF Orders
<1>3. \A j, k \in DOMAIN t : t[j].order = t[k].order => j = k
  BY <1>0, <1>2
<1>4. At(t, x.order) = {Len(s) + 1}
  BY <1>0, <1>2
<1>5. ByOrder(t, x.order) = x.body
  BY <1>0, <1>4, MaxOfOne DEF ByOrder
<1>6. ASSUME NEW n \in Orders(s)
      PROVE  ByOrder(t, n) = ByOrder(s, n)
  <2>1. PICK j \in DOMAIN s : s[j].order = n
    BY DEF Orders
  <2>2. At(s, n) = {j} /\ At(t, n) = {j} /\ j \in Nat
    BY <2>1, <1>0, <1>2
  <2> QED
    BY <2>1, <2>2, <1>0, MaxOfOne DEF ByOrder
<1> QED
  BY <1>1, <1>3, <1>5, <1>6 DEF t

\* A list's item of some order is one of its items.
LEMMA ItemFound ==
  ASSUME NEW S, NEW s \in Seq(S), NEW n \in Orders(s),
         \A j, k \in DOMAIN s : s[j].order = s[k].order => j = k
  PROVE  \E k \in DOMAIN s : s[k].order = n /\ s[k] \in S /\ ByOrder(s, n) = s[k].body
<1>1. PICK k \in DOMAIN s : s[k].order = n
  BY DEF Orders
<1>2. {j \in DOMAIN s : s[j].order = n} = {k} /\ k \in Nat /\ s[k] \in S
  BY <1>1
<1> QED
  BY <1>1, <1>2, MaxOfOne DEF ByOrder

\* What an appended sidecar adds to the sidecars of its item's stage.
LEMMA SidecarAdded ==
  ASSUME mem.provenance \in Seq(Sidecar), NEW r \in Sidecar,
         mem'.provenance = Append(mem.provenance, r)
  PROVE  LET new == Len(mem.provenance) + 1 IN
         /\ mem'.provenance \in Seq(Sidecar)
         /\ DOMAIN mem'.provenance = DOMAIN mem.provenance \cup {new}
         /\ new \in Nat /\ mem'.provenance[new] = r
         /\ \A k \in DOMAIN mem.provenance :
              mem'.provenance[k] = mem.provenance[k] /\ k \in Nat /\ k < new
         /\ \A n, stage :
              /\ ~ (r.order = n /\ r.stage = stage) =>
                   Of(mem', n, stage) = Of(mem, n, stage) /\ Valid(mem', n, stage) = Valid(mem, n, stage)
              /\ r.order = n /\ r.stage = stage =>
                   /\ Of(mem', n, stage) = Of(mem, n, stage) \cup {new}
                   /\ Valid(mem', n, stage) = IF r.contract_valid THEN Valid(mem, n, stage) \cup {new}
                                             ELSE Valid(mem, n, stage)
<1> DEFINE new == Len(mem.provenance) + 1
           p == mem.provenance
           q == mem'.provenance
<1>1. /\ q \in Seq(Sidecar) /\ DOMAIN q = DOMAIN p \cup {new} /\ q[new] = r /\ new \in Nat
      /\ \A k \in DOMAIN p : q[k] = p[k] /\ k \in Nat /\ k < new
  BY Appended
<1> HIDE DEF new
<1>2. ASSUME NEW n, NEW stage, ~ (r.order = n /\ r.stage = stage)
      PROVE  Of(mem', n, stage) = Of(mem, n, stage) /\ Valid(mem', n, stage) = Valid(mem, n, stage)
  BY <1>1, <1>2 DEF Valid, Of
<1>3. ASSUME NEW n, NEW stage, r.order = n /\ r.stage = stage
      PROVE  /\ Of(mem', n, stage) = Of(mem, n, stage) \cup {new}
             /\ Valid(mem', n, stage) = IF r.contract_valid THEN Valid(mem, n, stage) \cup {new}
                                       ELSE Valid(mem, n, stage)
  <2>1. Of(mem', n, stage) = Of(mem, n, stage) \cup {new}
    BY <1>1, <1>3 DEF Of
  <2>2. Of(mem, n, stage) \subseteq DOMAIN mem.provenance /\ new \notin DOMAIN mem.provenance
    BY <1>1 DEF Of
  <2> QED BY <1>1, <2>1, <2>2 DEF Valid
<1> QED BY <1>1, <1>2, <1>3 DEF new

\* The sidecar's own item and stage get one position more.
LEMMA SidecarOf ==
  ASSUME mem.provenance \in Seq(Sidecar), NEW r \in Sidecar,
         mem'.provenance = Append(mem.provenance, r)
  PROVE  LET new == Len(mem.provenance) + 1 IN
         /\ Of(mem', r.order, r.stage) = Of(mem, r.order, r.stage) \cup {new}
         /\ r.contract_valid =>
              Valid(mem', r.order, r.stage) = Valid(mem, r.order, r.stage) \cup {new}
<1> DEFINE new == Len(mem.provenance) + 1
<1>1. /\ DOMAIN mem'.provenance = DOMAIN mem.provenance \cup {new}
      /\ mem'.provenance[new] = r
      /\ \A k \in DOMAIN mem.provenance :
           mem'.provenance[k] = mem.provenance[k] /\ k \in Nat /\ k < new
  BY SidecarAdded
<1> HIDE DEF new
<1>2. Of(mem', r.order, r.stage) = Of(mem, r.order, r.stage) \cup {new}
  BY <1>1 DEF Of
<1>3. r.contract_valid =>
        Valid(mem', r.order, r.stage) = Valid(mem, r.order, r.stage) \cup {new}
  BY <1>1, <1>2 DEF Valid, Of
<1> QED BY <1>2, <1>3 DEF new

\* An item's sidecars of a stage are finitely many, and a new position is none of them.
LEMMA OfFinite ==
  ASSUME mem.provenance \in Seq(Sidecar), NEW n, NEW stage
  PROVE  /\ IsFiniteSet(Of(mem, n, stage)) /\ Cardinality(Of(mem, n, stage)) \in Nat
         /\ IsFiniteSet(Valid(mem, n, stage)) /\ Cardinality(Valid(mem, n, stage)) \in Nat
         /\ Len(mem.provenance) + 1 \notin Of(mem, n, stage)
         /\ Valid(mem, n, stage) \subseteq Of(mem, n, stage)
         /\ Of(mem, n, stage) \subseteq DOMAIN mem.provenance
<1>1. DOMAIN mem.provenance = 1..Len(mem.provenance) /\ Len(mem.provenance) \in Nat
  OBVIOUS
<1>2. IsFiniteSet(1..Len(mem.provenance))
  BY <1>1, FS_Interval
<1>3. /\ Of(mem, n, stage) \subseteq 1..Len(mem.provenance)
      /\ Valid(mem, n, stage) \subseteq Of(mem, n, stage)
  BY <1>1 DEF Of, Valid
<1>4. IsFiniteSet(Of(mem, n, stage)) /\ IsFiniteSet(Valid(mem, n, stage))
  BY <1>2, <1>3, FS_Subset
<1> QED
  BY <1>1, <1>3, <1>4, FS_CardinalityType

-----------------------------------------------------------------------------
(* A step of an item: a sidecar is recorded, and perhaps an output listed. *)

MayList(stage) ==
  \/ mem'[stage] = mem[stage]
  \/ /\ run.order \notin Orders(mem[stage])
     /\ \E x \in Listed(stage) :
          x.order = run.order /\ mem'[stage] = Append(mem[stage], x)

\* An appended item keeps a list well formed.
LEMMA ListGrows ==
  ASSUME NEW stage \in Stages, mem[stage] \in Seq(Listed(stage)), MayList(stage),
         \A j, k \in DOMAIN mem[stage] : mem[stage][j].order = mem[stage][k].order => j = k
  PROVE  /\ mem'[stage] \in Seq(Listed(stage))
         /\ Orders(mem'[stage]) \subseteq Orders(mem[stage]) \cup {run.order}
         /\ Orders(mem[stage]) \subseteq Orders(mem'[stage])
         /\ \A j, k \in DOMAIN mem'[stage] :
              mem'[stage][j].order = mem'[stage][k].order => j = k
         /\ \A n \in Orders(mem[stage]) : ByOrder(mem'[stage], n) = ByOrder(mem[stage], n)
<1>1. CASE mem'[stage] = mem[stage]
  BY <1>1
<1>2. CASE mem'[stage] # mem[stage]
  <2>1. PICK x \in Listed(stage) :
           /\ x.order = run.order /\ x.order \notin Orders(mem[stage])
           /\ mem'[stage] = Append(mem[stage], x)
    BY <1>2 DEF MayList
  <2>2. mem'[stage] \in Seq(Listed(stage))
    BY <2>1, Appended
  <2>3. /\ Orders(mem'[stage]) = Orders(mem[stage]) \cup {x.order}
        /\ \A j, k \in DOMAIN mem'[stage] :
             mem'[stage][j].order = mem'[stage][k].order => j = k
        /\ \A n \in Orders(mem[stage]) : ByOrder(mem'[stage], n) = ByOrder(mem[stage], n)
    BY <2>1, ItemAdded
  <2> QED BY <2>1, <2>2, <2>3
<1> QED BY <1>1, <1>2

\* What is known of an item that is done is not changed by a later one.
LEMMA DoneIsKept ==
  ASSUME MemType, ListedOnce, NEW r \in Sidecar, r.order = run.order,
         mem'.provenance = Append(mem.provenance, r), run'.cohort = run.cohort,
         \A stage \in Stages : MayList(stage),
         NEW n \in DOMAIN mem.outcomes, n # run.order, Done(mem, run.cohort, n),
         mem'.outcomes[n] = mem.outcomes[n]
  PROVE  Done(mem', run.cohort, n)
<1>1. /\ \A stage : Of(mem', n, stage) = Of(mem, n, stage) /\ Valid(mem', n, stage) = Valid(mem, n, stage)
      /\ \A k \in DOMAIN mem.provenance : mem'.provenance[k] = mem.provenance[k]
  <2>1. mem.provenance \in Seq(Sidecar)
    BY DEF MemType
  <2>2. ASSUME NEW stage
        PROVE  Of(mem', n, stage) = Of(mem, n, stage) /\ Valid(mem', n, stage) = Valid(mem, n, stage)
    BY <2>1, SidecarAdded
  <2>3. \A k \in DOMAIN mem.provenance : mem'.provenance[k] = mem.provenance[k]
    BY <2>1, SidecarAdded
  <2> QED BY <2>2, <2>3
<1>2. ASSUME NEW stage \in Stages
      PROVE  /\ n \in Orders(mem[stage]) <=> n \in Orders(mem'[stage])
             /\ n \in Orders(mem[stage]) => ByOrder(mem'[stage], n) = ByOrder(mem[stage], n)
  BY ListGrows DEF MemType, ListedOnce
<1>3. {"generator", "reviewer", "solver"} = Stages
  BY DEF Stages, RETRY_STAGES
<1>4. Tried(mem, run.cohort, n)'
  <2>1. Of(mem, n, "generator") \subseteq DOMAIN mem.provenance
    BY DEF Of
  <2> QED BY <1>1, <2>1 DEF Done, Tried, MaxTries
<1>5. /\ n \in Orders(mem'.generator) <=> n \in Orders(mem.generator)
      /\ n \in Orders(mem'.reviewer) <=> n \in Orders(mem.reviewer)
      /\ n \in Orders(mem'.solver) <=> n \in Orders(mem.solver)
      /\ n \in Orders(mem.generator) => ByOrder(mem'.generator, n) = ByOrder(mem.generator, n)
      /\ n \in Orders(mem.reviewer) => ByOrder(mem'.reviewer, n) = ByOrder(mem.reviewer, n)
      /\ n \in Orders(mem.solver) => ByOrder(mem'.solver, n) = ByOrder(mem.solver, n)
  BY <1>2, <1>3
<1>6. (\A stage \in Stages : n \in Orders(mem[stage]) <=> Valid(mem, n, stage) # {})'
  BY <1>1, <1>2 DEF Done
<1>7. (mem.outcomes[n].order = n)' /\ mem'.outcomes[n].state = mem.outcomes[n].state
  BY DEF Done
<1>8. /\ (Cardinality(Of(mem, n, "reviewer")) = IF Valid(mem, n, "generator") # {} THEN 1 ELSE 0)'
      /\ (Cardinality(Of(mem, n, "solver")) <= Cardinality(Valid(mem, n, "reviewer")))'
  BY <1>1 DEF Done
<1>9. /\ (n \in Orders(mem.solver) =>
            n \in Orders(mem.reviewer) /\ ByOrder(mem.reviewer, n).verdict = "PASS")'
      /\ (mem.outcomes[n].state = "ACCEPTED" =>
           /\ n \in Orders(mem.generator) /\ n \in Orders(mem.solver)
           /\ ByOrder(mem.reviewer, n).answer = ByOrder(mem.generator, n).key
           /\ ByOrder(mem.solver, n).answer = ByOrder(mem.generator, n).key)'
  BY <1>5, <1>7 DEF Done
<1> QED
  BY <1>4, <1>6, <1>7, <1>8, <1>9 DEF Done

\* A step of the item at work leaves the rest of the run as it was known.
LEMMA ItemStep ==
  ASSUME RunType, MemType, UpToNow, ListedOnce, InItem,
         \A n \in DOMAIN mem.outcomes : Done(mem, run.cohort, n),
         mem' = [a \in Lists \cup {"tests"} |-> mem'[a]],
         NEW r \in Sidecar, r.order = run.order,
         mem'.provenance = Append(mem.provenance, r),
         \A stage \in Stages : MayList(stage),
         run'.cohort = run.cohort, run'.order = run.order, run'.pc \in Steps \ LastSteps,
         \/ mem'.outcomes = mem.outcomes /\ InItem'
         \/ \E o \in Recorded : /\ mem'.outcomes = Append(mem.outcomes, o)
                                /\ run'.pc = "write"
  PROVE  /\ MemType' /\ UpToNow' /\ ListedOnce'
         /\ run.order = Len(mem.outcomes) + 1
         /\ \A n \in DOMAIN mem'.outcomes : n \in DOMAIN mem.outcomes \/ n = run.order
         /\ \A n \in DOMAIN mem.outcomes : Done(mem', run.cohort, n)
<1>1. run.pc # "ended" /\ run.pc \notin LastSteps /\ run.order \in Nat /\ run.order >= 1
  BY DEF InItem, LastSteps, UpToNow, RunType
<1>2. run.order = Len(mem.outcomes) + 1 /\ Len(mem.outcomes) \in Nat /\ run.order \in 1..run.cohort
  BY <1>1 DEF InItem, UpToNow, MemType
<1>3. /\ mem'.provenance \in Seq(Sidecar)
      /\ \A k \in DOMAIN mem'.provenance : mem'.provenance[k].order \in 1..run.order
  <2>1. mem.provenance \in Seq(Sidecar)
    BY DEF MemType
  <2>2. \A k \in DOMAIN mem.provenance : mem.provenance[k].order \in 1..run.order
    BY <1>1 DEF UpToNow
  <2> QED BY <2>1, <2>2, <1>1, SidecarAdded
<1>4. ASSUME NEW stage \in Stages
      PROVE  /\ mem'[stage] \in Seq(Listed(stage))
             /\ Orders(mem'[stage]) \subseteq 1..run.order
             /\ \A j, k \in DOMAIN mem'[stage] :
                  mem'[stage][j].order = mem'[stage][k].order => j = k
  <2>1. Orders(mem[stage]) \subseteq 1..run.order
    BY <1>1 DEF UpToNow
  <2>2. /\ mem[stage] \in Seq(Listed(stage)) /\ MayList(stage)
        /\ \A j, k \in DOMAIN mem[stage] : mem[stage][j].order = mem[stage][k].order => j = k
    BY DEF MemType, ListedOnce
  <2>3. /\ mem'[stage] \in Seq(Listed(stage))
        /\ Orders(mem'[stage]) \subseteq Orders(mem[stage]) \cup {run.order}
        /\ \A j, k \in DOMAIN mem'[stage] :
             mem'[stage][j].order = mem'[stage][k].order => j = k
    BY <2>2, ListGrows
  <2>4. run.order \in 1..run.order
    BY <1>1
  <2> QED BY <2>1, <2>3, <2>4
<1>5. /\ mem'.outcomes \in Seq(Recorded)
      /\ Len(mem'.outcomes) = IF run'.pc = "write" THEN Len(mem.outcomes) + 1 ELSE Len(mem.outcomes)
      /\ run'.pc = "write" \/ InItem'
      /\ \A n \in DOMAIN mem.outcomes : mem'.outcomes[n] = mem.outcomes[n]
  <2>1. mem.outcomes \in Seq(Recorded)
    BY DEF MemType
  <2>2. CASE mem'.outcomes = mem.outcomes /\ InItem'
    BY <2>1, <2>2 DEF InItem
  <2>3. CASE ~ (mem'.outcomes = mem.outcomes /\ InItem')
    <3>1. PICK o \in Recorded : mem'.outcomes = Append(mem.outcomes, o) /\ run'.pc = "write"
      BY <2>3
    <3> QED BY <2>1, <3>1, Appended
  <2> QED BY <2>2, <2>3
<1>6. MemType' /\ ListedOnce'
  <2>1. (\A stage \in Stages : mem[stage] \in Seq(Listed(stage)))'
    <3>1. \A stage \in Stages : mem'[stage] \in Seq(Listed(stage))
      BY <1>4
    <3> QED BY <3>1 DEF Listed
  <2> QED BY <2>1, <1>3, <1>4, <1>5 DEF MemType, ListedOnce
<1>7. UpToNow'
  <2>1. Len(mem'.outcomes) = run'.order - (IF InItem' THEN 1 ELSE 0)
    <3>1. CASE run'.pc = "write"
      <4>1. ~ InItem'
        BY <3>1 DEF InItem
      <4> QED BY <1>2, <1>5, <3>1, <4>1
    <3>2. CASE run'.pc # "write"
      <4>1. InItem' = TRUE
        BY <1>5, <3>2 DEF InItem
      <4> QED BY <1>2, <1>5, <3>2, <4>1
    <3> QED BY <3>1, <3>2
  <2>2. run'.pc \notin LastSteps /\ run'.order \in 1..run'.cohort
    BY <1>2
  <2>3. \A stage \in Stages : Orders(mem'[stage]) \subseteq 1..run'.order
    BY <1>4
  <2> QED BY <1>3, <2>1, <2>2, <2>3 DEF UpToNow
<1>8. ASSUME NEW n \in DOMAIN mem'.outcomes
      PROVE  n \in DOMAIN mem.outcomes \/ n = run.order
  BY <1>2, <1>5, <1>6 DEF MemType
<1>9. ASSUME NEW n \in DOMAIN mem.outcomes
      PROVE  Done(mem', run.cohort, n)
  <2>1. n # run.order
    BY <1>2 DEF MemType
  <2> QED BY <2>1, <1>5, DoneIsKept
<1> QED BY <1>2, <1>6, <1>7, <1>8, <1>9

-----------------------------------------------------------------------------
(* The steps that record nothing. *)

\* The steps of an item: their names.
LEMMA ItemSteps ==
  /\ InItem <=> run.pc \in Steps /\ run.pc \in GeneratorSteps \cup ReviewerSteps \cup SolverSteps
  /\ GeneratorSteps \cap ReviewerSteps = {} /\ GeneratorSteps \cap SolverSteps = {}
  /\ ReviewerSteps \cap SolverSteps = {}
  /\ GeneratorSteps \cup ReviewerSteps \cup SolverSteps \subseteq Steps \ LastSteps
  /\ "write" \notin GeneratorSteps \cup ReviewerSteps \cup SolverSteps \cup LastSteps
  /\ "ended" \notin GeneratorSteps \cup ReviewerSteps \cup SolverSteps \cup LastSteps
BY DEF InItem, Steps, GeneratorSteps, ReviewerSteps, SolverSteps, LastSteps

\* The run moves on within a stage, through its last steps, or ends.
LEMMA PcMoves ==
  ASSUME ItemsInv, src' = src, mem' = mem, NEW step \in Steps, run' = [run EXCEPT !.pc = step],
         \/ step = "ended"
         \/ run.pc \in LastSteps /\ step \in LastSteps
         \/ \E S \in {GeneratorSteps, ReviewerSteps, SolverSteps} : run.pc \in S /\ step \in S
  PROVE  ItemsInv'
<1>1. /\ run'.pc = step /\ run'.order = run.order /\ run'.cohort = run.cohort
      /\ run'.attempt = run.attempt /\ run'.candidate = run.candidate
      /\ SourceType' /\ RunType'
  BY DEF ItemsInv, SourceType, RunType
<1>2. MemType' /\ ListedOnce'
  <2>1. MemType /\ ListedOnce
    BY DEF ItemsInv
  <2> QED BY <2>1 DEF MemType, ListedOnce, Listed
<1>3. (\A n \in DOMAIN mem.outcomes : Done(mem, run.cohort, n))'
  BY <1>1 DEF ItemsInv
<1>4. UpToNow'
  <2>1. CASE step = "ended"
    BY <1>1, <2>1 DEF UpToNow
  <2>2. CASE step # "ended"
    <3>1. run.pc # "ended" /\ (InItem <=> InItem') /\ (step \in LastSteps => run.pc \in LastSteps)
      <4>1. InItem' <=> run'.pc \in Steps
                          /\ run'.pc \in GeneratorSteps \cup ReviewerSteps \cup SolverSteps
        BY ItemSteps DEF InItem, Steps, GeneratorSteps, ReviewerSteps, SolverSteps
      <4>2. run.pc \in Steps
        BY DEF ItemsInv, RunType
      <4> QED BY <1>1, <2>2, <4>1, <4>2, ItemSteps DEF InItem, LastSteps
    <3>2. UpToNow
      BY DEF ItemsInv
    <3>3. (IF InItem THEN 1 ELSE 0) = (IF InItem' THEN 1 ELSE 0)
      BY <3>1
    <3> QED BY <1>1, <3>1, <3>2, <3>3 DEF UpToNow
  <2> QED BY <2>1, <2>2
<1>5. AtWork'
  <2>1. /\ run'.pc \in GeneratorSteps => run.pc \in GeneratorSteps
        /\ run'.pc \in ReviewerSteps => run.pc \in ReviewerSteps
        /\ run'.pc \in SolverSteps => run.pc \in SolverSteps
    BY <1>1 DEF GeneratorSteps, ReviewerSteps, SolverSteps, LastSteps
  <2>2. AtWork
    BY DEF ItemsInv
  <2> QED
    BY <1>1, <2>1, <2>2 DEF AtWork, AtGenerator, AtReviewer, AtSolver, Working
<1> QED BY <1>1, <1>2, <1>3, <1>4, <1>5 DEF ItemsInv

\* Nothing that the item half speaks of changes.
LEMMA ItemsKept ==
  ASSUME ItemsInv, SourceType', mem' = mem, run' = run
  PROVE  ItemsInv'
<1>1. RunType' /\ MemType' /\ UpToNow' /\ ListedOnce'
  BY DEF ItemsInv, RunType, MemType, UpToNow, ListedOnce, Listed, InItem
<1>2. AtWork'
  BY DEF ItemsInv, AtWork, AtGenerator, AtReviewer, AtSolver, Working
<1> QED BY <1>1, <1>2 DEF ItemsInv

\* The empty list is a list of anything.
LEMMA EmptyList ==
  ASSUME NEW S
  PROVE  <<>> \in Seq(S)
OBVIOUS

\* A run that begins knows nothing of any item.
LEMMA NothingYet ==
  ASSUME NEW e, e = NoLists, NEW n, NEW stage \in Stages
  PROVE  /\ e[stage] = <<>> /\ e.provenance = <<>> /\ e.outcomes = <<>>
         /\ Of(e, n, stage) = {} /\ Valid(e, n, stage) = {}
         /\ Orders(e[stage]) = {} /\ Untouched(e, n, stage)
<1>1. e[stage] = <<>> /\ e.provenance = <<>> /\ e.outcomes = <<>>
  BY DEF NoLists, Lists, Stages, RETRY_STAGES
<1>2. DOMAIN e.provenance = {} /\ DOMAIN e[stage] = {}
  BY <1>1
<1> QED BY <1>1, <1>2 DEF Of, Valid, Orders, Untouched

\* At least one attempt is allowed.
LEMMA TriesAllowed ==
  ASSUME NEW cohort
  PROVE  MaxTries(cohort) \in Nat /\ MaxTries(cohort) >= 1
BY LiveAssumption DEF MaxTries

\* A run begins.
LEMMA StartItems ==
  ASSUME ItemsInv, Start
  PROVE  ItemsInv'
<1>1. PICK n \in Cohorts :
         run' = [pc |-> "generator", id |-> run.id + 1, items |-> run.items + n,
                 frozen |-> src.version, cohort |-> n, order |-> 1, attempt |-> 1,
                 written |-> 0, candidate |-> None]
  BY DEF Start
<1>2. n \in Nat \ {0} /\ src' = src /\ mem' = NoLists
  BY LiveAssumption DEF Start, Harness
<1>3. SourceType' /\ RunType'
  <2>1. run.id + 1 \in Nat /\ run.items + n \in Nat /\ src.version \in 0..1
    BY <1>2 DEF ItemsInv, SourceType, RunType
  <2> QED BY <1>1, <1>2, <2>1 DEF SourceType, RunType, Steps
<1>4. \A stage \in Stages : mem'[stage] = <<>> /\ Orders(mem'[stage]) = {}
  BY <1>2, NothingYet
<1>5. mem'.provenance = <<>> /\ mem'.outcomes = <<>> /\ DOMAIN mem'.outcomes = {}
  <2>1. "generator" \in Stages
    BY DEF Stages, RETRY_STAGES
  <2> QED BY <1>2, <2>1, NothingYet
<1>6. MemType' /\ ListedOnce'
  <2>1. mem' = [a \in Lists \cup {"tests"} |-> mem'[a]]
    BY <1>2 DEF NoLists
  <2>2. \A stage \in Stages : mem'[stage] \in Seq(Listed(stage))
    BY <1>4, EmptyList
  <2>3. (\A stage \in Stages : mem[stage] \in Seq(Listed(stage)))'
    BY <2>2 DEF Listed
  <2>4. ListedOnce'
    BY <1>4 DEF ListedOnce
  <2> QED BY <1>5, <2>1, <2>3, <2>4 DEF MemType
<1>7. UpToNow'
  BY <1>1, <1>2, <1>4, <1>5 DEF UpToNow, InItem, Steps, LastSteps
<1>8. AtWork'
  <2>1. {"generator", "reviewer", "solver"} = Stages
    BY DEF Stages, RETRY_STAGES
  <2>2. /\ Of(mem', 1, "generator") = {} /\ Untouched(mem', 1, "reviewer")
        /\ Untouched(mem', 1, "solver") /\ 1 \notin Orders(mem'.generator)
    BY <1>2, <2>1, NothingYet
  <2>3. Cardinality(Of(mem', 1, "generator")) = 0
    BY <2>2, FS_EmptySet
  <2>4. AtGenerator(run.order)'
    BY <1>1, <2>2, <2>3, TriesAllowed DEF AtGenerator
  <2> QED BY <1>1, <2>4 DEF AtWork, GeneratorSteps, ReviewerSteps, SolverSteps
<1> QED BY <1>3, <1>5, <1>6, <1>7, <1>8 DEF ItemsInv

\* The initial state.
LEMMA InitItems ==
  ASSUME Init
  PROVE  ItemsInv
<1>1. /\ run.pc = "ended" /\ run.id = 0 /\ run.items = 0 /\ run.frozen = 0
      /\ run.cohort \in Nat \ {0} /\ SourceType /\ RunType /\ mem = NoLists
  <2>1. (CHOOSE n \in Cohorts : TRUE) \in Nat \ {0}
    BY LiveAssumption
  <2> QED BY <2>1 DEF Init, SourceType, RunType, Steps
<1>2. \A stage \in Stages : mem[stage] = <<>> /\ Orders(mem[stage]) = {}
  BY <1>1, NothingYet
<1>3. mem.provenance = <<>> /\ mem.outcomes = <<>> /\ DOMAIN mem.outcomes = {}
  <2>1. "generator" \in Stages
    BY DEF Stages, RETRY_STAGES
  <2>2. mem.provenance = <<>> /\ mem.outcomes = <<>>
    BY <1>1, <2>1, NothingYet
  <2> QED BY <2>2
<1>4. MemType /\ ListedOnce
  <2>1. mem = [a \in Lists \cup {"tests"} |-> mem[a]]
    BY <1>1 DEF NoLists
  <2>2. \A stage \in Stages : mem[stage] \in Seq(Listed(stage))
    BY <1>2, EmptyList
  <2>3. ListedOnce
    BY <1>2 DEF ListedOnce
  <2> QED BY <1>3, <2>1, <2>2, <2>3, EmptyList DEF MemType
<1>5. UpToNow /\ AtWork
  BY <1>1 DEF UpToNow, AtWork, GeneratorSteps, ReviewerSteps, SolverSteps
<1> QED BY <1>1, <1>3, <1>4, <1>5 DEF ItemsInv

-----------------------------------------------------------------------------
(* The ways out of a stage. *)

\* What the steps of an item have in common.
LEMMA MemFields ==
  ASSUME MemType
  PROVE  /\ {"generator", "reviewer", "solver"} = Stages
         /\ DOMAIN mem = Lists \cup {"tests"}
         /\ Stages \cup {"provenance", "outcomes"} = Lists
         /\ "provenance" \notin Stages /\ "outcomes" \notin Stages
BY DEF MemType, Stages, RETRY_STAGES, Lists

\* An item that gets its outcome, and the run goes on to write.
LEMMA ItemEnds ==
  ASSUME SourceType', RunType', MemType', UpToNow', ListedOnce',
         run'.pc = "write", run'.cohort = run.cohort,
         \A n \in DOMAIN mem'.outcomes : n \in DOMAIN mem.outcomes \/ n = run.order,
         \A n \in DOMAIN mem.outcomes : Done(mem', run.cohort, n),
         Done(mem', run.cohort, run.order)
  PROVE  ItemsInv'
<1>1. AtWork'
  BY DEF AtWork, GeneratorSteps, ReviewerSteps, SolverSteps
<1>2. \A n \in DOMAIN mem'.outcomes : Done(mem', run'.cohort, n)
  OBVIOUS
<1> QED BY <1>1, <1>2 DEF ItemsInv

\* The Generator failed: another attempt, or the end of the item.
LEMMA GeneratorFailedItems ==
  ASSUME ItemsInv, src' = src, run.pc \in GeneratorSteps,
         NEW category \in LiveErrors, GeneratorFailed(category)
  PROVE  ItemsInv'
<1> DEFINE n == run.order
           r == sidecar("generator", FALSE, category)
           o == outcome("GENERATION_FAILED", category, FALSE)
           new == Len(mem.provenance) + 1
           again == /\ category = "schema" /\ run.attempt <= GENERATOR_VALIDATION_RETRIES
                    /\ run.cohort # 1
<1>1. /\ SourceType /\ RunType /\ MemType /\ UpToNow /\ ListedOnce /\ AtGenerator(n) /\ InItem
      /\ \A k \in DOMAIN mem.outcomes : Done(mem, run.cohort, k)
  BY ItemSteps DEF ItemsInv, AtWork, RunType
<1>2. /\ mem' = [mem EXCEPT !.provenance = Append(@, r),
                            !.outcomes = IF again THEN @ ELSE Append(@, o)]
      /\ run' = [run EXCEPT !.pc = IF again THEN "generator" ELSE "write",
                            !.attempt = IF again THEN @ + 1 ELSE @]
  BY DEF GeneratorFailed
<1>3. r \in Sidecar /\ r.order = n /\ r.stage = "generator" /\ r.category = category
      /\ ~ r.contract_valid
  BY <1>1 DEF sidecar, Sidecar, RunType, Stages, RETRY_STAGES
<1>4. o \in Recorded /\ o.order = n /\ o.state = "GENERATION_FAILED"
  BY <1>1 DEF outcome, Recorded, RunType, States, VALID_STATES, FailedStates
<1> HIDE DEF r, o, again
<1>5. /\ mem' = [a \in Lists \cup {"tests"} |-> mem'[a]]
      /\ mem'.provenance = Append(mem.provenance, r)
      /\ mem'.outcomes = IF again THEN mem.outcomes ELSE Append(mem.outcomes, o)
      /\ \A stage \in Stages : mem'[stage] = mem[stage]
  BY <1>1, <1>2, MemFields DEF MemType
<1>6. /\ run'.pc = IF again THEN "generator" ELSE "write"
      /\ run'.attempt = IF again THEN run.attempt + 1 ELSE run.attempt
      /\ run'.order = n /\ run'.cohort = run.cohort /\ RunType' /\ SourceType'
  <2> DEFINE pc == IF again THEN "generator" ELSE "write"
             attempt == IF again THEN run.attempt + 1 ELSE run.attempt
  <2>1. pc \in Steps /\ attempt \in Nat
    <3>1. run.attempt \in Nat
      BY <1>1 DEF RunType
    <3>2. attempt \in Nat
      BY <3>1
    <3>3. pc \in Steps
      BY DEF Steps
    <3> QED BY <3>2, <3>3
  <2>2. run' = [run EXCEPT !.pc = pc, !.attempt = attempt]
    BY <1>1, <1>2 DEF RunType
  <2> HIDE DEF pc, attempt
  <2>3. /\ run'.pc = pc /\ run'.attempt = attempt
        /\ run'.order = n /\ run'.cohort = run.cohort /\ RunType'
    BY <1>1, <2>1, <2>2 DEF RunType
  <2> QED BY <1>1, <2>3 DEF pc, attempt, SourceType
<1>7. /\ MemType' /\ UpToNow' /\ ListedOnce' /\ n = Len(mem.outcomes) + 1
      /\ \A k \in DOMAIN mem'.outcomes : k \in DOMAIN mem.outcomes \/ k = n
      /\ \A k \in DOMAIN mem.outcomes : Done(mem', run.cohort, k)
  <2>1. \A stage \in Stages : MayList(stage)
    BY <1>5 DEF MayList
  <2>2. run'.pc \in Steps \ LastSteps /\ (again => InItem')
    BY <1>6 DEF Steps, LastSteps, InItem
  <2>3. \/ mem'.outcomes = mem.outcomes /\ InItem'
        \/ \E x \in Recorded : mem'.outcomes = Append(mem.outcomes, x) /\ run'.pc = "write"
    BY <1>4, <1>5, <1>6, <2>2
  <2> QED BY <1>1, <1>3, <1>5, <1>6, <2>1, <2>2, <2>3, ItemStep
<1>8. /\ Of(mem', n, "generator") = Of(mem, n, "generator") \cup {new}
      /\ Valid(mem', n, "generator") = {} /\ Valid(mem', n, "reviewer") = {}
      /\ Valid(mem', n, "solver") = {}
      /\ Of(mem', n, "reviewer") = {} /\ Of(mem', n, "solver") = {}
      /\ \A k \in Of(mem', n, "generator") : ~ mem'.provenance[k].contract_valid
      /\ \A k \in Of(mem, n, "generator") :
           mem'.provenance[k].category = "schema" /\ k < new /\ k \in Nat
      /\ mem'.provenance[new].category = category
  <2>1. mem.provenance \in Seq(Sidecar)
    BY <1>1 DEF MemType
  <2>2. /\ Of(mem', n, "generator") = Of(mem, n, "generator") \cup {new}
        /\ Of(mem', n, "reviewer") = {} /\ Of(mem', n, "solver") = {}
        /\ mem'.provenance[new] = r
        /\ \A k \in DOMAIN mem.provenance :
             mem'.provenance[k] = mem.provenance[k] /\ k \in Nat /\ k < new
    BY <2>1, <1>1, <1>3, <1>5, SidecarAdded DEF AtGenerator, Untouched
  <2>3. \A k \in Of(mem, n, "generator") : /\ k \in DOMAIN mem.provenance
                                           /\ mem.provenance[k].category = "schema"
                                           /\ ~ mem.provenance[k].contract_valid
    BY <1>1 DEF AtGenerator, Of
  <2>4. \A k \in Of(mem', n, "generator") : ~ mem'.provenance[k].contract_valid
    BY <2>2, <2>3, <1>3
  <2> QED BY <1>3, <2>2, <2>3, <2>4 DEF Valid
<1>9. /\ Cardinality(Of(mem', n, "generator")) = run.attempt
      /\ \A stage \in Stages : n \notin Orders(mem'[stage])
  <2>1. /\ IsFiniteSet(Of(mem, n, "generator")) /\ new \notin Of(mem, n, "generator")
    BY <1>1, OfFinite DEF MemType
  <2>2. Cardinality(Of(mem, n, "generator") \cup {new}) = Cardinality(Of(mem, n, "generator")) + 1
    BY <2>1, FS_AddElement
  <2>3. Cardinality(Of(mem, n, "generator")) = run.attempt - 1 /\ run.attempt \in Nat
    BY <1>1 DEF AtGenerator, RunType
  <2>4. \A stage \in Stages : n \notin Orders(mem[stage])
    BY <1>1, MemFields DEF AtGenerator, Untouched
  <2>5. Cardinality(Of(mem', n, "generator")) = run.attempt
    <3>1. Of(mem', n, "generator") = Of(mem, n, "generator") \cup {new}
      BY <1>8
    <3>2. Cardinality(Of(mem', n, "generator")) = (run.attempt - 1) + 1
      BY <3>1, <2>2, <2>3
    <3> HIDE DEF new, n
    <3> QED BY <3>2, <2>3
  <2> QED BY <1>5, <2>4, <2>5
<1>10. CASE again
  <2>1. run.attempt + 1 \in 1..MaxTries(run.cohort)
    BY <1>1, <1>10, LiveAssumption DEF AtGenerator, MaxTries, again, RunType
  <2>2. Cardinality(Of(mem', n, "generator")) = run'.attempt - 1
    BY <1>1, <1>6, <1>9, <1>10 DEF RunType
  <2>3. \A k \in Of(mem', n, "generator") : mem'.provenance[k].category = "schema"
    BY <1>8, <1>10 DEF again
  <2>4. /\ n \notin Orders(mem'.generator)
        /\ Untouched(mem', n, "reviewer") /\ Untouched(mem', n, "solver")
    BY <1>1, <1>8, <1>9, MemFields DEF Untouched
  <2>5. AtGenerator(run.order)'
    BY <1>6, <1>8, <1>10, <2>1, <2>2, <2>3, <2>4 DEF AtGenerator
  <2>6. AtWork'
    BY <1>6, <1>10, <2>5 DEF AtWork, GeneratorSteps, ReviewerSteps, SolverSteps
  <2>7. \A k \in DOMAIN mem'.outcomes : Done(mem', run'.cohort, k)
    BY <1>5, <1>6, <1>7, <1>10
  <2> QED BY <1>6, <1>7, <2>6, <2>7 DEF ItemsInv
<1>11. CASE ~ again
  <2>1. Tried(mem', run.cohort, n)
    <3>1. \A k \in Of(mem', n, "generator") :
            (\E later \in Of(mem', n, "generator") : later > k) => mem'.provenance[k].category = "schema"
      <4>1. ~ (\E later \in Of(mem', n, "generator") : later > new)
        <5>1. new \in Nat
          BY <1>1 DEF MemType
        <5> QED BY <1>8, <5>1
      <4> QED BY <1>8, <4>1
    <3>2. run.attempt \in 1..MaxTries(run.cohort)
      BY <1>1 DEF AtGenerator
    <3> QED BY <1>9, <3>1, <3>2 DEF Tried
  <2>2. mem'.outcomes[n] = o
    BY <1>1, <1>4, <1>5, <1>7, <1>11 DEF MemType
  <2>3. /\ Cardinality(Of(mem', n, "reviewer")) = 0 /\ Cardinality(Of(mem', n, "solver")) = 0
        /\ Cardinality(Valid(mem', n, "reviewer")) = 0
    BY <1>8, FS_EmptySet
  <2>4. \A stage \in Stages : n \in Orders(mem'[stage]) <=> Valid(mem', n, stage) # {}
    BY <1>1, <1>8, <1>9, MemFields
  <2>5. n \notin Orders(mem'.solver)
    BY <1>1, <1>9, MemFields
  <2>6. Done(mem', run.cohort, n)
    BY <1>4, <1>8, <2>1, <2>2, <2>3, <2>4, <2>5 DEF Done
  <2>7. run'.pc = "write"
    BY <1>6, <1>11
  <2> QED BY <1>6, <1>7, <2>6, <2>7, ItemEnds
<1> QED BY <1>10, <1>11

\* The Candidate that a Generator output begins.
LEMMA Born ==
  ASSUME NEW body \in GeneratorBodies
  PROVE  LET c == transition(candidate_from_generator(body), "REVIEWING") IN
         c \in Candidate /\ c.generator_item.body = body /\ InputsCanonical(c)
<1> DEFINE item == [body |-> body, ver |-> 0]
           zero == [s \in RETRY_STAGES |-> 0]
           blank ==
    [state |-> "GENERATED", generation_attempt |-> 1, revision_count |-> 0,
     system_failure_retries |-> zero, validation_failure_retries |-> zero,
     generator_item |-> item,
     reviewer_item |-> None, reviewer_input |-> None,
     solver_item |-> None, solver_input |-> None, leakage_check |-> None,
     consensus |-> None, acceptance_policy |-> None, failure |-> None,
     discard_note |-> FALSE, generation_history |-> 0, review_history |-> {}]
           c == transition(blank, "REVIEWING")
<1>1. item \in GeneratorItem /\ zero \in Retries /\ item.body = body
  BY LiveAssumption DEF GeneratorItem, Retries
<1>2. /\ blank \in Candidate /\ blank.generator_item = item
      /\ blank.reviewer_input = None /\ blank.solver_input = None
  <2> HIDE DEF item, zero
  <2> QED BY <1>1 DEF Candidate, States, VALID_STATES
<1>3. candidate_from_generator(body) = blank
  BY DEF candidate_from_generator
<1> HIDE DEF blank, item
<1>4. /\ c \in Candidate /\ c.generator_item = item
      /\ c.reviewer_input = None /\ c.solver_input = None
  <2>1. c \in Candidate /\ SameItems(blank, c) /\ SameRest(blank, c)
    BY <1>2, TransitionType, TransitionKeeps DEF VALID_STATES
  <2> HIDE DEF c
  <2> QED BY <1>2, <2>1 DEF SameItems, SameRest
<1>5. InputsCanonical(c)
  <2> HIDE DEF c
  <2> QED BY <1>4 DEF InputsCanonical
<1> QED BY <1>1, <1>3, <1>4, <1>5

\* A failed stage accepts nothing.
LEMMA FailedIsNot ==
  ASSUME NEW c \in Candidate, NEW kind \in FailureKinds, NEW stage \in RETRY_STAGES
  PROVE  /\ record_stage_failure(c, kind, stage) \in Candidate
         /\ record_stage_failure(c, kind, stage).state \notin {"ACCEPTED", "SOLVING"}
BY FailureEffect DEF FailedBy, FailedStateOf, Raised

\* What a review of the live run leads to.
LEMMA LiveReview ==
  ASSUME NEW c \in Candidate, InputsCanonical(c), NEW body \in ReviewBody, NEW crash \in BOOLEAN
  PROVE  LET out == [body |-> body, of |-> 0]
             d == process_review_output([c EXCEPT !.reviewer_item = out], crash)
         IN  /\ d \in Candidate /\ d.state # "ACCEPTED"
             /\ d.generator_item = c.generator_item /\ d.reviewer_item = out
             /\ d.state = "SOLVING" => body.verdict = "PASS"
<1> DEFINE out == [body |-> body, of |-> 0]
           given == [c EXCEPT !.reviewer_item = out]
           d == process_review_output(given, crash)
           e == apply_review_result(c, out, crash)
           history == d.review_history \cup {[output |-> out, routed_state |-> d.state]}
<1>1. out \in ReviewerItem /\ out.body = body
  BY DEF ReviewerItem
<1>2. given \in Candidate /\ given.reviewer_item = out
  <2> HIDE DEF out
  <2> QED BY <1>1 DEF Candidate
<1>3. out # None
  BY <1>1, NoneAssumption
<1>4. d \in Candidate
  <2> HIDE DEF given, out
  <2> QED BY <1>2, <1>3, ReviewType
<1>5. e = [d EXCEPT !.review_history = history]
  BY DEF apply_review_result
<1>6. /\ e.state = d.state /\ e.generator_item = d.generator_item
      /\ e.reviewer_item = d.reviewer_item
  <2> HIDE DEF d, e, history
  <2> QED BY <1>4, <1>5 DEF Candidate
<1>7. /\ e.generator_item = c.generator_item /\ e.reviewer_item = out
      /\ e.state # "ACCEPTED"
      /\ e.state = "SOLVING" => body.verdict = "PASS"
  <2> HIDE DEF e, out
  <2>1. /\ e.generator_item = c.generator_item /\ e.reviewer_item = out
        /\ \/ /\ e.state \in {"SOLVING", "REJECTED", "DISCARDED", "REVISE_REQUIRED", Raised}
              /\ e.state = "SOLVING" <=> out.body.verdict = "PASS" /\ e.state # Raised
           \/ \E kind \in FailureKinds : FailedBy(e, kind, "reviewer")
    BY <1>1, ReviewEffect DEF e
  <2> QED BY <1>1, <2>1 DEF FailedBy, FailedStateOf, Raised
<1> HIDE DEF d, e
<1> QED BY <1>4, <1>6, <1>7 DEF d

\* A Candidate the Solver stage accepts has one answer three times.
LEMMA LiveSolve ==
  ASSUME NEW c \in Candidate, c.reviewer_item # None,
         NEW body \in SolverBody, NEW crash \in BOOLEAN
  PROVE  LET d == process_solver_stage(c, [body |-> body, of |-> 0],
                    canonical_input(c.generator_item), crash)
         IN  /\ d \in Candidate
             /\ d.state = "ACCEPTED" =>
                  /\ body.answer = c.generator_item.body.key
                  /\ c.reviewer_item.body.answer = c.generator_item.body.key
<1> DEFINE out == [body |-> body, of |-> 0]
           input == canonical_input(c.generator_item)
           g == c.generator_item.body
           r == c.reviewer_item.body
           d == process_solver_stage(c, out, input, crash)
           judged == StageOutcome(out.body, crash)
           guarded == [c EXCEPT !.solver_input = input, !.leakage_check = "ok"]
           result == evaluate_consensus(g, r, out.body)
           t == transition(guarded, result.routing)
           policy == IF result.routing = "ACCEPTED" THEN acceptance_policy_record ELSE None
           decided == [t EXCEPT !.solver_item = out, !.failure = None,
                                !.consensus = result, !.acceptance_policy = policy]
<1>1. /\ out \in SolverItem /\ out.body = body /\ input \in Nat
      /\ g \in GeneratorBody /\ r \in ReviewBody
  BY DEF SolverItem, canonical_input, Candidate, GeneratorItem, ReviewerItem
<1>2. d \in Candidate
  <2> HIDE DEF out, input
  <2> QED BY <1>1, SolverStageType
<1>3. guarded \in Candidate
  <2> HIDE DEF input
  <2> QED BY <1>1 DEF Candidate
<1>4. /\ result.routing \in VALID_STATES
      /\ result.routing = "ACCEPTED" => body.answer = g.key /\ r.answer = g.key
  <2>1. result.routing \in {"ACCEPTED", "MANUAL_REVIEW", "DISCARDED"}
    BY DEF evaluate_consensus
  <2>2. ASSUME result.routing = "ACCEPTED"
        PROVE  body.answer = g.key /\ r.answer = g.key
    <3> HIDE DEF g, r, out
    <3>1. {k \in Conditions : ~ ConditionHolds(g, r, out.body)[k]} = {}
      BY <2>2 DEF evaluate_consensus
    <3>2. ConditionHolds(g, r, out.body)["solver_is_key"]
          /\ ConditionHolds(g, r, out.body)["reviewer_is_key"]
      BY <3>1 DEF Conditions
    <3> QED BY <1>1, <3>2 DEF ConditionHolds
  <2> HIDE DEF result
  <2> QED BY <2>1, <2>2 DEF VALID_STATES, TERMINAL_STATES
<1>5. decided.state \in {result.routing, Raised}
  <2>1. t \in Candidate /\ t.state \in {result.routing, Raised}
    <3> HIDE DEF guarded, result
    <3> QED BY <1>3, <1>4, TransitionType, TransitionFields
  <2> HIDE DEF t, result, out, policy
  <2> QED BY <2>1 DEF Candidate
<1>6. \/ \E e \in Candidate, kind \in FailureKinds, stage \in RETRY_STAGES :
            d = record_stage_failure(e, kind, stage)
      \/ d = decided
  <2>1. /\ "content" \in FailureKinds /\ "generator" \in RETRY_STAGES
        /\ "reviewer" \in RETRY_STAGES /\ "solver" \in RETRY_STAGES
    BY DEF FailureKinds, RETRY_STAGES
  <2>2. \/ d = record_stage_failure(c, "content", "generator")
        \/ d = record_stage_failure(c, "content", "reviewer")
        \/ judged \in FailureKinds /\ d = record_stage_failure(guarded, judged, "solver")
        \/ d = decided
    <3> HIDE DEF guarded, decided, judged
    <3> QED BY DEF process_solver_stage, guarded, decided, judged
  <2> HIDE DEF d, decided, guarded
  <2> QED BY <1>3, <2>1, <2>2
<1>7. d.state = "ACCEPTED" => decided.state = "ACCEPTED"
  <2> HIDE DEF d, decided
  <2> QED BY <1>6, FailedIsNot
<1> HIDE DEF d, decided, result
<1>8. d.state = "ACCEPTED" => body.answer = g.key /\ r.answer = g.key
  BY <1>4, <1>5, <1>7 DEF Raised
<1> QED BY <1>2, <1>8 DEF d

\* The Generator's answer is accepted.
LEMMA GeneratedItems ==
  ASSUME ItemsInv, src' = src, run.pc \in GeneratorSteps,
         NEW body \in GeneratorBodies, Generated(body)
  PROVE  ItemsInv'
<1> DEFINE n == run.order
           r == sidecar("generator", TRUE, "none")
           c == transition(candidate_from_generator(body), "REVIEWING")
           x == [order |-> n, body |-> c.generator_item.body]
           new == Len(mem.provenance) + 1
<1>1. /\ SourceType /\ RunType /\ MemType /\ UpToNow /\ ListedOnce /\ AtGenerator(n) /\ InItem
      /\ \A k \in DOMAIN mem.outcomes : Done(mem, run.cohort, k)
      /\ n \in Nat
  BY ItemSteps DEF ItemsInv, AtWork, RunType
<1>2. /\ mem' = [mem EXCEPT !.generator = Append(@, x), !.provenance = Append(@, r),
                            !.outcomes = mem.outcomes]
      /\ run' = [run EXCEPT !.pc = "reviewer", !.candidate = c]
  BY DEF Generated, ListGenerated
<1>3. r \in Sidecar /\ r.order = n /\ r.stage = "generator" /\ r.contract_valid
  BY <1>1 DEF sidecar, Sidecar, Stages, RETRY_STAGES
<1>4. c \in Candidate /\ c.generator_item.body = body /\ InputsCanonical(c)
  BY Born
<1>5. x \in Listed("generator") /\ x.order = n /\ x.body = body
  <2> HIDE DEF c
  <2> QED BY <1>1, <1>4 DEF Listed
<1> HIDE DEF r, c, x
<1>6. /\ mem' = [a \in Lists \cup {"tests"} |-> mem'[a]]
      /\ mem'.provenance = Append(mem.provenance, r)
      /\ mem'.outcomes = mem.outcomes
      /\ mem'.generator = Append(mem.generator, x)
      /\ mem'.reviewer = mem.reviewer /\ mem'.solver = mem.solver
  BY <1>1, <1>2, MemFields DEF MemType
<1>7. /\ run'.pc = "reviewer" /\ run'.candidate = c
      /\ run'.order = n /\ run'.cohort = run.cohort /\ RunType' /\ SourceType'
  BY <1>1, <1>2, <1>4 DEF RunType, Steps, SourceType
<1>8. n \notin Orders(mem.generator)
  BY <1>1 DEF AtGenerator
<1>9. /\ MemType' /\ UpToNow' /\ ListedOnce'
      /\ \A k \in DOMAIN mem.outcomes : Done(mem', run.cohort, k)
  <2>1. \A stage \in Stages : MayList(stage)
    <3>1. MayList("generator") /\ MayList("reviewer") /\ MayList("solver")
      BY <1>5, <1>6, <1>8 DEF MayList
    <3> QED BY <1>1, <3>1, MemFields
  <2>2. run'.pc \in Steps \ LastSteps /\ InItem'
    BY <1>7 DEF Steps, LastSteps, InItem
  <2> QED BY <1>1, <1>3, <1>6, <1>7, <2>1, <2>2, ItemStep
<1>10. /\ Of(mem', n, "generator") = Of(mem, n, "generator") \cup {new}
       /\ Valid(mem', n, "generator") # {}
       /\ Of(mem', n, "reviewer") = {} /\ Of(mem', n, "solver") = {}
       /\ \A k \in Of(mem, n, "generator") :
            mem'.provenance[k].category = "schema" /\ k < new /\ k \in Nat
       /\ new \in Nat
  <2>1. mem.provenance \in Seq(Sidecar)
    BY <1>1 DEF MemType
  <2>2. /\ Of(mem', n, "generator") = Of(mem, n, "generator") \cup {new}
        /\ Of(mem', n, "reviewer") = {} /\ Of(mem', n, "solver") = {}
        /\ mem'.provenance[new] = r /\ new \in Nat
        /\ \A k \in DOMAIN mem.provenance :
             mem'.provenance[k] = mem.provenance[k] /\ k \in Nat /\ k < new
    <3>1. Of(mem, n, "reviewer") = {} /\ Of(mem, n, "solver") = {}
      BY <1>1 DEF AtGenerator, Untouched
    <3>2. /\ mem'.provenance[new] = r /\ new \in Nat
          /\ \A k \in DOMAIN mem.provenance :
               mem'.provenance[k] = mem.provenance[k] /\ k \in Nat /\ k < new
      BY <2>1, <1>3, <1>6, SidecarAdded
    <3>3. Of(mem', n, "generator") = Of(mem, n, "generator") \cup {new}
      <4>1. Of(mem', r.order, r.stage) = Of(mem, r.order, r.stage) \cup {new}
        BY <2>1, <1>3, <1>6, SidecarOf
      <4> QED BY <1>3, <4>1
    <3>4. Of(mem', n, "reviewer") = Of(mem, n, "reviewer")
      BY <2>1, <1>3, <1>6, SidecarAdded
    <3>5. Of(mem', n, "solver") = Of(mem, n, "solver")
      BY <2>1, <1>3, <1>6, SidecarAdded
    <3> QED BY <3>1, <3>2, <3>3, <3>4, <3>5
  <2>3. new \in Valid(mem', n, "generator")
    BY <1>3, <2>2 DEF Valid
  <2>4. \A k \in Of(mem, n, "generator") : /\ k \in DOMAIN mem.provenance
                                           /\ mem.provenance[k].category = "schema"
    BY <1>1 DEF AtGenerator, Of
  <2> QED BY <2>2, <2>3, <2>4
<1>11. Tried(mem', run.cohort, n)
  <2>1. Cardinality(Of(mem', n, "generator")) = run.attempt
    <3>1. /\ IsFiniteSet(Of(mem, n, "generator")) /\ new \notin Of(mem, n, "generator")
      BY <1>1, OfFinite DEF MemType
    <3>2. Cardinality(Of(mem, n, "generator") \cup {new}) = Cardinality(Of(mem, n, "generator")) + 1
      BY <3>1, FS_AddElement
    <3>3. Cardinality(Of(mem, n, "generator")) = run.attempt - 1 /\ run.attempt \in Nat
      BY <1>1 DEF AtGenerator, RunType
    <3>4. Cardinality(Of(mem', n, "generator")) = (run.attempt - 1) + 1
      BY <1>10, <3>2, <3>3
    <3> HIDE DEF new, n
    <3> QED BY <3>3, <3>4
  <2>2. \A k \in Of(mem', n, "generator") :
          (\E later \in Of(mem', n, "generator") : later > k) => mem'.provenance[k].category = "schema"
    <3>1. ~ (\E later \in Of(mem', n, "generator") : later > new)
      BY <1>10
    <3> QED BY <1>10, <3>1
  <2>3. run.attempt \in 1..MaxTries(run.cohort)
    BY <1>1 DEF AtGenerator
  <2> QED BY <2>1, <2>2, <2>3 DEF Tried
<1>12. /\ n \in Orders(mem'.generator) /\ ByOrder(mem'.generator, n) = body
       /\ n \notin Orders(mem'.reviewer) /\ n \notin Orders(mem'.solver)
  <2>1. /\ mem.generator \in Seq(Listed("generator"))
        /\ \A j, k \in DOMAIN mem.generator :
             mem.generator[j].order = mem.generator[k].order => j = k
    BY <1>1, MemFields DEF MemType, ListedOnce
  <2>2. /\ Orders(Append(mem.generator, x)) = Orders(mem.generator) \cup {n}
        /\ ByOrder(Append(mem.generator, x), n) = body
    <3>1. x.order \notin Orders(mem.generator)
      BY <1>5, <1>8
    <3>2. /\ Orders(Append(mem.generator, x)) = Orders(mem.generator) \cup {x.order}
          /\ ByOrder(Append(mem.generator, x), x.order) = x.body
      BY <1>5, <2>1, <3>1, ItemAdded
    <3> QED BY <1>5, <3>2
  <2> QED BY <1>1, <1>6, <2>2 DEF AtGenerator, Untouched
<1>13. AtReviewer(run.order)'
  <2>1. Untouched(mem', n, "reviewer") /\ Untouched(mem', n, "solver")
    BY <1>10, <1>12 DEF Untouched
  <2> QED BY <1>4, <1>7, <1>10, <1>11, <1>12, <2>1 DEF AtReviewer, Working
<1>14. AtWork'
  BY <1>7, <1>13 DEF AtWork, GeneratorSteps, ReviewerSteps, SolverSteps
<1>15. \A k \in DOMAIN mem'.outcomes : Done(mem', run'.cohort, k)
  BY <1>6, <1>7, <1>9
<1> QED BY <1>7, <1>9, <1>14, <1>15 DEF ItemsInv

\* A failed Reviewer or Solver stage ends the item.
LEMMA ItemFailedLater ==
  ASSUME ItemsInv, src' = src, NEW stage \in {"reviewer", "solver"},
         stage = "reviewer" => run.pc \in ReviewerSteps,
         stage = "solver" => run.pc \in SolverSteps,
         NEW category \in LiveErrors, StageFailed(stage, category)
  PROVE  ItemsInv'
<1> DEFINE n == run.order
           kind == IF category = "schema" THEN "content" ELSE "system"
           failed == record_stage_failure(run.candidate, kind, stage)
           r == sidecar(stage, FALSE, category)
           o == outcome(failed.state, category, FALSE)
           new == Len(mem.provenance) + 1
<1>1. /\ SourceType /\ RunType /\ MemType /\ UpToNow /\ ListedOnce /\ InItem
      /\ \A k \in DOMAIN mem.outcomes : Done(mem, run.cohort, k)
      /\ stage = "reviewer" => AtReviewer(n)
      /\ stage = "solver" => AtSolver(n)
      /\ run.candidate \in Candidate /\ n \in Nat
  BY ItemSteps DEF ItemsInv, AtWork, RunType, AtReviewer, AtSolver, Working
<1>2. /\ mem' = [mem EXCEPT !.provenance = Append(@, r), !.outcomes = Append(@, o)]
      /\ run' = [run EXCEPT !.pc = "write", !.candidate = failed]
  BY DEF StageFailed
<1>3. r \in Sidecar /\ r.order = n /\ r.stage = stage /\ ~ r.contract_valid
  BY <1>1 DEF sidecar, Sidecar, Stages, RETRY_STAGES
<1>4. failed \in Candidate /\ failed.state # "ACCEPTED"
  BY <1>1, FailedIsNot DEF FailureKinds, RETRY_STAGES
<1>5. o \in Recorded /\ o.order = n /\ o.state # "ACCEPTED"
  <2> HIDE DEF failed
  <2> QED BY <1>1, <1>4 DEF outcome, Recorded, Candidate
<1> HIDE DEF r, o, failed
<1>6. /\ mem' = [a \in Lists \cup {"tests"} |-> mem'[a]]
      /\ mem'.provenance = Append(mem.provenance, r)
      /\ mem'.outcomes = Append(mem.outcomes, o)
      /\ \A s \in Stages : mem'[s] = mem[s]
  BY <1>1, <1>2, MemFields DEF MemType
<1>7. /\ run'.pc = "write" /\ run'.order = n /\ run'.cohort = run.cohort
      /\ RunType' /\ SourceType'
  BY <1>1, <1>2, <1>4 DEF RunType, Steps, SourceType
<1>8. /\ MemType' /\ UpToNow' /\ ListedOnce' /\ n = Len(mem.outcomes) + 1
      /\ \A k \in DOMAIN mem'.outcomes : k \in DOMAIN mem.outcomes \/ k = n
      /\ \A k \in DOMAIN mem.outcomes : Done(mem', run.cohort, k)
  <2>1. \A s \in Stages : MayList(s)
    BY <1>6 DEF MayList
  <2>2. run'.pc \in Steps \ LastSteps
    BY <1>7 DEF Steps, LastSteps
  <2> QED BY <1>1, <1>3, <1>5, <1>6, <1>7, <2>1, <2>2, ItemStep
<1>9. /\ \A s : Valid(mem', n, s) = Valid(mem, n, s)
      /\ \A s : s # stage => Of(mem', n, s) = Of(mem, n, s)
      /\ Of(mem', n, stage) = Of(mem, n, stage) \cup {new}
      /\ \A k \in DOMAIN mem.provenance : mem'.provenance[k] = mem.provenance[k]
  <2>1. mem.provenance \in Seq(Sidecar)
    BY <1>1 DEF MemType
  <2>2. ASSUME NEW s
        PROVE  /\ Valid(mem', n, s) = Valid(mem, n, s)
               /\ s # stage => Of(mem', n, s) = Of(mem, n, s)
               /\ s = stage => Of(mem', n, s) = Of(mem, n, s) \cup {new}
    BY <2>1, <1>3, <1>6, SidecarAdded
  <2>3. \A k \in DOMAIN mem.provenance : mem'.provenance[k] = mem.provenance[k]
    BY <2>1, <1>3, <1>6, SidecarAdded
  <2> QED BY <2>2, <2>3
<1>10. Tried(mem', run.cohort, n)
  <2>1. Tried(mem, run.cohort, n)
    BY <1>1 DEF AtReviewer, AtSolver
  <2>2. /\ Of(mem', n, "generator") = Of(mem, n, "generator")
        /\ Of(mem, n, "generator") \subseteq DOMAIN mem.provenance
    BY <1>9 DEF Of
  <2> QED BY <1>9, <2>1, <2>2 DEF Tried
<1>11. mem'.outcomes[n] = o
  BY <1>1, <1>5, <1>6, <1>8 DEF MemType
<1>12. Of(mem, n, stage) = {} /\ Cardinality({new}) = 1 /\ Cardinality({}) = 0
  BY <1>1, FS_EmptySet, FS_Singleton DEF AtReviewer, AtSolver, Untouched
<1>13. CASE stage = "reviewer"
  <2>1. /\ Valid(mem, n, "reviewer") = {} /\ Of(mem, n, "solver") = {} /\ Valid(mem, n, "solver") = {}
    BY <1>1, <1>13 DEF AtReviewer, Untouched, Valid
  <2>2. /\ Cardinality(Of(mem', n, "reviewer")) = 1 /\ Cardinality(Of(mem', n, "solver")) = 0
        /\ Cardinality(Valid(mem', n, "reviewer")) = 0 /\ Valid(mem', n, "generator") # {}
    BY <1>1, <1>9, <1>12, <1>13, <2>1 DEF AtReviewer
  <2>3. \A s \in Stages : n \in Orders(mem'[s]) <=> Valid(mem', n, s) # {}
    BY <1>1, <1>6, <1>9, <1>13, <2>1, MemFields DEF AtReviewer, Untouched
  <2>4. n \notin Orders(mem'.solver)
    BY <1>1, <1>6, <1>13, MemFields DEF AtReviewer, Untouched
  <2>5. Done(mem', run.cohort, n)
    BY <1>5, <1>10, <1>11, <2>2, <2>3, <2>4 DEF Done
  <2> QED BY <1>7, <1>8, <2>5, ItemEnds
<1>14. CASE stage = "solver"
  <2>1. Valid(mem, n, "solver") = {}
    BY <1>1, <1>14 DEF AtSolver, Untouched, Valid
  <2>2. /\ Cardinality(Of(mem', n, "reviewer")) = 1 /\ Cardinality(Of(mem', n, "solver")) = 1
        /\ Cardinality(Valid(mem', n, "reviewer")) = 1 /\ Valid(mem', n, "generator") # {}
    BY <1>1, <1>9, <1>12, <1>14 DEF AtSolver
  <2>3. Valid(mem', n, "reviewer") # {}
    <3>1. ASSUME Valid(mem', n, "reviewer") = {}
          PROVE  FALSE
      <4>1. Cardinality(Valid(mem', n, "reviewer")) = 0
        BY <3>1, FS_EmptySet
      <4> QED BY <2>2, <4>1
    <3> QED BY <3>1
  <2>4. \A s \in Stages : n \in Orders(mem'[s]) <=> Valid(mem', n, s) # {}
    BY <1>1, <1>6, <1>9, <1>14, <2>1, <2>2, <2>3, MemFields DEF AtSolver, Untouched
  <2>5. n \notin Orders(mem'.solver)
    BY <1>1, <1>6, <1>14, MemFields DEF AtSolver, Untouched
  <2>6. Done(mem', run.cohort, n)
    BY <1>5, <1>10, <1>11, <2>2, <2>4, <2>5 DEF Done
  <2> QED BY <1>7, <1>8, <2>6, ItemEnds
<1> QED BY <1>13, <1>14

\* The Reviewer's answer is accepted: to the Solver, or the end of the item.
LEMMA ReviewedItems ==
  ASSUME ItemsInv, src' = src, run.pc \in ReviewerSteps,
         NEW body \in ReviewBodies, NEW status \in Statuses, NEW crash \in BOOLEAN,
         Reviewed(body, status, crash)
  PROVE  ItemsInv'
<1> DEFINE n == run.order
           r == sidecar("reviewer", TRUE, "none")
           out == [body |-> body, of |-> 0]
           c == process_review_output([run.candidate EXCEPT !.reviewer_item = out], crash)
           x == [order |-> n, body |-> body, status |-> status]
           o == outcome(c.state, "none", FALSE)
           new == Len(mem.provenance) + 1
           solving == c.state = "SOLVING"
<1>1. /\ SourceType /\ RunType /\ MemType /\ UpToNow /\ ListedOnce /\ AtReviewer(n) /\ InItem
      /\ \A k \in DOMAIN mem.outcomes : Done(mem, run.cohort, k)
      /\ n \in Nat
  BY ItemSteps DEF ItemsInv, AtWork, RunType
<1>2. /\ mem' = [mem EXCEPT !.reviewer = Append(@, x), !.provenance = Append(@, r),
                            !.outcomes = IF solving THEN @ ELSE Append(@, o)]
      /\ run' = [run EXCEPT !.pc = IF solving THEN "solver" ELSE "write", !.candidate = c]
  BY DEF Reviewed, RouteReview
<1>3. r \in Sidecar /\ r.order = n /\ r.stage = "reviewer" /\ r.contract_valid
  BY <1>1 DEF sidecar, Sidecar, Stages, RETRY_STAGES
<1>4. /\ c \in Candidate /\ c.state # "ACCEPTED"
      /\ c.generator_item = run.candidate.generator_item
      /\ c.reviewer_item.body = body /\ c.reviewer_item # None
      /\ c.state = "SOLVING" => body.verdict = "PASS"
  <2>1. /\ body \in ReviewBody /\ run.candidate \in Candidate /\ InputsCanonical(run.candidate)
        /\ out \in ReviewerItem /\ out # None
    BY <1>1, LiveAssumption, NoneAssumption DEF AtReviewer, Working, ReviewerItem
  <2>2. /\ c \in Candidate /\ c.state # "ACCEPTED"
        /\ c.generator_item = run.candidate.generator_item /\ c.reviewer_item = out
        /\ c.state = "SOLVING" => body.verdict = "PASS"
    BY <2>1, LiveReview
  <2> HIDE DEF c
  <2> QED BY <2>1, <2>2
<1>5. x \in Listed("reviewer") /\ x.order = n /\ x.body = body
  BY <1>1 DEF Listed
<1>6. o \in Recorded /\ o.order = n /\ o.state # "ACCEPTED"
  <2> HIDE DEF c
  <2> QED BY <1>1, <1>4 DEF outcome, Recorded, Candidate
<1> HIDE DEF r, c, x, o
<1>7. /\ mem' = [a \in Lists \cup {"tests"} |-> mem'[a]]
      /\ mem'.provenance = Append(mem.provenance, r)
      /\ mem'.outcomes = IF solving THEN mem.outcomes ELSE Append(mem.outcomes, o)
      /\ mem'.reviewer = Append(mem.reviewer, x)
      /\ mem'.generator = mem.generator /\ mem'.solver = mem.solver
  BY <1>1, <1>2, MemFields DEF MemType
<1>8. /\ run'.pc = IF solving THEN "solver" ELSE "write"
      /\ run'.candidate = c
      /\ run'.order = n /\ run'.cohort = run.cohort /\ RunType' /\ SourceType'
  BY <1>1, <1>2, <1>4 DEF RunType, Steps, SourceType
<1>9. n \notin Orders(mem.reviewer) /\ Of(mem, n, "reviewer") = {}
  BY <1>1 DEF AtReviewer, Untouched
<1>10. /\ MemType' /\ UpToNow' /\ ListedOnce' /\ n = Len(mem.outcomes) + 1
       /\ \A k \in DOMAIN mem'.outcomes : k \in DOMAIN mem.outcomes \/ k = n
       /\ \A k \in DOMAIN mem.outcomes : Done(mem', run.cohort, k)
  <2>1. \A stage \in Stages : MayList(stage)
    <3>1. MayList("generator") /\ MayList("reviewer") /\ MayList("solver")
      BY <1>5, <1>7, <1>9 DEF MayList
    <3> QED BY <1>1, <3>1, MemFields
  <2>2. run'.pc \in Steps \ LastSteps /\ (solving => InItem')
    BY <1>8 DEF Steps, LastSteps, InItem
  <2>3. \/ mem'.outcomes = mem.outcomes /\ InItem'
        \/ \E y \in Recorded : mem'.outcomes = Append(mem.outcomes, y) /\ run'.pc = "write"
    BY <1>6, <1>7, <1>8, <2>2
  <2> QED BY <1>1, <1>3, <1>7, <1>8, <2>1, <2>2, <2>3, ItemStep
<1>11. /\ Of(mem', n, "reviewer") = {new} /\ Valid(mem', n, "reviewer") = {new}
       /\ Of(mem', n, "generator") = Of(mem, n, "generator")
       /\ Valid(mem', n, "generator") = Valid(mem, n, "generator")
       /\ Of(mem', n, "solver") = {} /\ Valid(mem', n, "solver") = {}
       /\ \A k \in DOMAIN mem.provenance : mem'.provenance[k] = mem.provenance[k]
  <2>1. mem.provenance \in Seq(Sidecar)
    BY <1>1 DEF MemType
  <2>2. /\ Of(mem', n, "reviewer") = Of(mem, n, "reviewer") \cup {new}
        /\ Valid(mem', n, "reviewer") = Valid(mem, n, "reviewer") \cup {new}
    <3>1. /\ Of(mem', r.order, r.stage) = Of(mem, r.order, r.stage) \cup {new}
          /\ Valid(mem', r.order, r.stage) = Valid(mem, r.order, r.stage) \cup {new}
      BY <2>1, <1>3, <1>7, SidecarOf
    <3> QED BY <1>3, <3>1
  <2>3. ASSUME NEW s \in {"generator", "solver"}
        PROVE  Of(mem', n, s) = Of(mem, n, s) /\ Valid(mem', n, s) = Valid(mem, n, s)
    BY <2>1, <1>3, <1>7, SidecarAdded
  <2>4. /\ Of(mem, n, "solver") = {} /\ Valid(mem, n, "solver") = {}
        /\ Valid(mem, n, "reviewer") = {}
    BY <1>1 DEF AtReviewer, Untouched, Valid
  <2>5. \A k \in DOMAIN mem.provenance : mem'.provenance[k] = mem.provenance[k]
    BY <2>1, <1>3, <1>7, SidecarAdded
  <2> QED BY <1>9, <2>2, <2>3, <2>4, <2>5
<1>12. /\ Cardinality(Of(mem', n, "reviewer")) = 1
       /\ Cardinality(Valid(mem', n, "reviewer")) = 1
       /\ Cardinality(Of(mem', n, "solver")) = 0
       /\ Valid(mem', n, "reviewer") # {}
  <2> HIDE DEF new
  <2> QED BY <1>11, FS_Singleton, FS_EmptySet
<1>13. Tried(mem', run.cohort, n)
  <2>1. Tried(mem, run.cohort, n) /\ Of(mem, n, "generator") \subseteq DOMAIN mem.provenance
    BY <1>1 DEF AtReviewer, Of
  <2> QED BY <1>11, <2>1 DEF Tried
<1>14. n \in Orders(mem'.reviewer) /\ ByOrder(mem'.reviewer, n) = body
  <2>1. /\ mem.reviewer \in Seq(Listed("reviewer")) /\ x.order \notin Orders(mem.reviewer)
        /\ \A j, k \in DOMAIN mem.reviewer :
             mem.reviewer[j].order = mem.reviewer[k].order => j = k
    BY <1>1, <1>5, <1>9, MemFields DEF MemType, ListedOnce
  <2>2. /\ Orders(Append(mem.reviewer, x)) = Orders(mem.reviewer) \cup {x.order}
        /\ ByOrder(Append(mem.reviewer, x), x.order) = x.body
    BY <1>5, <2>1, ItemAdded
  <2> QED BY <1>5, <1>7, <2>2
<1>15. /\ n \in Orders(mem'.generator) /\ n \notin Orders(mem'.solver)
       /\ Valid(mem', n, "generator") # {}
       /\ run.candidate.generator_item.body = ByOrder(mem'.generator, n)
  BY <1>1, <1>7, <1>11 DEF AtReviewer, Untouched, Working
<1>16. CASE solving
  <2>1. Untouched(mem', n, "solver")
    BY <1>11, <1>15 DEF Untouched
  <2>2. c.reviewer_item.body = ByOrder(mem'.reviewer, n)
        /\ ByOrder(mem'.reviewer, n).verdict = "PASS"
    BY <1>4, <1>14, <1>16
  <2>3. Working'
    BY <1>4, <1>8, <1>15 DEF Working
  <2>4. AtSolver(run.order)'
    BY <1>4, <1>8, <1>12, <1>13, <1>14, <1>15, <2>1, <2>2, <2>3 DEF AtSolver
  <2>5. AtWork'
    BY <1>8, <1>16, <2>4 DEF AtWork, GeneratorSteps, ReviewerSteps, SolverSteps
  <2>6. \A k \in DOMAIN mem'.outcomes : Done(mem', run'.cohort, k)
    BY <1>7, <1>8, <1>10, <1>16
  <2> QED BY <1>8, <1>10, <2>5, <2>6 DEF ItemsInv
<1>17. CASE ~ solving
  <2>1. mem'.outcomes[n] = o
    BY <1>1, <1>6, <1>7, <1>10, <1>17 DEF MemType
  <2>2. \A stage \in Stages : n \in Orders(mem'[stage]) <=> Valid(mem', n, stage) # {}
    BY <1>1, <1>11, <1>12, <1>14, <1>15, MemFields
  <2>3. Done(mem', run.cohort, n)
    BY <1>6, <1>12, <1>13, <1>15, <2>1, <2>2 DEF Done
  <2>4. run'.pc = "write"
    BY <1>8, <1>17
  <2> QED BY <1>8, <1>10, <2>3, <2>4, ItemEnds
<1> QED BY <1>16, <1>17

\* The Solver's answer is accepted: the end of the item.
LEMMA SolvedItems ==
  ASSUME ItemsInv, src' = src, run.pc \in SolverSteps,
         NEW body \in SolverBodies, NEW crash \in BOOLEAN, Solved(body, crash)
  PROVE  ItemsInv'
<1> DEFINE n == run.order
           r == sidecar("solver", TRUE, "none")
           c == process_solver_stage(run.candidate, [body |-> body, of |-> 0],
                  canonical_input(run.candidate.generator_item), crash)
           x == [order |-> n, body |-> body]
           o == outcome(c.state, "none", c.consensus # None /\ c.consensus.auto_accept)
           new == Len(mem.provenance) + 1
<1>1. /\ SourceType /\ RunType /\ MemType /\ UpToNow /\ ListedOnce /\ AtSolver(n) /\ InItem
      /\ \A k \in DOMAIN mem.outcomes : Done(mem, run.cohort, k)
      /\ n \in Nat /\ run.candidate \in Candidate /\ run.candidate.reviewer_item # None
  BY ItemSteps DEF ItemsInv, AtWork, RunType, AtSolver, Working
<1>2. /\ mem' = [mem EXCEPT !.solver = Append(@, x), !.provenance = Append(@, r),
                            !.outcomes = Append(@, o)]
      /\ run' = [run EXCEPT !.pc = "write", !.candidate = c]
  BY DEF Solved
<1>3. r \in Sidecar /\ r.order = n /\ r.stage = "solver" /\ r.contract_valid
  BY <1>1 DEF sidecar, Sidecar, Stages, RETRY_STAGES
<1>4. /\ c \in Candidate
      /\ c.state = "ACCEPTED" =>
           /\ body.answer = run.candidate.generator_item.body.key
           /\ run.candidate.reviewer_item.body.answer = run.candidate.generator_item.body.key
  <2>1. body \in SolverBody
    BY LiveAssumption
  <2> HIDE DEF c
  <2> QED BY <1>1, <2>1, LiveSolve DEF c
<1>5. x \in Listed("solver") /\ x.order = n /\ x.body = body
  BY <1>1 DEF Listed
<1>6. o \in Recorded /\ o.order = n /\ o.state = c.state
  <2>1. (c.consensus # None /\ c.consensus.auto_accept) \in BOOLEAN
    <3> HIDE DEF c
    <3>1. c.consensus # None => c.consensus.auto_accept \in BOOLEAN
      BY <1>4 DEF Candidate, Consensus
    <3> QED BY <3>1
  <2> HIDE DEF c
  <2>2. c.state \in States
    BY <1>4 DEF Candidate
  <2> QED BY <1>1, <2>1, <2>2 DEF outcome, Recorded
<1> HIDE DEF r, c, x, o
<1>7. /\ mem' = [a \in Lists \cup {"tests"} |-> mem'[a]]
      /\ mem'.provenance = Append(mem.provenance, r)
      /\ mem'.outcomes = Append(mem.outcomes, o)
      /\ mem'.solver = Append(mem.solver, x)
      /\ mem'.generator = mem.generator /\ mem'.reviewer = mem.reviewer
  BY <1>1, <1>2, MemFields DEF MemType
<1>8. /\ run'.pc = "write" /\ run'.order = n /\ run'.cohort = run.cohort
      /\ RunType' /\ SourceType'
  BY <1>1, <1>2, <1>4 DEF RunType, Steps, SourceType
<1>9. n \notin Orders(mem.solver) /\ Of(mem, n, "solver") = {}
  BY <1>1 DEF AtSolver, Untouched
<1>10. /\ MemType' /\ UpToNow' /\ ListedOnce' /\ n = Len(mem.outcomes) + 1
       /\ \A k \in DOMAIN mem'.outcomes : k \in DOMAIN mem.outcomes \/ k = n
       /\ \A k \in DOMAIN mem.outcomes : Done(mem', run.cohort, k)
  <2>1. \A stage \in Stages : MayList(stage)
    <3>1. MayList("generator") /\ MayList("reviewer") /\ MayList("solver")
      BY <1>5, <1>7, <1>9 DEF MayList
    <3> QED BY <1>1, <3>1, MemFields
  <2>2. run'.pc \in Steps \ LastSteps
    BY <1>8 DEF Steps, LastSteps
  <2> QED BY <1>1, <1>3, <1>6, <1>7, <1>8, <2>1, <2>2, ItemStep
<1>11. /\ Of(mem', n, "solver") = {new} /\ Valid(mem', n, "solver") = {new}
       /\ \A s \in {"generator", "reviewer"} :
            Of(mem', n, s) = Of(mem, n, s) /\ Valid(mem', n, s) = Valid(mem, n, s)
       /\ \A k \in DOMAIN mem.provenance : mem'.provenance[k] = mem.provenance[k]
  <2>1. mem.provenance \in Seq(Sidecar)
    BY <1>1 DEF MemType
  <2>2. /\ Of(mem', n, "solver") = Of(mem, n, "solver") \cup {new}
        /\ Valid(mem', n, "solver") = Valid(mem, n, "solver") \cup {new}
    <3>1. /\ Of(mem', r.order, r.stage) = Of(mem, r.order, r.stage) \cup {new}
          /\ Valid(mem', r.order, r.stage) = Valid(mem, r.order, r.stage) \cup {new}
      BY <2>1, <1>3, <1>7, SidecarOf
    <3> QED BY <1>3, <3>1
  <2>3. ASSUME NEW s \in {"generator", "reviewer"}
        PROVE  Of(mem', n, s) = Of(mem, n, s) /\ Valid(mem', n, s) = Valid(mem, n, s)
    BY <2>1, <1>3, <1>7, SidecarAdded
  <2>4. Valid(mem, n, "solver") = {}
    BY <1>9 DEF Valid
  <2>5. \A k \in DOMAIN mem.provenance : mem'.provenance[k] = mem.provenance[k]
    BY <2>1, <1>3, <1>7, SidecarAdded
  <2> QED BY <1>9, <2>2, <2>3, <2>4, <2>5
<1>12. /\ Cardinality(Of(mem', n, "reviewer")) = 1 /\ Cardinality(Of(mem', n, "solver")) = 1
       /\ Cardinality(Valid(mem', n, "reviewer")) = 1
       /\ Valid(mem', n, "generator") # {} /\ Valid(mem', n, "solver") # {}
       /\ Valid(mem', n, "reviewer") # {}
  <2>1. Cardinality(Of(mem', n, "solver")) = 1 /\ Valid(mem', n, "solver") # {}
    <3> HIDE DEF new
    <3> QED BY <1>11, FS_Singleton
  <2>2. /\ Cardinality(Of(mem', n, "reviewer")) = 1 /\ Cardinality(Valid(mem', n, "reviewer")) = 1
        /\ Valid(mem', n, "generator") # {}
    BY <1>1, <1>11 DEF AtSolver
  <2>3. ASSUME Valid(mem', n, "reviewer") = {}
        PROVE  FALSE
    <3>1. Cardinality(Valid(mem', n, "reviewer")) = 0
      BY <2>3, FS_EmptySet
    <3> QED BY <2>2, <3>1
  <2> QED BY <2>1, <2>2, <2>3
<1>13. Tried(mem', run.cohort, n)
  <2>1. Tried(mem, run.cohort, n) /\ Of(mem, n, "generator") \subseteq DOMAIN mem.provenance
    BY <1>1 DEF AtSolver, Of
  <2> QED BY <1>11, <2>1 DEF Tried
<1>14. n \in Orders(mem'.solver) /\ ByOrder(mem'.solver, n) = body
  <2>1. /\ mem.solver \in Seq(Listed("solver")) /\ x.order \notin Orders(mem.solver)
        /\ \A j, k \in DOMAIN mem.solver :
             mem.solver[j].order = mem.solver[k].order => j = k
    BY <1>1, <1>5, <1>9, MemFields DEF MemType, ListedOnce
  <2>2. /\ Orders(Append(mem.solver, x)) = Orders(mem.solver) \cup {x.order}
        /\ ByOrder(Append(mem.solver, x), x.order) = x.body
    BY <1>5, <2>1, ItemAdded
  <2> QED BY <1>5, <1>7, <2>2
<1>15. /\ n \in Orders(mem'.generator) /\ n \in Orders(mem'.reviewer)
       /\ run.candidate.generator_item.body = ByOrder(mem'.generator, n)
       /\ run.candidate.reviewer_item.body = ByOrder(mem'.reviewer, n)
       /\ ByOrder(mem'.reviewer, n).verdict = "PASS"
  BY <1>1, <1>7 DEF AtSolver, Working
<1>16. mem'.outcomes[n] = o
  BY <1>1, <1>6, <1>7, <1>10 DEF MemType
<1>17. \A stage \in Stages : n \in Orders(mem'[stage]) <=> Valid(mem', n, stage) # {}
  BY <1>1, <1>12, <1>14, <1>15, MemFields
<1>18. mem'.outcomes[n].state = "ACCEPTED" =>
         /\ ByOrder(mem'.reviewer, n).answer = ByOrder(mem'.generator, n).key
         /\ ByOrder(mem'.solver, n).answer = ByOrder(mem'.generator, n).key
  BY <1>4, <1>6, <1>14, <1>15, <1>16
<1>19. Done(mem', run.cohort, n)
  BY <1>6, <1>12, <1>13, <1>14, <1>15, <1>16, <1>17, <1>18 DEF Done
<1> QED BY <1>8, <1>10, <1>19, ItemEnds

-----------------------------------------------------------------------------
(* Between the items, and after them. *)

\* Nothing is known of an item that has not begun.
LEMMA NextItem ==
  ASSUME MemType, NEW n,
         \A k \in DOMAIN mem.provenance : mem.provenance[k].order # n,
         \A stage \in Stages : n \notin Orders(mem[stage])
  PROVE  \A stage \in Stages : Of(mem, n, stage) = {} /\ Untouched(mem, n, stage)
BY DEF Of, Untouched

\* The evidence is written, and the run goes on to the next item.
LEMMA WriteListItems ==
  ASSUME ItemsInv, WriteList
  PROVE  ItemsInv'
<1>1. /\ run.pc = "write" /\ mem' = mem /\ src' = src
      /\ run' = IF run.written < 4 THEN [run EXCEPT !.written = @ + 1]
                ELSE IF run.order < run.cohort
                THEN [run EXCEPT !.written = 0, !.order = @ + 1, !.attempt = 1,
                                 !.pc = "generator", !.candidate = None]
                ELSE [run EXCEPT !.written = 0, !.pc = "tests"]
  BY DEF WriteList, Harness
<1>2. /\ SourceType /\ RunType /\ MemType /\ UpToNow /\ ListedOnce
      /\ \A k \in DOMAIN mem.outcomes : Done(mem, run.cohort, k)
      /\ run.order \in Nat /\ run.cohort \in Nat /\ run.written \in 0..4
  BY DEF ItemsInv, RunType
<1>3. SourceType' /\ MemType' /\ ListedOnce'
  BY <1>1, <1>2 DEF SourceType, MemType, ListedOnce, Listed
<1>4. /\ run.order \in 1..run.cohort /\ Len(mem.outcomes) = run.order
      /\ \A k \in DOMAIN mem.provenance : mem.provenance[k].order \in 1..run.order
      /\ \A stage \in Stages : Orders(mem[stage]) \subseteq 1..run.order
  BY <1>1, <1>2 DEF UpToNow, InItem
<1>5. CASE run.written < 4
  <2>1. /\ run'.pc = "write" /\ run'.order = run.order /\ run'.cohort = run.cohort /\ RunType'
    BY <1>1, <1>2, <1>5 DEF RunType
  <2>2. UpToNow'
    BY <1>1, <1>4, <2>1 DEF UpToNow, InItem, LastSteps
  <2>3. AtWork'
    BY <2>1 DEF AtWork, GeneratorSteps, ReviewerSteps, SolverSteps
  <2> QED BY <1>1, <1>2, <1>3, <2>1, <2>2, <2>3 DEF ItemsInv
<1>6. CASE run.written >= 4 /\ run.order < run.cohort
  <2>1. /\ run'.pc = "generator" /\ run'.order = run.order + 1 /\ run'.cohort = run.cohort
        /\ run'.attempt = 1 /\ RunType'
    <3>1. run' = [run EXCEPT !.written = 0, !.order = @ + 1, !.attempt = 1,
                             !.pc = "generator", !.candidate = None]
      BY <1>1, <1>2, <1>6
    <3>2. run.order + 1 \in Nat /\ "generator" \in Steps
      BY <1>2 DEF Steps
    <3>3. 0 \in 0..4 /\ 1 \in Nat
      OBVIOUS
    <3>4. /\ run'.pc = "generator" /\ run'.order = run.order + 1 /\ run'.cohort = run.cohort
          /\ run'.attempt = 1
      BY <1>2, <3>1 DEF RunType
    <3>5. RunType'
      BY <1>2, <3>1, <3>2, <3>3 DEF RunType
    <3> QED BY <3>4, <3>5
  <2>2. UpToNow'
    <3>1. run'.order - 1 = Len(mem'.outcomes) /\ run'.order \in 1..run'.cohort
      BY <1>1, <1>2, <1>4, <1>6, <2>1
    <3>2. InItem' = TRUE
      BY <2>1 DEF InItem, Steps
    <3>3. 1..run.order \subseteq 1..run'.order
      BY <1>2, <2>1
    <3>4. run'.pc \notin LastSteps
      BY <2>1 DEF LastSteps
    <3> QED BY <1>1, <1>4, <3>1, <3>2, <3>3, <3>4 DEF UpToNow
  <2>3. AtGenerator(run.order)'
    <3>1. run.order + 1 \notin 1..run.order
      BY <1>2
    <3>2. \A stage \in Stages : /\ Of(mem, run.order + 1, stage) = {}
                                /\ Untouched(mem, run.order + 1, stage)
      BY <1>2, <1>4, <3>1, NextItem
    <3>3. {"generator", "reviewer", "solver"} = Stages
      BY <1>2, MemFields
    <3>4. /\ Of(mem, run.order + 1, "generator") = {}
          /\ run.order + 1 \notin Orders(mem.generator)
          /\ Untouched(mem, run.order + 1, "reviewer") /\ Untouched(mem, run.order + 1, "solver")
      BY <3>2, <3>3 DEF Untouched
    <3>5. Cardinality(Of(mem, run.order + 1, "generator")) = 1 - 1
      BY <3>4, FS_EmptySet
    <3> QED BY <1>1, <2>1, <3>4, <3>5, TriesAllowed DEF AtGenerator
  <2>4. AtWork'
    BY <2>1, <2>3 DEF AtWork, GeneratorSteps, ReviewerSteps, SolverSteps
  <2> QED BY <1>1, <1>2, <1>3, <2>1, <2>2, <2>4 DEF ItemsInv
<1>7. CASE run.written >= 4 /\ ~ (run.order < run.cohort)
  <2>1. /\ run'.pc = "tests" /\ run'.order = run.order /\ run'.cohort = run.cohort /\ RunType'
    <3>1. run' = [run EXCEPT !.written = 0, !.pc = "tests"]
      BY <1>1, <1>2, <1>7
    <3>2. "tests" \in Steps
      BY DEF Steps
    <3>3. 0 \in 0..4
      OBVIOUS
    <3>4. run'.pc = "tests" /\ run'.order = run.order /\ run'.cohort = run.cohort
      BY <1>2, <3>1 DEF RunType
    <3>5. RunType'
      BY <1>2, <3>1, <3>2, <3>3 DEF RunType
    <3> QED BY <3>4, <3>5
  <2>2. run.order = run.cohort
    BY <1>2, <1>4, <1>7
  <2>3. UpToNow'
    BY <1>1, <1>4, <2>1, <2>2 DEF UpToNow, InItem, LastSteps
  <2>4. AtWork'
    BY <2>1 DEF AtWork, GeneratorSteps, ReviewerSteps, SolverSteps
  <2> QED BY <1>1, <1>2, <1>3, <2>1, <2>3, <2>4 DEF ItemsInv
<1> QED BY <1>2, <1>5, <1>6, <1>7

\* The tests of the run.
LEMMA RunTestsItems ==
  ASSUME ItemsInv, RunTests
  PROVE  ItemsInv'
<1>1. PICK passed \in BOOLEAN : mem' = [mem EXCEPT !.tests = passed]
  BY DEF RunTests
<1>2. /\ run.pc = "tests" /\ src' = src /\ run' = [run EXCEPT !.pc = "metrics"]
  BY DEF RunTests, Harness, Set
<1>3. /\ SourceType /\ RunType /\ MemType /\ UpToNow /\ ListedOnce
      /\ \A k \in DOMAIN mem.outcomes : Done(mem, run.cohort, k)
  BY DEF ItemsInv
<1>4. /\ mem' = [a \in Lists \cup {"tests"} |-> mem'[a]]
      /\ mem'.provenance = mem.provenance /\ mem'.outcomes = mem.outcomes
      /\ \A stage \in Stages : mem'[stage] = mem[stage]
  <2>1. "tests" \notin Stages \cup {"provenance", "outcomes"}
    BY DEF Stages, RETRY_STAGES
  <2> QED BY <1>1, <1>3, <2>1, MemFields DEF MemType
<1>5. /\ run'.pc = "metrics" /\ run'.order = run.order /\ run'.cohort = run.cohort
      /\ RunType' /\ SourceType'
  BY <1>2, <1>3 DEF RunType, Steps, SourceType
<1>6. MemType' /\ ListedOnce'
  BY <1>3, <1>4 DEF MemType, ListedOnce, Listed
<1>7. UpToNow'
  BY <1>2, <1>3, <1>4, <1>5 DEF UpToNow, InItem, LastSteps
<1>8. AtWork'
  BY <1>5 DEF AtWork, GeneratorSteps, ReviewerSteps, SolverSteps
<1>9. ASSUME NEW n \in DOMAIN mem.outcomes
      PROVE  Done(mem', run.cohort, n)
  <2>1. \A stage : Of(mem', n, stage) = Of(mem, n, stage) /\ Valid(mem', n, stage) = Valid(mem, n, stage)
    BY <1>4 DEF Of, Valid
  <2>2. Tried(mem', run.cohort, n)
    BY <1>3, <1>4, <2>1 DEF Done, Tried
  <2>3. /\ mem'.generator = mem.generator /\ mem'.reviewer = mem.reviewer /\ mem'.solver = mem.solver
    BY <1>3, <1>4, MemFields
  <2> QED BY <1>3, <1>4, <2>1, <2>2, <2>3 DEF Done
<1> QED BY <1>4, <1>5, <1>6, <1>7, <1>8, <1>9 DEF ItemsInv

-----------------------------------------------------------------------------
(* Every step keeps what is known of the items. *)

\* The steps of a stage are three names.
LEMMA StageSteps ==
  ASSUME NEW stage \in Stages
  PROVE  /\ stage = "generator" => {stage, Calling[stage], Checking[stage]} = GeneratorSteps
         /\ stage = "reviewer" => {stage, Calling[stage], Checking[stage]} = ReviewerSteps
         /\ stage = "solver" => {stage, Calling[stage], Checking[stage]} = SolverSteps
         /\ stage \in {"generator", "reviewer", "solver"}
<1>1. stage \in {"generator", "reviewer", "solver"}
  BY DEF Stages, RETRY_STAGES
<1>2. /\ Calling["generator"] = "generator call" /\ Checking["generator"] = "generator check"
      /\ Calling["reviewer"] = "reviewer call" /\ Checking["reviewer"] = "reviewer check"
      /\ Calling["solver"] = "solver call" /\ Checking["solver"] = "solver check"
  BY DEF Calling, Checking
<1> QED BY <1>1, <1>2 DEF GeneratorSteps, ReviewerSteps, SolverSteps

\* A stage failed.
LEMMA FailedItems ==
  ASSUME ItemsInv, src' = src, NEW stage \in Stages,
         run.pc \in {Calling[stage], Checking[stage]},
         NEW category \in LiveErrors, Failed(stage, category)
  PROVE  ItemsInv'
<1>1. CASE stage = "generator"
  BY <1>1, StageSteps, GeneratorFailedItems DEF Failed
<1>2. CASE stage # "generator"
  BY <1>2, StageSteps, ItemFailedLater DEF Failed
<1> QED BY <1>1, <1>2

\* A call begins or ends.
LEMMA MoveItems ==
  ASSUME ItemsInv, src' = src, mem' = mem, NEW stage \in Stages,
         run.pc \in {stage, Calling[stage], Checking[stage]},
         NEW step \in {stage, Calling[stage], Checking[stage]}, Set(step)
  PROVE  ItemsInv'
<1>1. \E S \in {GeneratorSteps, ReviewerSteps, SolverSteps} : run.pc \in S /\ step \in S
  BY StageSteps
<1>2. step \in Steps
  BY <1>1, ItemSteps
<1> QED BY <1>1, <1>2, PcMoves DEF Set

\* A failed check of the freeze ends the run.
LEMMA AbortItems ==
  ASSUME ItemsInv, src' = src, Abort
  PROVE  ItemsInv'
<1>1. "ended" \in Steps
  BY DEF Steps
<1> QED BY <1>1, PcMoves DEF Abort, Set

\* Every step keeps what is known of the items.
LEMMA ItemsStep ==
  ASSUME ItemsInv, [Next]_vars
  PROVE  ItemsInv'
<1>1. CASE Drift
  BY <1>1, ItemsKept DEF Drift, ItemsInv, SourceType
<1>2. CASE Start
  BY <1>2, StartItems
<1>3. CASE Die
  BY <1>3, PcMoves DEF Die, Set, Harness, Steps
<1>4. ASSUME NEW stage \in Stages, BeginCall(stage)
      PROVE  ItemsInv'
  BY <1>4, MoveItems, AbortItems DEF BeginCall, Harness
<1>5. ASSUME NEW stage \in Stages, EndCall(stage)
      PROVE  ItemsInv'
  <2>1. src' = src /\ run.pc = Calling[stage]
    BY <1>5 DEF EndCall, Harness
  <2>2. CASE Abort
    BY <2>1, <2>2, AbortItems
  <2>3. CASE Set(Checking[stage]) /\ mem' = mem
    BY <2>1, <2>3, MoveItems
  <2>4. ASSUME NEW category \in Categories, Failed(stage, category)
        PROVE  ItemsInv'
    BY <2>1, <2>4, FailedItems, LiveAssumption
  <2> QED BY <1>5, <2>2, <2>3, <2>4 DEF EndCall
<1>6. ASSUME NEW stage \in Stages, CheckAnswer(stage)
      PROVE  ItemsInv'
  <2>1. src' = src /\ run.pc = Checking[stage]
    BY <1>6 DEF CheckAnswer, Harness
  <2>2. CASE Abort
    BY <2>1, <2>2, AbortItems
  <2>3. CASE Failed(stage, "schema")
    BY <2>1, <2>3, FailedItems DEF LiveErrors
  <2>4. ASSUME stage = "generator", NEW body \in GeneratorBodies, Generated(body)
        PROVE  ItemsInv'
    BY <2>1, <2>4, StageSteps, GeneratedItems
  <2>5. ASSUME stage = "reviewer", NEW body \in ReviewBodies, NEW status \in Statuses,
               NEW crash \in BOOLEAN, Reviewed(body, status, crash)
        PROVE  ItemsInv'
    BY <2>1, <2>5, StageSteps, ReviewedItems
  <2>6. ASSUME stage = "solver", NEW body \in SolverBodies, NEW crash \in BOOLEAN,
               Solved(body, crash)
        PROVE  ItemsInv'
    BY <2>1, <2>6, StageSteps, SolvedItems
  <2> QED BY <1>6, <2>2, <2>3, <2>4, <2>5, <2>6 DEF CheckAnswer, Passed
<1>7. CASE WriteList
  BY <1>7, WriteListItems
<1>8. CASE RunTests
  BY <1>8, RunTestsItems
<1>9. CASE WriteMetrics \/ WriteManifest
  <2>1. src' = src /\ run.pc \in LastSteps /\ mem' = mem
    BY <1>9 DEF WriteMetrics, WriteManifest, Harness, LastSteps, Abort
  <2>2. Abort \/ Set("manifest") \/ Set("ended")
    BY <1>9 DEF WriteMetrics, WriteManifest
  <2> QED BY <2>1, <2>2, AbortItems, PcMoves DEF Set, LastSteps, Steps
<1>10. CASE Report \/ Tamper \/ UNCHANGED vars
  <2>1. src' = src /\ run' = run /\ mem' = mem
    BY <1>10 DEF Report, OpenReport, ReadContract, ReadEvidence, Recheck, LastCheck, FreezeCheck,
       Verify, PublishReport, Others, Tamper, vars
  <2> QED BY <2>1, ItemsKept DEF ItemsInv, SourceType
<1> QED
  BY <1>1, <1>2, <1>3, <1>4, <1>5, <1>6, <1>7, <1>8, <1>9, <1>10 DEF Next, HarnessStep

\* What is known of the items, always.
LEMMA ItemsKnown == Spec => []ItemsInv
<1>1. Init => ItemsInv
  BY InitItems
<1>2. ItemsInv /\ [Next]_vars => ItemsInv'
  BY ItemsStep
<1> QED BY <1>1, <1>2, PTL DEF Spec

-----------------------------------------------------------------------------
(* What the evidence says. *)

\* An item has one outcome, and its sidecars are its history: the Generator is
\* tried again after schema failures only, within the budget and never in a
\* cohort of one; nothing is reviewed or solved that the stage before refused;
\* the formal lists hold the items of the valid sidecars.
THEOREM EvidenceIsAccounted == Spec => []EvidenceAccounted
<1>1. ItemsInv => EvidenceAccounted
  <2> SUFFICES ASSUME ItemsInv
               PROVE  EvidenceAccounted
    OBVIOUS
  <2>1. run.pc # "ended" => Len(mem.outcomes) = run.order - (IF InItem THEN 1 ELSE 0)
    BY DEF ItemsInv, UpToNow
  <2>2. \A n \in DOMAIN mem.outcomes : Done(mem, run.cohort, n)
    BY DEF ItemsInv
  <2> QED BY <2>1, <2>2 DEF EvidenceAccounted, Done, Tried
<1> QED BY <1>1, ItemsKnown, PTL

\* An item the harness reports as accepted was generated, reviewed with PASS and
\* solved, and all three name the same answer.
THEOREM AcceptedHasEvidence == Spec => []AcceptedIsEvidenced
<1>1. ItemsInv => AcceptedIsEvidenced
  <2> SUFFICES ASSUME ItemsInv, NEW n \in DOMAIN mem.outcomes, mem.outcomes[n].state = "ACCEPTED"
               PROVE  /\ \A stage \in Stages : n \in Orders(mem[stage])
                      /\ ByOrder(mem.reviewer, n).verdict = "PASS"
                      /\ ByOrder(mem.reviewer, n).answer = ByOrder(mem.generator, n).key
                      /\ ByOrder(mem.solver, n).answer = ByOrder(mem.generator, n).key
    BY DEF AcceptedIsEvidenced
  <2>1. Done(mem, run.cohort, n)
    BY DEF ItemsInv
  <2> QED BY <2>1 DEF Done, Stages, RETRY_STAGES
<1> QED BY <1>1, ItemsKnown, PTL

-----------------------------------------------------------------------------
(* The output directory. *)

\* Five lists, and the order in which they are written.
LEMMA AllLists ==
  /\ Lists = {"generator", "reviewer", "solver", "provenance", "outcomes"}
  /\ Lists \cup {"tests"} \subseteq Evidence /\ "tests" \notin Lists
  /\ \A a \in Evidence \cup {"drift"} : a # "manifest" /\ a # "verdict"
  /\ \A a \in Lists \cup {"tests", "verdict", "manifest", "drift"} : a # "freeze"
  /\ \A k \in 1..5 : WriteOrder[k] \in Lists
  /\ \A a \in Lists : \E k \in 1..5 : a = WriteOrder[k]
  /\ \A j, k \in 1..5 : WriteOrder[j] = WriteOrder[k] => j = k
<1>1. /\ WriteOrder[1] = "generator" /\ WriteOrder[2] = "reviewer" /\ WriteOrder[3] = "solver"
      /\ WriteOrder[4] = "provenance" /\ WriteOrder[5] = "outcomes"
  BY DEF WriteOrder
<1>2. 1..5 = {1, 2, 3, 4, 5}
  OBVIOUS
<1> QED BY <1>1, <1>2 DEF Lists, Evidence

\* While a run is under way, the manifest and a report that may yet be
\* published are of an earlier one.
LEMMA UnderWay ==
  ASSUME DiskInv, run.pc # "ended", run'.id = run.id,
         disk'.manifest = disk.manifest, reporter' = reporter, WrittenSoFar'
  PROVE  DiskInv'
<1>1. ~ ThisRunPublished
  BY DEF DiskInv, ManifestIsPast, ThisRunPublished
<1>2. ~ ThisRunPublished' /\ Published'
  BY <1>1 DEF ThisRunPublished, Published
<1>3. ManifestIsPast'
  BY <1>1 DEF DiskInv, ManifestIsPast, ThisRunPublished
<1>4. reporter.pc # "idle" => /\ reporter.freeze.run \in 1..run.id
                              /\ reporter.freeze.run # run.id
  BY <1>1 DEF DiskInv, ReporterReads
<1>5. ReporterReads'
  BY <1>4 DEF ReporterReads
<1> QED BY <1>2, <1>3, <1>5 DEF DiskInv, ReporterShape

\* Nothing that the directory half speaks of changes.
LEMMA DiskKept ==
  ASSUME DiskInv, run' = run, mem' = mem, disk' = disk, reporter' = reporter
  PROVE  DiskInv'
<1>1. WrittenSoFar' /\ ManifestIsPast'
  BY DEF DiskInv, WrittenSoFar, ManifestIsPast, OnDisk, Written, InItem
<1>2. Published'
  BY DEF DiskInv, Published, ThisRunPublished, Written
<1>3. ReporterReads'
  BY DEF DiskInv, ReporterReads, ThisRunPublished, SeenTruly, SeenWhole, Reads, Written
<1> QED BY <1>1, <1>2, <1>3 DEF DiskInv, ReporterShape

\* The items: nothing is written.
LEMMA ItemDisk ==
  ASSUME DiskInv, InItem, disk' = disk, reporter' = reporter,
         run'.id = run.id, run'.frozen = run.frozen, run'.written = run.written,
         run'.pc \in Steps \ LastSteps
  PROVE  DiskInv'
<1>1. run.pc # "ended" /\ run.id # 0 /\ run.written = 0
  BY DEF InItem, DiskInv, WrittenSoFar
<1>2. WrittenSoFar'
  BY <1>1 DEF DiskInv, WrittenSoFar, LastSteps
<1> QED BY <1>1, <1>2, UnderWay

\* The end of a run.
LEMMA EndDisk ==
  ASSUME DiskInv, run.pc # "ended", reporter' = reporter,
         run'.id = run.id, run'.frozen = run.frozen, run'.pc = "ended",
         disk' = disk \/ disk' = [disk EXCEPT !.drift = disk'.drift]
  PROVE  DiskInv'
<1>1. /\ disk' = [a \in Evidence \cup {"manifest", "verdict", "drift"} |-> disk'[a]]
      /\ disk'.freeze = disk.freeze /\ disk'.manifest = disk.manifest
  <2>1. disk = [a \in Evidence \cup {"manifest", "verdict", "drift"} |-> disk[a]]
    BY DEF DiskInv, WrittenSoFar
  <2>2. CASE disk' = disk
    BY <2>1, <2>2
  <2>3. CASE disk' = [disk EXCEPT !.drift = disk'.drift]
    <3>1. "freeze" \in Evidence /\ "freeze" # "drift" /\ "manifest" # "drift"
      BY DEF Evidence
    <3> QED BY <2>1, <2>3, <3>1
  <2> QED BY <2>2, <2>3
<1>2. WrittenSoFar'
  BY <1>1 DEF DiskInv, WrittenSoFar, LastSteps, InItem
<1> QED BY <1>1, <1>2, UnderWay

\* The initial state.
LEMMA InitDisk ==
  ASSUME Init
  PROVE  DiskInv
BY DEF Init, DiskInv, WrittenSoFar, ManifestIsPast, Published, ThisRunPublished, ReporterReads,
   ReporterShape, LastSteps, Evidence, InItem

\* A run begins: the freeze is replaced, the older evidence stays.
LEMMA StartDisk ==
  ASSUME ItemsInv, DiskInv, Start
  PROVE  DiskInv'
<1>1. PICK n \in Cohorts :
         run' = [pc |-> "generator", id |-> run.id + 1, items |-> run.items + n,
                 frozen |-> src.version, cohort |-> n, order |-> 1, attempt |-> 1,
                 written |-> 0, candidate |-> None]
  BY DEF Start
<1>2. /\ run.id \in Nat /\ reporter' = reporter
      /\ disk' = [disk EXCEPT !.freeze = [run |-> run.id + 1, value |-> src.version]]
  BY DEF ItemsInv, RunType, Start, Harness, create_run_freeze
<1>3. /\ disk' = [a \in Evidence \cup {"manifest", "verdict", "drift"} |-> disk'[a]]
      /\ disk'.freeze = [run |-> run.id + 1, value |-> src.version]
      /\ disk'.manifest = disk.manifest
  BY <1>2, AllLists DEF DiskInv, WrittenSoFar, Evidence
<1>4. WrittenSoFar'
  BY <1>1, <1>2, <1>3 DEF WrittenSoFar, LastSteps
<1>5. disk.manifest # None => disk.manifest.run \in 1..run.id
  BY DEF DiskInv, ManifestIsPast
<1>6. ManifestIsPast' /\ ~ ThisRunPublished'
  BY <1>1, <1>2, <1>3, <1>5 DEF ManifestIsPast, ThisRunPublished
<1>7. Published'
  BY <1>6 DEF Published
<1>8. reporter.pc # "idle" => reporter.freeze.run \in 1..run.id
  BY DEF DiskInv, ReporterReads
<1>9. ReporterReads'
  <2>1. run'.id = run.id + 1 /\ reporter' = reporter
    BY <1>1, <1>2
  <2>2. reporter.pc # "idle" => /\ reporter.freeze.run \in 1..(run.id + 1)
                                /\ reporter.freeze.run # run.id + 1
    BY <1>2, <1>8
  <2> QED BY <2>1, <2>2 DEF ReporterReads
<1> QED BY <1>2, <1>4, <1>6, <1>7, <1>9 DEF DiskInv, ReporterShape

\* After the last item every item has its outcome.
LEMMA LastItem ==
  ASSUME ItemsInv, run.pc \in LastSteps
  PROVE  Len(mem.outcomes) = run.cohort /\ Orders(mem.solver) \subseteq 1..run.cohort
<1>1. RunType /\ MemType /\ UpToNow
  BY DEF ItemsInv
<1>2. run.pc # "ended" /\ ~ InItem /\ run.order \in Nat
  BY <1>1 DEF LastSteps, InItem, RunType
<1>3. run.order = run.cohort /\ Len(mem.outcomes) = run.order
  BY <1>1, <1>2 DEF UpToNow
<1>4. Orders(mem.solver) \subseteq 1..run.order
  BY <1>1, <1>2, MemFields DEF UpToNow
<1> QED BY <1>3, <1>4

\* One list more of the run's is on disk.
LEMMA WriteListDisk ==
  ASSUME ItemsInv, DiskInv, WriteList
  PROVE  DiskInv'
<1> DEFINE a == WriteOrder[run.written + 1]
<1>1. /\ run.pc = "write" /\ mem' = mem /\ reporter' = reporter
      /\ disk' = [disk EXCEPT ![a] = Written(a)]
      /\ run' = IF run.written < 4 THEN [run EXCEPT !.written = @ + 1]
                ELSE IF run.order < run.cohort
                THEN [run EXCEPT !.written = 0, !.order = @ + 1, !.attempt = 1,
                                 !.pc = "generator", !.candidate = None]
                ELSE [run EXCEPT !.written = 0, !.pc = "tests"]
  BY DEF WriteList, Harness
<1>2. RunType /\ run.written \in 0..4 /\ run.written + 1 \in 1..5 /\ a \in Lists /\ run.id # 0
  <2>1. RunType /\ run.written \in 0..4
    BY DEF ItemsInv, RunType
  <2>2. run.written + 1 \in 1..5
    BY <2>1
  <2> QED BY <1>1, <2>1, <2>2, AllLists DEF DiskInv, WrittenSoFar
<1>3. /\ run'.id = run.id /\ run'.frozen = run.frozen
      /\ run'.pc \in {"write", "generator", "tests"}
      /\ run'.pc = "write" => run.written < 4 /\ run'.written = run.written + 1
      /\ run'.pc = "generator" => run'.written = 0
      /\ run'.pc = "tests" => run.written = 4
  <2>1. CASE run.written < 4
    BY <1>1, <1>2, <2>1 DEF RunType
  <2>2. CASE ~ (run.written < 4)
    BY <1>1, <1>2, <2>2 DEF RunType
  <2> QED BY <2>1, <2>2
<1> HIDE DEF a
<1>4. /\ disk' = [b \in Evidence \cup {"manifest", "verdict", "drift"} |-> disk'[b]]
      /\ disk'[a] = Written(a) /\ \A b \in Evidence : b # a => disk'[b] = disk[b]
      /\ disk'.freeze = disk.freeze /\ disk'.manifest = disk.manifest
  BY <1>1, <1>2, AllLists DEF DiskInv, WrittenSoFar, Evidence
<1>5. \A k \in 1..(run.written + 1) : disk'[WriteOrder[k]] = Written(WriteOrder[k])
  <2>1. ASSUME NEW k \in 1..(run.written + 1)
        PROVE  disk'[WriteOrder[k]] = Written(WriteOrder[k])
    <3>1. k \in 1..5 /\ (k = run.written + 1 \/ k \in 1..run.written)
      BY <1>2
    <3>2. CASE k = run.written + 1
      BY <1>4, <3>2 DEF a
    <3>3. CASE k \in 1..run.written
      <4>1. WriteOrder[k] # a /\ WriteOrder[k] \in Evidence
        BY <1>2, <3>1, <3>3, AllLists DEF a
      <4>2. disk[WriteOrder[k]] = Written(WriteOrder[k])
        BY <1>1, <3>3 DEF DiskInv, WrittenSoFar, OnDisk
      <4> QED BY <1>4, <4>1, <4>2
    <3> QED BY <3>1, <3>2, <3>3
  <2> QED BY <2>1
<1>6. \A b \in Lists \cup {"tests"} : Written(b)' = Written(b)
  BY <1>1, <1>3 DEF Written
<1>7. (run.pc = "write" => \A k \in 1..run.written : OnDisk(WriteOrder[k]))'
  <2>1. CASE run'.pc = "write"
    <3>1. ASSUME NEW k \in 1..run'.written
          PROVE  disk'[WriteOrder[k]] = Written(WriteOrder[k])'
      <4>1. k \in 1..5 /\ k \in 1..(run.written + 1)
        BY <1>2, <1>3, <2>1, <3>1
      <4> QED BY <1>1, <1>3, <1>5, <4>1 DEF Written
    <3> QED BY <3>1 DEF OnDisk
  <2> QED BY <2>1
<1>8. (run.pc \in LastSteps => \A b \in Lists : OnDisk(b))'
  <2>1. ASSUME run'.pc = "tests", NEW b \in Lists
        PROVE  disk'[b] = Written(b)'
    <3>1. PICK k \in 1..5 : b = WriteOrder[k]
      BY AllLists
    <3>2. run.written = 4
      BY <1>3, <2>1
    <3>3. k \in 1..(run.written + 1)
      BY <3>1, <3>2
    <3> QED BY <1>1, <1>3, <1>5, <3>1, <3>3 DEF Written
  <2>2. run'.pc \in LastSteps => run'.pc = "tests"
    BY <1>3 DEF LastSteps
  <2> QED BY <2>1, <2>2 DEF OnDisk
<1>9. WrittenSoFar'
  <2>1. run.id # 0 => disk.freeze = [run |-> run.id, value |-> run.frozen]
    BY DEF DiskInv, WrittenSoFar
  <2>2. InItem' => run'.written = 0
    BY <1>3 DEF InItem
  <2> QED BY <1>2, <1>3, <1>4, <1>7, <1>8, <2>1, <2>2 DEF WrittenSoFar
<1> QED BY <1>1, <1>3, <1>4, <1>9, UnderWay

\* The tests of the run are on disk.
LEMMA RunTestsDisk ==
  ASSUME ItemsInv, DiskInv, RunTests
  PROVE  DiskInv'
<1>1. PICK passed \in BOOLEAN :
        /\ mem' = [mem EXCEPT !.tests = passed]
        /\ disk' = [disk EXCEPT !.outcomes = Written("outcomes"),
                                !.tests = [run |-> run.id, value |-> passed]]
  BY DEF RunTests
<1>2. /\ run.pc = "tests" /\ reporter' = reporter /\ run' = [run EXCEPT !.pc = "metrics"]
  BY DEF RunTests, Harness, Set
<1>3. run'.pc = "metrics" /\ run'.id = run.id /\ run'.frozen = run.frozen
  BY <1>2 DEF ItemsInv, RunType
<1>4. /\ mem'["tests"] = passed /\ \A a \in Lists : mem'[a] = mem[a]
  BY <1>1, AllLists DEF ItemsInv, MemType
<1>5. \A a \in Lists : disk[a] = Written(a)
  BY <1>2 DEF DiskInv, WrittenSoFar, OnDisk, LastSteps
<1>6. /\ disk' = [a \in Evidence \cup {"manifest", "verdict", "drift"} |-> disk'[a]]
      /\ disk'.freeze = disk.freeze /\ disk'.manifest = disk.manifest
      /\ disk'["tests"] = [run |-> run.id, value |-> passed]
      /\ \A a \in Lists : disk'[a] = Written(a)
  <2>1. disk = [a \in Evidence \cup {"manifest", "verdict", "drift"} |-> disk[a]]
    BY DEF DiskInv, WrittenSoFar
  <2>2. /\ disk'.freeze = disk.freeze /\ disk'.manifest = disk.manifest
        /\ disk'["tests"] = [run |-> run.id, value |-> passed]
    BY <1>1, <2>1 DEF Evidence
  <2>3. ASSUME NEW a \in Lists
        PROVE  disk'[a] = Written(a)
    <3>1. a \in Evidence /\ a # "tests" /\ "outcomes" \in Evidence
      BY AllLists DEF Evidence
    <3>2. CASE a = "outcomes"
      BY <1>1, <2>1, <3>1, <3>2
    <3>3. CASE a # "outcomes"
      BY <1>1, <1>5, <2>1, <3>1, <3>3
    <3> QED BY <3>2, <3>3
  <2> QED BY <1>1, <2>1, <2>2, <2>3
<1>7. \A a \in Lists : OnDisk(a)'
  BY <1>3, <1>4, <1>6 DEF OnDisk, Written
<1>8. (disk.tests = Written("tests"))'
  BY <1>3, <1>4, <1>6 DEF Written
<1>9. WrittenSoFar'
  <2>1. run.id # 0 /\ disk.freeze = [run |-> run.id, value |-> run.frozen]
    BY <1>2 DEF DiskInv, WrittenSoFar
  <2>2. ~ InItem'
    BY <1>3 DEF InItem
  <2> QED BY <1>3, <1>6, <1>7, <1>8, <2>1, <2>2 DEF WrittenSoFar
<1> QED BY <1>2, <1>3, <1>6, <1>9, UnderWay

\* The verdict is written.
LEMMA WriteMetricsDisk ==
  ASSUME ItemsInv, DiskInv, WriteMetrics, Intact
  PROVE  DiskInv'
<1>1. /\ run.pc = "metrics" /\ mem' = mem /\ reporter' = reporter
      /\ run' = [run EXCEPT !.pc = "manifest"]
      /\ disk' = [disk EXCEPT !.verdict =
                    [run |-> run.id, value |-> final_decision(mem, run.cohort)]]
  BY DEF WriteMetrics, Harness, Set
<1>2. /\ run'.pc = "manifest" /\ run'.id = run.id /\ run'.frozen = run.frozen
      /\ run'.cohort = run.cohort
  BY <1>1 DEF ItemsInv, RunType
<1>3. /\ disk' = [a \in Evidence \cup {"manifest", "verdict", "drift"} |-> disk'[a]]
      /\ disk'.manifest = disk.manifest
      /\ \A a \in Evidence : disk'[a] = disk[a]
  BY <1>1, AllLists DEF DiskInv, WrittenSoFar
<1>4. /\ \A a \in Lists : disk[a] = Written(a)
      /\ disk.tests = Written("tests")
      /\ run.id # 0 /\ disk.freeze = [run |-> run.id, value |-> run.frozen]
  BY <1>1 DEF DiskInv, WrittenSoFar, OnDisk, LastSteps
<1>5. disk'.freeze = disk.freeze /\ disk'.tests = disk.tests
  BY <1>3 DEF Evidence
<1>6. (\A a \in Lists : OnDisk(a))' /\ (disk.tests = Written("tests"))'
  BY <1>1, <1>2, <1>3, <1>4, <1>5, AllLists DEF OnDisk, Written
<1>7. WrittenSoFar'
  <2>1. ~ InItem'
    BY <1>2 DEF InItem
  <2> QED BY <1>2, <1>3, <1>4, <1>5, <1>6, <2>1 DEF WrittenSoFar
<1> QED BY <1>1, <1>2, <1>3, <1>7, UnderWay

\* The run is published.
LEMMA WriteManifestDisk ==
  ASSUME ItemsInv, DiskInv, WriteManifest, Intact
  PROVE  DiskInv'
<1>1. /\ run.pc = "manifest" /\ mem' = mem /\ reporter' = reporter
      /\ run' = [run EXCEPT !.pc = "ended"]
      /\ disk' = [disk EXCEPT !.manifest =
                    [run |-> run.id, files |-> [a \in Evidence |-> disk[a]]]]
  BY DEF WriteManifest, Harness, Set
<1>2. /\ run'.pc = "ended" /\ run'.id = run.id /\ run'.frozen = run.frozen
      /\ run'.cohort = run.cohort /\ run.id \in Nat
  BY <1>1 DEF ItemsInv, RunType
<1>3. /\ disk' = [a \in Evidence \cup {"manifest", "verdict", "drift"} |-> disk'[a]]
      /\ disk'.manifest = [run |-> run.id, files |-> [a \in Evidence |-> disk[a]]]
      /\ \A a \in Evidence : disk'[a] = disk[a]
  BY <1>1, AllLists DEF DiskInv, WrittenSoFar
<1>4. /\ \A a \in Lists \cup {"tests"} : disk[a] = Written(a)
      /\ run.id # 0 /\ disk.freeze = [run |-> run.id, value |-> run.frozen]
  BY <1>1 DEF DiskInv, WrittenSoFar, OnDisk, LastSteps
<1>5. Len(mem.outcomes) = run.cohort /\ Orders(mem.solver) \subseteq 1..run.cohort
  BY <1>1, LastItem DEF LastSteps
<1>6. WrittenSoFar'
  <2>1. ~ InItem' /\ disk'.freeze = disk.freeze
    BY <1>2, <1>3 DEF InItem, Evidence
  <2> QED BY <1>2, <1>3, <1>4, <2>1 DEF WrittenSoFar, LastSteps
<1>7. ManifestIsPast' /\ Published'
  <2>1. ManifestIsPast'
    BY <1>2, <1>3, <1>4 DEF ManifestIsPast
  <2>2. ASSUME NEW a \in Lists \cup {"tests"}
        PROVE  /\ disk'.manifest.files[a] = Written(a)'
               /\ disk'[a] = Written(a)'
    <3>1. a \in Evidence /\ Written(a)' = Written(a)
      BY <1>1, <1>2, AllLists DEF Written
    <3> QED BY <1>3, <1>4, <3>1
  <2>3. (Len(mem.outcomes) = run.cohort /\ Orders(mem.solver) \subseteq 1..run.cohort)'
    BY <1>1, <1>2, <1>5
  <2> QED BY <2>1, <2>2, <2>3 DEF Published, Written
<1>8. ReporterReads'
  <2>1. ~ ThisRunPublished
    BY <1>1 DEF DiskInv, ManifestIsPast, ThisRunPublished
  <2>2. reporter.pc # "idle" => reporter.freeze.run \in 1..run.id /\ reporter.freeze.run # run.id
    BY <2>1 DEF DiskInv, ReporterReads
  <2> QED BY <1>1, <1>2, <2>2 DEF ReporterReads
<1> QED BY <1>1, <1>6, <1>7, <1>8 DEF DiskInv, ReporterShape

-----------------------------------------------------------------------------
(* The report-only mode. *)

\* A freeze that is on disk is the last run's.
LEMMA TrustedIsThisRun ==
  ASSUME DiskInv, NEW freeze, freeze # None, Trusted(freeze), run.id \in Nat
  PROVE  /\ freeze.run = run.id /\ run.id \in 1..run.id /\ ThisRunPublished
         /\ \A a \in Evidence : disk[a] = disk.manifest.files[a]
<1>1. disk.freeze = freeze /\ verify_artifact_manifest(freeze)
  BY DEF Trusted, verify
<1>2. run.id # 0
  BY <1>1 DEF DiskInv, WrittenSoFar
<1> QED BY <1>1, <1>2 DEF DiskInv, WrittenSoFar, verify_artifact_manifest, ThisRunPublished

\* What a report-only process reads of the run it trusts.
LEMMA ReadTruly ==
  ASSUME DiskInv, ThisRunPublished, NEW a \in Lists \cup {"tests"}
  PROVE  disk[a].value = mem[a] \/ disk[a] # Written(a)
BY DEF Written

\* A report-only process gives up.
LEMMA RefusedDisk ==
  ASSUME DiskInv, run' = run, mem' = mem, disk' = disk, Refuse
  PROVE  DiskInv'
<1>1. WrittenSoFar' /\ ManifestIsPast'
  BY DEF DiskInv, WrittenSoFar, ManifestIsPast, OnDisk, Written, InItem
<1>2. Published'
  BY DEF DiskInv, Published, ThisRunPublished, Written
<1> QED BY <1>1, <1>2 DEF Refuse, DiskInv, ReporterReads, ReporterShape

\* What it has read passes a check.
LEMMA VerifyDisk ==
  ASSUME ItemsInv, DiskInv, NEW from \in {"read", "measured", "decided"}, NEW to \in CheckedSteps,
         NEW passed, Verify(from, to, passed),
         from = "read" => passed = Trusted(reporter.freeze)
  PROVE  DiskInv'
<1>1. /\ run' = run /\ mem' = mem /\ disk' = disk /\ run.id \in Nat /\ reporter.pc = from
      /\ \A a : Written(a)' = Written(a)
  BY DEF Verify, Others, ItemsInv, RunType, Written
<1>2. CASE ~ passed
  BY <1>1, <1>2, RefusedDisk DEF Verify
<1>3. CASE passed
  <2>1. reporter' = [pc |-> to, freeze |-> reporter.freeze, retest |-> reporter.retest,
                     seen |-> reporter.seen]
    BY <1>3 DEF Verify, DiskInv, ReporterShape
  <2>2. reporter.pc # "idle" /\ reporter'.pc \in CheckedSteps /\ reporter'.freeze = reporter.freeze
    BY <1>1, <2>1
  <2>3. SeenWhole' = SeenWhole /\ Reads' = Reads /\ ThisRunPublished' = ThisRunPublished
    BY <1>1, <2>1 DEF SeenWhole, Reads, ThisRunPublished
  <2>4. ASSUME reporter.freeze.run = run.id
        PROVE  ThisRunPublished /\ SeenWhole /\ \A a \in Reads : reporter.seen[a] = mem[a]
    <3>1. CASE from # "read"
      BY <1>1, <2>2, <2>4, <3>1 DEF DiskInv, ReporterReads, CheckedSteps
    <3>2. CASE from = "read"
      <4>1. ThisRunPublished /\ SeenWhole /\ \A a \in Reads : SeenTruly(a)
        BY <1>1, <2>2, <2>4, <3>2 DEF DiskInv, ReporterReads
      <4>2. \A a \in Lists \cup {"tests"} : disk[a] = Written(a)
        <5>1. \A a \in Lists \cup {"tests"} : disk.manifest.files[a] = Written(a)
          BY <4>1 DEF DiskInv, Published
        <5>2. \A a \in Evidence : disk[a] = disk.manifest.files[a]
          BY <1>3, <3>2 DEF Trusted, verify_artifact_manifest
        <5> QED BY <5>1, <5>2, AllLists
      <4> QED BY <4>1, <4>2 DEF SeenTruly, Reads
    <3> QED BY <3>1, <3>2
  <2>5. reporter'.seen = reporter.seen /\ reporter'.pc \notin {"half read", "read", "idle"}
    BY <2>1 DEF CheckedSteps
  <2>6. ReporterReads'
    <3>1. reporter.freeze.run \in 1..run.id
      BY <2>2 DEF DiskInv, ReporterReads
    <3> QED BY <1>1, <2>2, <2>3, <2>4, <2>5, <3>1 DEF ReporterReads
  <2>7. WrittenSoFar' /\ ManifestIsPast'
    BY <1>1 DEF DiskInv, WrittenSoFar, ManifestIsPast, OnDisk, Written, InItem
  <2>8. Published'
    BY <1>1 DEF DiskInv, Published, ThisRunPublished, Written
  <2> QED BY <2>1, <2>6, <2>7, <2>8 DEF DiskInv, ReporterShape
<1> QED BY <1>2, <1>3

\* The report is written: over the verdict, and over nothing else.
LEMMA PublishDisk ==
  ASSUME ItemsInv, DiskInv, PublishReport
  PROVE  DiskInv'
<1>1. /\ disk' = [a \in Evidence \cup {"manifest", "verdict", "drift"} |-> disk'[a]]
      /\ \A a \in Evidence \cup {"manifest", "drift"} : disk'[a] = disk[a]
      /\ disk'.manifest = disk.manifest
  <2>1. disk = [a \in Evidence \cup {"manifest", "verdict", "drift"} |-> disk[a]]
    BY DEF DiskInv, WrittenSoFar
  <2>2. \A a \in Evidence \cup {"manifest", "drift"} : a # "verdict"
    BY AllLists
  <2> QED BY <2>1, <2>2 DEF PublishReport
<1>2. /\ run' = run /\ mem' = mem /\ disk'.freeze = disk.freeze /\ disk'.tests = disk.tests
      /\ \A a : Written(a)' = Written(a)
      /\ reporter' = [pc |-> "idle", freeze |-> None, retest |-> FALSE, seen |-> None]
  BY <1>1 DEF PublishReport, Others, Refuse, Written, Evidence
<1>3. \A a \in Lists \cup {"tests"} : disk'[a] = disk[a]
  BY <1>1, AllLists
<1>4. WrittenSoFar'
  <2>1. run.pc = "write" => \A k \in 1..run.written : OnDisk(WriteOrder[k])'
    <3>1. ASSUME run.pc = "write", NEW k \in 1..run.written
          PROVE  OnDisk(WriteOrder[k])'
      <4>1. OnDisk(WriteOrder[k])
        BY <3>1 DEF DiskInv, WrittenSoFar
      <4>2. WriteOrder[k] \in Lists
        <5>1. k \in 1..5
          BY <3>1 DEF ItemsInv, RunType
        <5> QED BY <5>1, AllLists
      <4> QED BY <1>2, <1>3, <4>1, <4>2 DEF OnDisk
    <3> QED BY <3>1
  <2>2. run.pc \in LastSteps => \A a \in Lists : OnDisk(a)'
    BY <1>2, <1>3 DEF DiskInv, WrittenSoFar, OnDisk
  <2>3. run.pc \in {"metrics", "manifest"} => disk'.tests = Written("tests")'
    BY <1>2 DEF DiskInv, WrittenSoFar
  <2> QED BY <1>1, <1>2, <2>1, <2>2, <2>3 DEF DiskInv, WrittenSoFar, InItem
<1>5. ManifestIsPast'
  BY <1>1, <1>2 DEF DiskInv, ManifestIsPast
<1>6. Published'
  BY <1>1, <1>2, <1>3 DEF DiskInv, Published, ThisRunPublished
<1> QED BY <1>2, <1>4, <1>5, <1>6 DEF DiskInv, ReporterReads, ReporterShape

\* A report-only process reads.
LEMMA ReadDisk ==
  ASSUME ItemsInv, DiskInv, OpenReport \/ ReadContract \/ ReadEvidence
  PROVE  DiskInv'
<1>1. /\ run' = run /\ mem' = mem /\ disk' = disk /\ run.id \in Nat
  BY DEF OpenReport, ReadContract, ReadEvidence, Others, ItemsInv, RunType
<1>2. WrittenSoFar' /\ ManifestIsPast' /\ Published'
  BY <1>1 DEF DiskInv, WrittenSoFar, ManifestIsPast, OnDisk, Written, InItem, Published,
     ThisRunPublished
<1>3. (ThisRunPublished => ThisRunPublished') /\ run'.id = run.id
  BY <1>1 DEF ThisRunPublished
<1>4. \A a : Written(a)' = Written(a)
  BY <1>1 DEF Written
<1>5. /\ reporter = [pc |-> reporter.pc, freeze |-> reporter.freeze, retest |-> reporter.retest,
                     seen |-> reporter.seen]
      /\ reporter.pc # "idle" =>
           /\ reporter.freeze.run \in 1..run.id
           /\ reporter.freeze.run = run.id => ThisRunPublished
  BY DEF DiskInv, ReporterReads, ReporterShape
<1>6. CASE OpenReport
  <2>1. ThisRunPublished /\ disk.freeze.run \in 1..run.id
    BY <1>1, <1>6, TrustedIsThisRun DEF OpenReport
  <2>2. reporter' = [pc |-> "verified", freeze |-> disk.freeze, retest |-> reporter.retest,
                     seen |-> reporter.seen]
    BY <1>5, <1>6 DEF OpenReport
  <2>3. ReporterReads' /\ ReporterShape'
    BY <1>3, <2>1, <2>2 DEF ReporterReads, ReporterShape, CheckedSteps
  <2> QED BY <1>2, <2>3 DEF DiskInv
<1>7. CASE ReadContract
  <2> DEFINE seen == [outcomes |-> disk.outcomes.value, tests |-> disk.tests.value]
  <2>1. /\ reporter.pc = "verified"
        /\ reporter' = [reporter EXCEPT !.pc = "half read", !.seen = seen] \/ Refuse
    BY <1>7 DEF ReadContract
  <2>2. seen["outcomes"] = disk["outcomes"].value /\ seen["tests"] = disk["tests"].value
    OBVIOUS
  <2> HIDE DEF seen
  <2>3. CASE reporter' = [reporter EXCEPT !.pc = "half read", !.seen = seen]
    <3>1. reporter' = [pc |-> "half read", freeze |-> reporter.freeze, retest |-> reporter.retest,
                       seen |-> seen]
      BY <1>5, <2>3
    <3>2. reporter.freeze.run = run.id => SeenTruly("outcomes")' /\ SeenTruly("tests")'
      <4>1. ASSUME reporter.freeze.run = run.id, NEW a \in {"outcomes", "tests"}
            PROVE  reporter'.seen[a] = mem'[a] \/ disk'[a] # Written(a)'
        <5>1. a \in Lists \cup {"tests"} /\ reporter'.seen[a] = disk[a].value
          BY <2>2, <3>1, AllLists
        <5>2. ThisRunPublished
          BY <1>5, <2>1, <4>1
        <5> QED BY <1>1, <1>4, <5>1, <5>2, ReadTruly
      <4> QED BY <4>1 DEF SeenTruly
    <3>3. ReporterReads'
      BY <1>3, <1>5, <2>1, <3>1, <3>2 DEF ReporterReads, CheckedSteps
    <3> QED BY <1>2, <3>1, <3>3 DEF DiskInv, ReporterShape
  <2> QED BY <1>1, <2>1, <2>3, RefusedDisk
<1>8. CASE ReadEvidence
  <2>0. PICK retest \in BOOLEAN :
          \E tests \in IF retest THEN BOOLEAN ELSE {reporter.seen.tests} :
            reporter' = [reporter EXCEPT !.pc = "read", !.retest = retest, !.seen =
              [a \in Lists \cup {"tests"} |->
                 CASE a = "tests" -> tests
                   [] a = "outcomes" -> reporter.seen.outcomes
                   [] OTHER -> disk[a].value]]
    BY <1>8 DEF ReadEvidence
  <2>1. PICK tests \in IF retest THEN BOOLEAN ELSE {reporter.seen.tests} :
          reporter' = [reporter EXCEPT !.pc = "read", !.retest = retest, !.seen =
            [a \in Lists \cup {"tests"} |->
               CASE a = "tests" -> tests
                 [] a = "outcomes" -> reporter.seen.outcomes
                 [] OTHER -> disk[a].value]]
    BY <2>0
  <2> DEFINE seen == [a \in Lists \cup {"tests"} |->
                        CASE a = "tests" -> tests
                          [] a = "outcomes" -> reporter.seen.outcomes
                          [] OTHER -> disk[a].value]
  <2>2. /\ seen = [a \in Lists \cup {"tests"} |-> seen[a]]
        /\ seen["tests"] = tests
        /\ seen["outcomes"] = reporter.seen["outcomes"]
        /\ \A a \in Lists \ {"outcomes"} : seen[a] = disk[a].value
    BY AllLists
  <2>3. reporter' = [pc |-> "read", freeze |-> reporter.freeze, retest |-> retest, seen |-> seen]
    BY <1>5, <2>1
  <2> HIDE DEF seen
  <2>4. reporter.pc = "half read"
    BY <1>8 DEF ReadEvidence
  <2>5. Reads' = {a \in Lists \cup {"tests"} : a = "tests" => ~ retest}
    BY <2>3 DEF Reads
  <2>6. ASSUME reporter.freeze.run = run.id, NEW a \in Reads'
        PROVE  SeenTruly(a)'
    <3>1. a \in Lists \/ (a = "tests" /\ ~ retest)
      BY <2>5
    <3>2. SeenTruly("outcomes") /\ SeenTruly("tests") /\ ThisRunPublished
      BY <1>5, <2>4, <2>6 DEF DiskInv, ReporterReads
    <3>3. reporter'.seen[a] = mem'[a] \/ disk'[a] # Written(a)'
      <4>1. CASE a = "outcomes"
        BY <1>1, <1>4, <2>2, <2>3, <3>2, <4>1 DEF SeenTruly
      <4>2. CASE a = "tests" /\ ~ retest
        BY <1>1, <1>4, <2>1, <2>2, <2>3, <3>2, <4>2 DEF SeenTruly
      <4>3. CASE a \in Lists \ {"outcomes"}
        BY <1>1, <1>4, <2>2, <2>3, <3>2, <4>3, ReadTruly
      <4> QED BY <3>1, <4>1, <4>2, <4>3
    <3> QED BY <3>3 DEF SeenTruly
  <2>7. ReporterReads'
    <3>1. reporter.freeze.run = run.id => \A a \in Reads' : SeenTruly(a)'
      BY <2>6
    <3>2. SeenWhole'
      BY <2>2, <2>3 DEF SeenWhole
    <3>3. /\ reporter'.freeze = reporter.freeze /\ reporter'.pc = "read" /\ "read" \notin CheckedSteps
          /\ reporter.pc # "idle"
      BY <2>3, <2>4 DEF CheckedSteps
    <3> QED BY <1>3, <1>5, <3>1, <3>2, <3>3 DEF ReporterReads
  <2> QED BY <1>2, <2>3, <2>7 DEF DiskInv, ReporterShape
<1> QED BY <1>6, <1>7, <1>8

\* The steps of a report-only process.
LEMMA ReportDisk ==
  ASSUME ItemsInv, DiskInv, Report
  PROVE  DiskInv'
<1>1. CASE Recheck
  BY <1>1, VerifyDisk DEF Recheck, CheckedSteps
<1>2. CASE LastCheck
  BY <1>2, VerifyDisk DEF LastCheck, CheckedSteps
<1>3. CASE FreezeCheck
  BY <1>3, VerifyDisk DEF FreezeCheck, CheckedSteps
<1>4. CASE PublishReport
  BY <1>4, PublishDisk
<1>5. CASE OpenReport \/ ReadContract \/ ReadEvidence
  BY <1>5, ReadDisk
<1> QED BY <1>1, <1>2, <1>3, <1>4, <1>5 DEF Report

\* Tampering empties a list of the run that is published.
LEMMA TamperDisk ==
  ASSUME ItemsInv, DiskInv, Tamper
  PROVE  DiskInv'
<1>1. PICK t \in Tamperable : disk' = [disk EXCEPT ![t].value = <<>>]
  BY DEF Tamper
<1>2. /\ run' = run /\ mem' = mem /\ reporter' = reporter /\ run.id \in Nat /\ t \in Lists
      /\ disk.freeze # None /\ disk.manifest # None /\ disk.manifest.run = disk.freeze.run
  BY LiveAssumption, AllLists DEF Tamper, ItemsInv, RunType
<1>3. ThisRunPublished /\ run.pc = "ended" /\ run.id # 0
  BY <1>2 DEF DiskInv, WrittenSoFar, ManifestIsPast, ThisRunPublished
<1>4. disk[t] \in {Written(t), [run |-> run.id, value |-> <<>>]}
  BY <1>2, <1>3 DEF DiskInv, Published
<1>5. [disk[t] EXCEPT !.value = <<>>] = [run |-> run.id, value |-> <<>>]
  BY <1>4 DEF Written
<1>6. /\ disk' = [a \in Evidence \cup {"manifest", "verdict", "drift"} |-> disk'[a]]
      /\ disk'[t] = [run |-> run.id, value |-> <<>>]
      /\ \A a \in Evidence \cup {"manifest", "verdict", "drift"} : a # t => disk'[a] = disk[a]
  <2>1. disk = [a \in Evidence \cup {"manifest", "verdict", "drift"} |-> disk[a]]
    BY DEF DiskInv, WrittenSoFar
  <2>2. t \in Evidence
    BY <1>2, AllLists
  <2> QED BY <1>1, <1>5, <2>1, <2>2
<1>7. disk'.freeze = disk.freeze /\ disk'.manifest = disk.manifest /\ disk'.verdict = disk.verdict
  <2>1. {"freeze", "manifest", "verdict"} \subseteq Evidence \cup {"manifest", "verdict", "drift"}
    BY DEF Evidence
  <2>2. t # "freeze" /\ t # "manifest" /\ t # "verdict"
    BY <1>2, AllLists
  <2> QED BY <1>6, <2>1, <2>2
<1>8. \A a : Written(a)' = Written(a)
  BY <1>2 DEF Written
<1>9. WrittenSoFar'
  <2>1. disk.freeze = [run |-> run.id, value |-> run.frozen]
    BY <1>3 DEF DiskInv, WrittenSoFar
  <2>2. ~ InItem' /\ run'.pc = "ended"
    BY <1>2, <1>3 DEF InItem
  <2> QED BY <1>2, <1>3, <1>6, <1>7, <2>1, <2>2 DEF WrittenSoFar, LastSteps
<1>10. ManifestIsPast' /\ ThisRunPublished'
  BY <1>2, <1>3, <1>7 DEF DiskInv, ManifestIsPast, ThisRunPublished
<1>11. Published'
  <2>1. ASSUME NEW a \in Lists \cup {"tests"}
        PROVE  /\ disk'.manifest.files[a] = Written(a)'
               /\ disk'[a] \in {Written(a)', [run |-> run'.id, value |-> <<>>]}
    <3>1. /\ disk.manifest.files[a] = Written(a)
          /\ disk[a] \in {Written(a), [run |-> run.id, value |-> <<>>]}
      BY <1>3 DEF DiskInv, Published
    <3>2. a \in Evidence
      BY AllLists
    <3> QED BY <1>2, <1>6, <1>7, <1>8, <3>1, <3>2
  <2>2. Len(mem.outcomes) = run.cohort /\ Orders(mem.solver) \subseteq 1..run.cohort
    BY <1>3 DEF DiskInv, Published
  <2>3. Len(mem'.outcomes) = run'.cohort /\ Orders(mem'.solver) \subseteq 1..run'.cohort
    BY <1>2, <2>2
  <2> QED BY <2>1, <2>3 DEF Published
<1>12. ASSUME NEW a \in Lists \cup {"tests"}, SeenTruly(a)
       PROVE  SeenTruly(a)'
  <2>1. a \in Evidence /\ disk[a] \in {Written(a), [run |-> run.id, value |-> <<>>]}
    BY <1>3, AllLists DEF DiskInv, Published
  <2>2. reporter'.seen[a] = mem'[a] \/ disk'[a] # Written(a)'
    BY <1>2, <1>6, <1>8, <1>12, <2>1 DEF SeenTruly
  <2> QED BY <2>2 DEF SeenTruly
<1>13. ReporterReads'
  <2>1. CASE reporter.pc # "idle" /\ reporter.freeze.run = run.id
    <3>1. /\ reporter.freeze.run \in 1..run.id
          /\ reporter.pc = "half read" => SeenTruly("outcomes") /\ SeenTruly("tests")
          /\ reporter.pc = "read" => SeenWhole /\ \A a \in Reads : SeenTruly(a)
          /\ reporter.pc \in CheckedSteps =>
               SeenWhole /\ \A a \in Reads : reporter.seen[a] = mem[a]
      BY <2>1 DEF DiskInv, ReporterReads
    <3>2. {"outcomes", "tests"} \subseteq Lists \cup {"tests"}
      BY AllLists
    <3>3. Reads \subseteq Lists \cup {"tests"}
      BY DEF Reads
    <3>4. /\ reporter.pc = "half read" => SeenTruly("outcomes")' /\ SeenTruly("tests")'
          /\ reporter.pc = "read" => \A a \in Reads : SeenTruly(a)'
      BY <1>12, <3>1, <3>2, <3>3
    <3>5. Reads' = Reads /\ SeenWhole' = SeenWhole
      BY <1>2 DEF Reads, SeenWhole
    <3> QED BY <1>2, <1>10, <3>1, <3>4, <3>5 DEF ReporterReads
  <2>2. CASE reporter.pc # "idle" /\ reporter.freeze.run # run.id
    BY <1>2, <2>2 DEF DiskInv, ReporterReads
  <2>3. CASE reporter.pc = "idle"
    BY <1>2, <2>3 DEF ReporterReads
  <2> QED BY <2>1, <2>2, <2>3
<1> QED BY <1>2, <1>9, <1>10, <1>11, <1>13 DEF DiskInv, ReporterShape

-----------------------------------------------------------------------------
(* Every step keeps what is known of the directory. *)

\* Every step keeps what is known of the directory.
LEMMA DiskStep ==
  ASSUME ItemsInv, DiskInv, [Next]_vars
  PROVE  DiskInv'
<1>1. CASE Drift
  BY <1>1, DiskKept DEF Drift
<1>2. CASE Start
  BY <1>2, StartDisk
<1>3. RunType
  BY DEF ItemsInv
<1>4. ASSUME run.pc # "ended", reporter' = reporter, Set("ended"),
             disk' = disk \/ disk' = [disk EXCEPT !.drift = disk'.drift]
      PROVE  DiskInv'
  <2>1. run'.id = run.id /\ run'.frozen = run.frozen /\ run'.pc = "ended"
    BY <1>3, <1>4 DEF Set, RunType
  <2> QED BY <1>4, <2>1, EndDisk
<1>5. CASE Die
  BY <1>4, <1>5 DEF Die, Harness
<1>6. ASSUME run.pc # "ended", reporter' = reporter, Abort
      PROVE  DiskInv'
  <2>1. disk' = [disk EXCEPT !.drift = disk'.drift] /\ Set("ended")
    <3>1. disk = [a \in Evidence \cup {"manifest", "verdict", "drift"} |-> disk[a]]
      BY DEF DiskInv, WrittenSoFar
    <3> QED BY <1>6, <3>1 DEF Abort
  <2> QED BY <1>4, <1>6, <2>1
<1>7. ASSUME NEW stage \in Stages, run.pc \in {stage, Calling[stage], Checking[stage]}
      PROVE  InItem /\ run.pc # "ended"
  <2>1. run.pc \in GeneratorSteps \cup ReviewerSteps \cup SolverSteps
    BY <1>7, StageSteps
  <2> QED BY <1>3, <2>1, ItemSteps DEF RunType
<1>8. ASSUME InItem, disk' = disk, reporter' = reporter,
             NEW step \in Steps \ LastSteps, Set(step)
      PROVE  DiskInv'
  <2>1. /\ run'.pc = step /\ run'.id = run.id /\ run'.frozen = run.frozen
        /\ run'.written = run.written
    BY <1>3, <1>8 DEF Set, RunType
  <2> QED BY <1>8, <2>1, ItemDisk
<1>9. ASSUME NEW stage \in Stages
       PROVE  /\ stage \in Steps \ LastSteps /\ Calling[stage] \in Steps \ LastSteps
              /\ Checking[stage] \in Steps \ LastSteps
  BY StageSteps, ItemSteps
<1>10. ASSUME InItem, reporter' = reporter, NEW stage \in Stages, NEW category \in LiveErrors,
              Failed(stage, category)
       PROVE  DiskInv'
  <2>1. /\ disk' = disk /\ run'.id = run.id /\ run'.frozen = run.frozen
        /\ run'.written = run.written /\ run'.pc \in {"generator", "write"}
    BY <1>3, <1>10 DEF Failed, GeneratorFailed, StageFailed, RunType
  <2>2. run'.pc \in Steps \ LastSteps
    BY <2>1 DEF Steps, LastSteps
  <2> QED BY <1>10, <2>1, <2>2, ItemDisk
<1>11. ASSUME NEW stage \in Stages, BeginCall(stage)
       PROVE  DiskInv'
  BY <1>6, <1>7, <1>8, <1>9, <1>11 DEF BeginCall, Harness
<1>12. ASSUME NEW stage \in Stages, EndCall(stage)
       PROVE  DiskInv'
  <2>1. InItem /\ run.pc # "ended" /\ reporter' = reporter
    BY <1>7, <1>12 DEF EndCall, Harness
  <2> QED BY <1>6, <1>8, <1>9, <1>10, <1>12, <2>1, LiveAssumption DEF EndCall
<1>13. ASSUME NEW stage \in Stages, CheckAnswer(stage)
       PROVE  DiskInv'
  <2>1. InItem /\ run.pc # "ended" /\ reporter' = reporter
    BY <1>7, <1>13 DEF CheckAnswer, Harness
  <2>2. CASE Abort
    BY <1>6, <2>1, <2>2
  <2>3. CASE Failed(stage, "schema")
    BY <1>10, <2>1, <2>3 DEF LiveErrors
  <2>4. ASSUME disk' = disk,
               \/ \E body \in GeneratorBodies : Generated(body)
               \/ \E body \in ReviewBodies, status \in Statuses, crash \in BOOLEAN :
                    Reviewed(body, status, crash)
               \/ \E body \in SolverBodies, crash \in BOOLEAN : Solved(body, crash)
        PROVE  DiskInv'
    <3>1. /\ run'.id = run.id /\ run'.frozen = run.frozen /\ run'.written = run.written
          /\ run'.pc \in {"reviewer", "solver", "write"}
      BY <1>3, <2>4 DEF Generated, ListGenerated, Reviewed, RouteReview, Solved, RunType
    <3>2. run'.pc \in Steps \ LastSteps
      BY <3>1 DEF Steps, LastSteps
    <3> QED BY <2>1, <2>4, <3>1, <3>2, ItemDisk
  <2> QED BY <1>13, <2>2, <2>3, <2>4 DEF CheckAnswer, Passed
<1>14. CASE WriteList
  BY <1>14, WriteListDisk
<1>15. CASE RunTests
  BY <1>15, RunTestsDisk
<1>16. CASE WriteMetrics
  <2>1. CASE Intact
    BY <1>16, <2>1, WriteMetricsDisk
  <2>2. CASE ~ Intact
    BY <1>6, <1>16, <2>2 DEF WriteMetrics, Harness
  <2> QED BY <2>1, <2>2
<1>17. CASE WriteManifest
  <2>1. CASE Intact
    BY <1>17, <2>1, WriteManifestDisk
  <2>2. CASE ~ Intact
    BY <1>6, <1>17, <2>2 DEF WriteManifest, Harness
  <2> QED BY <2>1, <2>2
<1>18. CASE Report
  BY <1>18, ReportDisk
<1>19. CASE Tamper
  BY <1>19, TamperDisk
<1>20. CASE UNCHANGED vars
  BY <1>20, DiskKept DEF vars
<1> QED
  BY <1>1, <1>2, <1>5, <1>11, <1>12, <1>13, <1>14, <1>15, <1>16, <1>17, <1>18, <1>19, <1>20
  DEF Next, HarnessStep

-----------------------------------------------------------------------------
(* The verdict. *)

\* A verdict A counts every item of the cohort as solved, and no item is solved
\* that the Reviewer did not pass.
LEMMA ReadyLemma ==
  ASSUME ItemsInv, Len(mem.outcomes) = run.cohort, Orders(mem.solver) \subseteq 1..run.cohort,
         NEW e, e.solver = mem.solver, final_decision(e, run.cohort) = "A"
  PROVE  \A n \in 1..run.cohort :
           /\ n \in Orders(mem.reviewer) \cap Orders(mem.solver)
           /\ ByOrder(mem.reviewer, n).verdict = "PASS"
<1>1. /\ run.cohort \in Nat /\ mem.outcomes \in Seq(Recorded)
      /\ \A k \in DOMAIN mem.outcomes : Done(mem, run.cohort, k)
  BY DEF ItemsInv, RunType, MemType
<1>2. Gates(e, run.cohort).solver_contract
  <2> DEFINE gate == Gates(e, run.cohort)
  <2>1. \A k \in DOMAIN gate : gate[k]
    <3> HIDE DEF gate
    <3> QED BY DEF final_decision, gate
  <2>2. "solver_contract" \in DOMAIN gate
    BY DEF Gates
  <2> HIDE DEF gate
  <2>3. gate["solver_contract"]
    BY <2>1, <2>2
  <2> QED BY <2>3 DEF gate
<1>3. Cardinality(Orders(mem.solver)) = run.cohort
  BY <1>2 DEF Gates
<1>4. Orders(mem.solver) = 1..run.cohort
  <2>1. Cardinality(1..run.cohort) = run.cohort - 1 + 1
    BY <1>1, FS_Interval
  <2>2. IsFiniteSet(1..run.cohort) /\ Cardinality(1..run.cohort) = run.cohort
    BY <1>1, <2>1, FS_Interval
  <2> QED BY <1>1, <1>3, <2>2, FS_Subset
<1>5. \A n \in 1..run.cohort : Done(mem, run.cohort, n)
  BY <1>1
<1> QED BY <1>4, <1>5 DEF Done

\* The verdict stays, and so does the evidence of the run it may be of.
LEMMA VerdictKept ==
  ASSUME VerdictInv, mem' = mem, disk'.verdict = disk.verdict,
         run'.id = run.id, run'.cohort = run.cohort,
         run'.pc = run.pc \/ run'.pc \in {"manifest", "ended"}
  PROVE  VerdictInv'
BY DEF VerdictInv, ReadyMeansThrough

\* The verdict that is there while a run gathers its evidence is of another run.
LEMMA VerdictUnderWay ==
  ASSUME VerdictInv, run.pc \notin {"manifest", "ended"},
         disk'.verdict = disk.verdict, run'.id = run.id
  PROVE  VerdictInv'
BY DEF VerdictInv, ReadyMeansThrough

\* Nothing of a call or an item is written.
LEMMA VerdictInItem ==
  ASSUME ItemsInv, DiskInv, VerdictInv, NEW stage \in Stages,
         BeginCall(stage) \/ EndCall(stage) \/ CheckAnswer(stage)
  PROVE  VerdictInv'
<1>1. run.pc \notin {"manifest", "ended"}
  BY StageSteps DEF BeginCall, EndCall, CheckAnswer, GeneratorSteps, ReviewerSteps, SolverSteps
<1>2. run'.id = run.id
  BY DEF BeginCall, EndCall, CheckAnswer, Passed, Generated, ListGenerated, Reviewed, RouteReview,
     Solved, Failed, GeneratorFailed, StageFailed, Abort, Set, ItemsInv, RunType
<1>3. disk' = disk \/ Abort
  BY DEF BeginCall, EndCall, CheckAnswer, Passed, Failed, GeneratorFailed, StageFailed
<1>4. disk'.verdict = disk.verdict
  <2>1. disk = [a \in Evidence \cup {"manifest", "verdict", "drift"} |-> disk[a]]
    BY DEF DiskInv, WrittenSoFar
  <2> QED BY <1>3, <2>1 DEF Abort
<1> QED BY <1>1, <1>2, <1>4, VerdictUnderWay

\* A report on the last run judges that run's own formal outputs.
LEMMA PublishVerdict ==
  ASSUME IInv, PublishReport
  PROVE  VerdictInv'
<1>1. /\ run' = run /\ mem' = mem
      /\ disk'.verdict = [run |-> reporter.freeze.run,
           value |-> final_decision(reporter.seen, cohort_size_from(reporter.seen))]
  <2>1. disk = [a \in Evidence \cup {"manifest", "verdict", "drift"} |-> disk[a]]
    BY DEF IInv, DiskInv, WrittenSoFar
  <2> QED BY <2>1 DEF PublishReport, Others
<1>2. /\ reporter.freeze.run \in 1..run.id
      /\ reporter.freeze.run = run.id =>
           /\ ThisRunPublished
           /\ reporter.seen.solver = mem.solver /\ reporter.seen.outcomes = mem.outcomes
  BY AllLists DEF IInv, DiskInv, ReporterReads, CheckedSteps, PublishReport, Reads
<1>3. CASE reporter.freeze.run # run.id
  BY <1>1, <1>2, <1>3 DEF VerdictInv, ReadyMeansThrough
<1>4. CASE reporter.freeze.run = run.id
  <2>1. run.pc = "ended" /\ Len(mem.outcomes) = run.cohort /\ Orders(mem.solver) \subseteq 1..run.cohort
    BY <1>2, <1>4 DEF IInv, DiskInv, ManifestIsPast, ThisRunPublished, Published
  <2>2. disk'.verdict.value = final_decision(reporter.seen, run.cohort)
    BY <1>1, <1>2, <1>4, <2>1 DEF cohort_size_from
  <2>3. ReadyMeansThrough'
    <3>1. ASSUME disk'.verdict.value = "A"
          PROVE  \A n \in 1..run.cohort :
                   /\ n \in Orders(mem.reviewer) \cap Orders(mem.solver)
                   /\ ByOrder(mem.reviewer, n).verdict = "PASS"
      BY <1>2, <1>4, <2>1, <2>2, <3>1, ReadyLemma DEF IInv
    <3> QED BY <1>1, <3>1 DEF ReadyMeansThrough
  <2> QED BY <1>1, <1>2, <2>1, <2>3 DEF VerdictInv
<1> QED BY <1>3, <1>4

\* Every step keeps what is known of the verdict.
LEMMA VerdictStep ==
  ASSUME IInv, [Next]_vars
  PROVE  VerdictInv'
<1>1. RunType /\ disk = [a \in Evidence \cup {"manifest", "verdict", "drift"} |-> disk[a]]
  BY DEF IInv, ItemsInv, DiskInv, WrittenSoFar
<1>2. \A a \in Evidence \cup {"manifest", "drift"} : a # "verdict"
  BY AllLists
<1>3. CASE Drift \/ Die \/ UNCHANGED vars
  BY <1>1, <1>3, VerdictKept DEF Drift, Die, Set, vars, IInv, RunType
<1>4. CASE Start
  <2>1. /\ run'.id = run.id + 1 /\ run.id \in Nat /\ disk'.verdict = disk.verdict
    BY <1>1, <1>2, <1>4 DEF Start, RunType, Evidence
  <2>2. disk'.verdict # None => disk'.verdict.run \in 1..(run.id + 1) /\ disk'.verdict.run # run.id + 1
    BY <2>1 DEF IInv, VerdictInv
  <2> QED BY <2>1, <2>2 DEF VerdictInv, ReadyMeansThrough
<1>5. CASE \E stage \in Stages : BeginCall(stage) \/ EndCall(stage) \/ CheckAnswer(stage)
  BY <1>5, VerdictInItem DEF IInv
<1>6. CASE WriteList
  <2>1. run.pc = "write" /\ run'.id = run.id
    BY <1>1, <1>6 DEF WriteList, RunType
  <2>2. WriteOrder[run.written + 1] \in Evidence
    <3>1. run.written + 1 \in 1..5
      BY <1>1, <1>6, <2>1 DEF RunType
    <3> QED BY <3>1, AllLists
  <2>3. disk'.verdict = disk.verdict
    BY <1>1, <1>2, <1>6, <2>2 DEF WriteList
  <2> QED BY <2>1, <2>3, VerdictUnderWay DEF IInv
<1>7. CASE RunTests
  <2>1. run.pc = "tests" /\ run'.id = run.id /\ disk'.verdict = disk.verdict
    BY <1>1, <1>7 DEF RunTests, Set, RunType
  <2> QED BY <2>1, VerdictUnderWay DEF IInv
<1>8. ASSUME Abort
      PROVE  VerdictInv'
  <2>1. mem' = mem /\ run'.id = run.id /\ run'.cohort = run.cohort /\ run'.pc = "ended"
    BY <1>1, <1>8 DEF Abort, Set, RunType
  <2>2. disk'.verdict = disk.verdict
    BY <1>1, <1>8 DEF Abort
  <2> QED BY <2>1, <2>2, VerdictKept DEF IInv
<1>9. CASE WriteMetrics
  <2>1. CASE Intact
    <3>1. /\ run.pc = "metrics" /\ mem' = mem /\ run' = [run EXCEPT !.pc = "manifest"]
          /\ disk'.verdict = [run |-> run.id, value |-> final_decision(mem, run.cohort)]
      BY <1>1, <1>9, <2>1 DEF WriteMetrics, Set
    <3>2. run'.pc = "manifest" /\ run'.id = run.id /\ run'.cohort = run.cohort /\ run.id \in 1..run.id
      <4>1. run.id \in Nat /\ run.id # 0
        BY <1>1, <3>1 DEF IInv, DiskInv, WrittenSoFar, RunType
      <4> QED BY <1>1, <3>1, <4>1 DEF RunType
    <3>3. final_decision(mem, run.cohort) = "A" =>
            \A n \in 1..run.cohort :
              /\ n \in Orders(mem.reviewer) \cap Orders(mem.solver)
              /\ ByOrder(mem.reviewer, n).verdict = "PASS"
      BY <3>1, LastItem, ReadyLemma DEF IInv, LastSteps
    <3> QED BY <3>1, <3>2, <3>3 DEF VerdictInv, ReadyMeansThrough
  <2>2. CASE ~ Intact
    BY <1>8, <1>9, <2>2 DEF WriteMetrics
  <2> QED BY <2>1, <2>2
<1>10. CASE WriteManifest
  <2>1. CASE Intact
    <3>1. /\ mem' = mem /\ run'.id = run.id /\ run'.cohort = run.cohort /\ run'.pc = "ended"
          /\ disk'.verdict = disk.verdict
      BY <1>1, <1>10, <2>1 DEF WriteManifest, Set, RunType
    <3> QED BY <3>1, VerdictKept DEF IInv
  <2>2. CASE ~ Intact
    BY <1>8, <1>10, <2>2 DEF WriteManifest
  <2> QED BY <2>1, <2>2
<1>11. CASE Report
  <2>1. CASE PublishReport
    BY <2>1, PublishVerdict
  <2>2. CASE ~ PublishReport
    <3>1. run' = run /\ mem' = mem /\ disk' = disk
      BY <1>11, <2>2 DEF Report, OpenReport, ReadContract, ReadEvidence, Recheck, LastCheck,
         FreezeCheck, Verify, Others
    <3> QED BY <3>1, VerdictKept DEF IInv
  <2> QED BY <2>1, <2>2
<1>12. CASE Tamper
  <2>1. PICK a \in Tamperable : disk' = [disk EXCEPT ![a].value = <<>>]
    BY <1>12 DEF Tamper
  <2>2. a # "verdict"
    BY LiveAssumption
  <2>3. run' = run /\ mem' = mem /\ disk'.verdict = disk.verdict
    BY <1>1, <1>12, <2>1, <2>2 DEF Tamper
  <2> QED BY <2>3, VerdictKept DEF IInv
<1> QED
  BY <1>3, <1>4, <1>5, <1>6, <1>7, <1>9, <1>10, <1>11, <1>12 DEF Next, HarnessStep

\* The invariant of the harness: its items, its directory and its verdict.
THEOREM LiveInvariant == Spec => []IInv
<1>1. Init => IInv
  <2>1. Init => VerdictInv
    BY DEF Init, VerdictInv, ReadyMeansThrough, Evidence
  <2> QED BY <2>1, InitItems, InitDisk DEF IInv
<1>2. IInv /\ [Next]_vars => IInv'
  BY ItemsStep, DiskStep, VerdictStep DEF IInv
<1> QED BY <1>1, <1>2, PTL DEF Spec

\* A cohort is judged ready, by its run or by a report on it, only if every one
\* of its items was passed by the Reviewer and answered by the Solver: the
\* contract gates count the items, and no item is counted that did not go through.
THEOREM ReadyWentThrough == Spec => []ReadyMeansThrough
<1>1. IInv => ReadyMeansThrough
  BY DEF IInv, VerdictInv
<1> QED BY <1>1, LiveInvariant, PTL

\* A report on the last run publishes the decision that its own evidence gives:
\* what was changed behind the run is found by the checks after it was read, and
\* the tests are other than the recorded ones only if the report ran them.
THEOREM ReportIsTheRuns == Spec => ReportReproduces
<1> DEFINE tests == IF reporter.retest THEN reporter.seen.tests ELSE mem.tests
<1>1. ASSUME IInv, [Next]_vars, reporter.pc = "writing", reporter.freeze.run = run.id,
             reporter' # reporter
      PROVE  disk'.verdict = [run |-> run.id,
               value |-> final_decision([mem EXCEPT !.tests = tests], run.cohort)]
  <2>1. CASE Report
    <3>1. PublishReport
      BY <1>1, <2>1 DEF Report, OpenReport, ReadContract, ReadEvidence, Recheck, LastCheck,
         FreezeCheck, Verify
    <3>2. disk = [a \in Evidence \cup {"manifest", "verdict", "drift"} |-> disk[a]]
      BY <1>1 DEF IInv, DiskInv, WrittenSoFar
    <3>3. disk'.verdict = [run |-> run.id,
            value |-> final_decision(reporter.seen, cohort_size_from(reporter.seen))]
      BY <1>1, <3>1, <3>2 DEF PublishReport
    <3>4. ThisRunPublished /\ SeenWhole /\ \A a \in Reads : reporter.seen[a] = mem[a]
      BY <1>1 DEF IInv, DiskInv, ReporterReads, CheckedSteps
    <3>5. Len(mem.outcomes) = run.cohort
      BY <1>1, <3>4 DEF IInv, DiskInv, Published
    <3>6. mem = [a \in Lists \cup {"tests"} |-> mem[a]]
      BY <1>1 DEF IInv, ItemsInv, MemType
    <3>7. \A a \in Lists : reporter.seen[a] = mem[a]
      BY <3>4, AllLists DEF Reads
    <3>8. reporter.seen["tests"] = tests
      BY <3>4 DEF Reads
    <3>9. reporter.seen = [mem EXCEPT !.tests = tests]
      <4> HIDE DEF tests
      <4> QED BY <3>4, <3>6, <3>7, <3>8, AllLists DEF SeenWhole
    <3>10. cohort_size_from(reporter.seen) = run.cohort
      BY <3>5, <3>7, AllLists DEF cohort_size_from
    <3> QED BY <3>3, <3>9, <3>10
  <2>2. CASE ~ Report
    <3>1. reporter' = reporter
      BY <1>1, <2>2 DEF Next, HarnessStep, BeginCall, EndCall, CheckAnswer, WriteList, RunTests,
         WriteMetrics, WriteManifest, Drift, Start, Die, Tamper, Harness, vars
    <3> QED BY <1>1, <3>1
  <2> QED BY <2>1, <2>2
<1>2. IInv /\ [Next]_vars =>
        [reporter.pc = "writing" /\ reporter.freeze.run = run.id /\ reporter' # reporter =>
           disk'.verdict = [run |-> run.id,
             value |-> final_decision([mem EXCEPT !.tests = tests], run.cohort)]]_vars
  BY <1>1
<1> QED BY <1>2, LiveInvariant, PTL DEF Spec, ReportReproduces

-----------------------------------------------------------------------------
(* Drift. *)

\* A sidecar is the last one.
LEMMA LastSidecar ==
  ASSUME ItemsInv, NEW stage \in Stages, NEW category \in LiveErrors, Failed(stage, category)
  PROVE  /\ \A other \in Stages : mem'[other] = mem[other]
         /\ mem'.provenance[Len(mem'.provenance)] = sidecar(stage, FALSE, category)
<1>1. mem = [a \in Lists \cup {"tests"} |-> mem[a]] /\ mem.provenance \in Seq(Sidecar)
  BY DEF ItemsInv, MemType
<1>2. \E outcomes : mem' = [mem EXCEPT
        !.provenance = Append(@, sidecar(stage, FALSE, category)), !.outcomes = outcomes]
  BY DEF Failed, GeneratorFailed, StageFailed
<1>3. Stages \cup {"provenance", "outcomes"} = Lists
      /\ "provenance" \notin Stages /\ "outcomes" \notin Stages
  BY DEF Stages, RETRY_STAGES, Lists
<1>4. mem'.provenance = Append(mem.provenance, sidecar(stage, FALSE, category))
  BY <1>1, <1>2, <1>3
<1>5. sidecar(stage, FALSE, category) \in Sidecar
  BY DEF sidecar, Sidecar, ItemsInv, RunType, LiveErrors
<1>6. mem'.provenance[Len(mem'.provenance)] = sidecar(stage, FALSE, category)
  <2>1. PICK new \in Sidecar : new = sidecar(stage, FALSE, category)
    BY <1>5
  <2>2. /\ Append(mem.provenance, new)[Len(mem.provenance) + 1] = new
        /\ Len(Append(mem.provenance, new)) = Len(mem.provenance) + 1
    BY <1>1, Appended
  <2> QED BY <1>4, <2>1, <2>2
<1> QED BY <1>1, <1>2, <1>3, <1>6

\* While the sources or the freeze are not as they were frozen, nothing that an
\* agent answered is listed, and no failure is recorded but a refused answer.
THEOREM DriftIsCaught == Spec => DriftFailsClosed
<1> DEFINE Closed == /\ \A stage \in Stages : mem'[stage] = mem[stage]
                     /\ LET last == mem'.provenance[Len(mem'.provenance)] IN
                        ~ last.contract_valid /\ last.category = "schema"
<1>1. ASSUME ItemsInv, [Next]_vars, ~ Intact, mem' # mem, mem' # NoLists, run.pc # "tests"
      PROVE  Closed
  <2>1. \E stage \in Stages : CheckAnswer(stage) /\ Failed(stage, "schema")
    <3>1. ASSUME NEW stage \in Stages, BeginCall(stage) \/ EndCall(stage)
          PROVE  FALSE
      BY <1>1, <3>1 DEF BeginCall, EndCall, Abort
    <3>2. ASSUME NEW stage \in Stages, CheckAnswer(stage)
          PROVE  Failed(stage, "schema")
      BY <1>1, <3>2 DEF CheckAnswer, Abort
    <3>3. CASE WriteList \/ RunTests \/ WriteMetrics \/ WriteManifest
      BY <1>1, <3>3 DEF WriteList, RunTests, WriteMetrics, WriteManifest, Abort
    <3>4. CASE Drift \/ Start \/ Die \/ Tamper \/ UNCHANGED vars
      BY <1>1, <3>4 DEF Drift, Start, Die, Tamper, vars
    <3>5. CASE Report
      BY <1>1, <3>5 DEF Report, OpenReport, ReadContract, ReadEvidence, Recheck, LastCheck,
         FreezeCheck, Verify, PublishReport, Others
    <3> QED BY <1>1, <3>1, <3>2, <3>3, <3>4, <3>5 DEF Next, HarnessStep
  <2>2. PICK stage \in Stages : Failed(stage, "schema")
    BY <2>1
  <2>3. /\ \A other \in Stages : mem'[other] = mem[other]
        /\ mem'.provenance[Len(mem'.provenance)] = sidecar(stage, FALSE, "schema")
    BY <1>1, <2>2, LastSidecar DEF LiveErrors
  <2> QED BY <2>3 DEF sidecar
<1>2. ItemsInv /\ [Next]_vars =>
        [~ Intact /\ mem' # mem /\ mem' # NoLists /\ run.pc # "tests" => Closed]_vars
  BY <1>1
<1> QED BY <1>2, ItemsKnown, PTL DEF Spec, DriftFailsClosed

=============================================================================
