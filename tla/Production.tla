------------------------------ MODULE Production ------------------------------
(***************************************************************************)
(* production/assembly.py and production/adapters.py: one problem bank     *)
(* from the run directories of the three sections, read file by file while *)
(* one of the section pipelines is at work in its directory.  The          *)
(* Structure and Reading pipelines are the modules of that name; a Written *)
(* Expression directory is written by the live harness, whose order of     *)
(* writes is repeated here, and its evidence by GrammarEvidence.           *)
(***************************************************************************)
EXTENDS Structure

CONSTANTS
  ReadingItems,   \* of the Reading passage, all of them INFERENCE
  WeItems       \* of the Written Expression run

VARIABLES
  plan, run, verified, disk, batch,     \* Reading
  document, evidence, audit, audited,   \* GrammarEvidence
  we,       \* outcomes.json, test_result.json and the manifest over them
  rerun,    \* the items a rerun of the harness has reached, and its next write
  asm,      \* the assembler
  bank,     \* the problem bank file
  busy      \* bound: the one section whose pipeline works meanwhile

readingVars == <<plan, run, verified, disk, batch>>
weVars == <<document, evidence, audit, audited, we, rerun>>
sourceVars == <<structureVars, readingVars, weVars>>
vars == <<sourceVars, asm, bank, busy>>

R == INSTANCE Reading WITH Items <- ReadingItems, Inference <- ReadingItems
G == INSTANCE GrammarEvidence WITH Items <- WeItems

ASSUME ProductionAssumption ==
  /\ None \notin R!Sets \cup R!Stages \cup R!Decisions \cup R!Files \cup R!Results
  /\ None \notin G!Documents \cup G!Kinds \cup G!Decisions

Sections == {"structure", "written_expression", "reading"}

Outcomes(number, items, accepted) == [run |-> number, items |-> items, accepted |-> accepted]
Tests(number, passed) == [run |-> number, passed |-> passed]
Manifest(doc, outcomes, tests) == [document |-> doc, outcomes |-> outcomes, tests |-> tests]
EarlierWe ==
  [outcomes |-> Outcomes(0, WeItems, TRUE), tests |-> Tests(0, TRUE),
   manifest |-> Manifest(G!EarlierDocument, Outcomes(0, WeItems, TRUE), Tests(0, TRUE))]

ProductionType ==
  /\ StructureType
  /\ R!TypeOK
  /\ G!EvidenceType
  /\ rerun.reached \subseteq WeItems
  /\ asm.asked \subseteq Sections
  /\ DOMAIN asm.taken = asm.asked

Init ==
  /\ busy \in Sections
  /\ IF busy = "structure" THEN StructureInit
     ELSE version = "v0.3" /\ made = Idle /\ files = EarlierFiles
  /\ R!Init
  /\ busy # "reading" =>
       plan = [mode |-> "v0.2", inference |-> ReadingItems] /\ disk = R!EarlierRun
  /\ G!EvidenceInit
  /\ busy # "written_expression" => evidence # None
  /\ we = EarlierWe
  /\ rerun = [pc |-> "document", reached |-> {}, generated |-> {}, accepted |-> TRUE]
  /\ \E asked \in {{busy}, Sections} :
       asm = [pc |-> "structure", asked |-> asked, seen |-> <<>>, stable |-> TRUE,
              taken |-> [s \in asked |-> None]]
  /\ bank = None

-----------------------------------------------------------------------------
(* The sections' pipelines.                                                  *)

MakeStructure ==
  /\ busy = "structure"
  /\ StructureNext
  /\ UNCHANGED <<readingVars, weVars>>

MakeReading ==
  /\ busy = "reading"
  /\ R!Next
  /\ UNCHANGED <<structureVars, weVars>>

MakeEvidence ==
  /\ busy = "written_expression"
  /\ G!EvidenceNext
  /\ UNCHANGED <<structureVars, readingVars, we, rerun>>

\* After every item the harness rewrites generator_outputs.json, which has the
\* items that got a Generator output, and then outcomes.json.
RewriteDocument ==
  /\ rerun.pc = "document"
  /\ \E i \in WeItems \ rerun.reached, generated \in BOOLEAN, accepted \in BOOLEAN :
       /\ accepted => generated
       /\ LET all == rerun.generated \cup (IF generated THEN {i} ELSE {})
          IN  /\ document' = [run |-> 1, items |-> all]
              /\ rerun' = [pc |-> "outcomes", reached |-> rerun.reached \cup {i},
                           generated |-> all, accepted |-> rerun.accepted /\ accepted]
  /\ UNCHANGED we

RewriteOutcomes ==
  /\ rerun.pc = "outcomes"
  /\ we' = [we EXCEPT !.outcomes = Outcomes(1, rerun.reached, rerun.accepted)]
  /\ rerun' = [rerun EXCEPT !.pc = IF rerun.reached = WeItems THEN "tests" ELSE "document"]
  /\ UNCHANGED document

RewriteTests ==
  /\ rerun.pc = "tests"
  /\ \E passed \in BOOLEAN : we' = [we EXCEPT !.tests = Tests(1, passed)]
  /\ rerun' = [rerun EXCEPT !.pc = "manifest"]
  /\ UNCHANGED document

RewriteManifest ==
  /\ rerun.pc = "manifest"
  /\ we' = [we EXCEPT !.manifest = Manifest(document, we.outcomes, we.tests)]
  /\ rerun' = [rerun EXCEPT !.pc = "ended"]
  /\ UNCHANGED document

Harness ==
  /\ busy = "written_expression"
  /\ RewriteDocument \/ RewriteOutcomes \/ RewriteTests \/ RewriteManifest
  /\ UNCHANGED <<structureVars, readingVars, evidence, audit, audited>>

Make ==
  /\ MakeStructure \/ MakeReading \/ MakeEvidence \/ Harness
  /\ asm' = [asm EXCEPT !.stable =
               @ /\ (asm.pc = "written_expression" => UNCHANGED <<document, we>>)]
  /\ UNCHANGED <<bank, busy>>

-----------------------------------------------------------------------------
(* The assembler: Structure first, then Written Expression, then Reading.    *)

Refuse == asm' = [asm EXCEPT !.pc = "refused", !.seen = <<>>]

\* What is read, or a refusal if it is missing or not as it must be.
ReadIf(good, value) ==
  IF good THEN asm' = [asm EXCEPT !.seen = Append(@, value)] ELSE Refuse
Read(value) == ReadIf(value # None, value)

Take(section, content, next) ==
  asm' = [asm EXCEPT !.pc = next, !.taken[section] = content, !.seen = <<>>]

Skip(section, next) ==
  /\ asm.pc = section /\ section \notin asm.asked
  /\ asm' = [asm EXCEPT !.pc = next]

\* Mutant: the recorded hash is not compared with generator.json.
UnhashedStructure(result, generator, provenance) ==
  /\ result.version = "v0.3"
  /\ result.decision = "ACCEPT"
  /\ provenance = result.run

StructureEligible(result, generator, provenance) ==
  /\ result.version = "v0.3"
  /\ result.decision = "ACCEPT"
  /\ provenance = result.run
  /\ result.hash = generator

load_structure_source ==
  /\ asm.pc = "structure" /\ "structure" \in asm.asked
  /\ CASE Len(asm.seen) = 0 -> Read(files.result)
       [] Len(asm.seen) = 1 -> Read(files.generator)
       [] Len(asm.seen) = 2 -> Read(files.provenance)
       [] OTHER -> IF StructureEligible(asm.seen[1], asm.seen[2], asm.seen[3])
                   THEN Take("structure", asm.seen[2], "written_expression") ELSE Refuse

\* _validate_we_consensus.
AllAccepted(outcomes) == outcomes.items # {} /\ outcomes.accepted

\* The manifest; the three files hashed one by one; outcomes, tests and document,
\* which are read again; and the validator, which reads the document and the
\* evidence itself.
load_written_expression_source ==
  /\ asm.pc = "written_expression" /\ "written_expression" \in asm.asked
  /\ LET seen == asm.seen
     IN  CASE Len(seen) = 0 -> Read(we.manifest)
           [] Len(seen) = 1 -> ReadIf(document = seen[1].document, document)
           [] Len(seen) = 2 -> ReadIf(we.outcomes = seen[1].outcomes, we.outcomes)
           [] Len(seen) = 3 -> ReadIf(we.tests = seen[1].tests, we.tests)
           [] Len(seen) = 4 -> ReadIf(AllAccepted(we.outcomes), we.outcomes)
           [] Len(seen) = 5 -> ReadIf(we.tests.passed, we.tests)
           [] Len(seen) = 6 -> ReadIf(document.items = seen[5].items, document)
           [] OTHER -> \/ /\ G!BoundAndStrong(document, evidence)
                          /\ Take("written_expression", seen[7], "reading")
                       \/ Refuse

ReadingEligible(result, generator, provenance) ==
  /\ result.run = 1 => plan.mode # "v0.1"
  /\ result.decision = "ACCEPT"
  /\ result.made = generator
  /\ provenance = result.run

load_reading_source ==
  /\ asm.pc = "reading" /\ "reading" \in asm.asked
  /\ CASE Len(asm.seen) = 0 -> Read(disk.result)
       [] Len(asm.seen) = 1 -> Read(disk.generator)
       [] Len(asm.seen) = 2 -> Read(disk.provenance)
       [] OTHER -> IF ReadingEligible(asm.seen[1], asm.seen[2], asm.seen[3])
                   THEN Take("reading", asm.seen[2], "combine") ELSE Refuse

\* Duplicate ids, or a bank its schema refuses, are an error of the whole.
assemble_problem_bank ==
  /\ asm.pc = "combine"
  /\ asm' = [asm EXCEPT !.pc = "write"] \/ Refuse

write_problem_bank ==
  /\ asm.pc = "write"
  /\ asm' = [asm EXCEPT !.pc = "written"]
  /\ bank' = asm.taken
  /\ UNCHANGED <<sourceVars, busy>>

Assembler ==
  /\ \/ load_structure_source \/ load_written_expression_source \/ load_reading_source
     \/ Skip("structure", "written_expression")
     \/ Skip("written_expression", "reading")
     \/ Skip("reading", "combine")
     \/ assemble_problem_bank
  /\ UNCHANGED <<sourceVars, bank, busy>>

Next == Make \/ Assembler \/ write_problem_bank

Spec == Init /\ [][Next]_vars

-----------------------------------------------------------------------------
(* Properties. *)

\* The bank file is all or nothing, and what it has of each source is one run's
\* set, whole and judged as it is: the earlier accepted one as it was, or this
\* run's, approved by the judges it needs; of Written Expression, items that
\* were all accepted in one finished run, and each found sound by the auditor at
\* the content the bank has.  For Written Expression this needs the directory to
\* stay as it is while it is loaded, since files are read again after they were
\* verified; Structure and Reading may be rewritten at any moment.
BankIsWhole ==
  bank # None =>
    /\ DOMAIN bank = asm.asked /\ \A s \in asm.asked : bank[s] # None
    /\ "structure" \in asm.asked =>
         \/ bank["structure"] = EarlierFiles.generator
         \/ bank["structure"] = <<1, made.set>> /\ Approved
    /\ "reading" \in asm.asked =>
         \/ bank["reading"] = R!EarlierRun.generator
         \/ /\ bank["reading"] = R!Written(1, run.generator)
            /\ R!Reviewed /\ R!Solved /\ R!Verified
    /\ "written_expression" \in asm.asked /\ asm.stable =>
         LET doc == bank["written_expression"]
         IN  /\ doc.items = WeItems
             /\ doc.run = 1 => rerun.pc = "ended" /\ rerun.accepted
             /\ \A i \in doc.items : <<doc.run, i>> \in audited

DecisionIsEvidenced == G!DecisionIsEvidenced
=============================================================================
