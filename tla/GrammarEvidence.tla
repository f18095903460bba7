--------------------------- MODULE GrammarEvidence ---------------------------
(***************************************************************************)
(* we_evidence/pipeline.py: every Written Expression item of one Generator *)
(* output file is audited by one blind agent call, never retried, and the  *)
(* judgments become the evidence file that the item validator and the      *)
(* production loader demand.  The Generator output may be rewritten by     *)
(* another run of the harness meanwhile, and the evidence may be from an   *)
(* earlier audit.                                                          *)
(*                                                                         *)
(* A document is the run it comes from and the items it has so far.  An    *)
(* item of a run has one content; the content hash tells runs apart.       *)
(***************************************************************************)
EXTENDS Naturals, FiniteSets

CONSTANTS
  Items,
  None

VARIABLES
  document,  \* generator_outputs.json
  evidence,  \* grammar_evidence.json: its records
  audit,     \* the producer's run; history: the document it validated
  audited    \* history: the <<run, item>> with seven true judgments

evidenceVars == <<document, evidence, audit, audited>>

Documents == [run : {0, 1}, items : SUBSET Items]
Kinds == {"strong", "weak", "refused", "infrastructure"}
Records == [item : Items, run : {0, 1}, strong : BOOLEAN]
Decisions == {"PASS", "QUARANTINE", "INFRASTRUCTURE_FAILURE"}

EvidenceType ==
  /\ document \in Documents
  /\ evidence = None \/ evidence \subseteq Records
  /\ audit.pc \in {"idle", "auditing", "evidence file", "validator", "result file", "ended"}
  /\ audit.loaded \in Documents \cup {None}
  /\ audit.outcome \in [Items -> Kinds \cup {None}]
  /\ audit.valid \in BOOLEAN
  /\ audit.validated \in Documents \cup {None}
  /\ audit.decision \in Decisions \cup {None}
  /\ audited \subseteq {0, 1} \X Items

EarlierDocument == [run |-> 0, items |-> Items]
EarlierEvidence == {[item |-> i, run |-> 0, strong |-> TRUE] : i \in Items}

EvidenceInit ==
  /\ document = EarlierDocument
  /\ \/ evidence = None /\ audited = {}
     \/ evidence = EarlierEvidence /\ audited = {0} \X Items
  /\ audit = [pc |-> "idle", loaded |-> None, outcome |-> [i \in Items |-> None],
              valid |-> FALSE, validated |-> None, decision |-> None]

-----------------------------------------------------------------------------

\* load_generator_items.
Load ==
  /\ audit.pc = "idle"
  /\ audit' = [audit EXCEPT !.pc = "auditing", !.loaded = document]
  /\ UNCHANGED <<document, evidence, audited>>

\* audit_item.  refused: the item cannot be projected, the answer or the record
\* breaks its contract, or the call failed for a reason that is the agent's;
\* infrastructure: it failed for one that is not (_invocation_failure_kind).
Audit(i) ==
  /\ audit.pc = "auditing"
  /\ i \in audit.loaded.items /\ audit.outcome[i] = None
  /\ \E kind \in Kinds :
       /\ audit' = [audit EXCEPT !.outcome[i] = kind]
       /\ audited' = IF kind = "strong" THEN audited \cup {<<audit.loaded.run, i>>} ELSE audited
  /\ UNCHANGED <<document, evidence>>

\* A weak judgment leaves a record as well; the file is written in any case.
WriteEvidence ==
  /\ audit.pc = "auditing"
  /\ \A i \in audit.loaded.items : audit.outcome[i] # None
  /\ audit' = [audit EXCEPT !.pc = "validator"]
  /\ evidence' = {[item |-> i, run |-> audit.loaded.run, strong |-> audit.outcome[i] = "strong"] :
                    i \in {j \in audit.loaded.items : audit.outcome[j] \in {"strong", "weak"}}}
  /\ UNCHANGED <<document, audited>>

\* Mutant: a record is found by its item_id and not bound to the content.
NamedOnly(doc, records) ==
  /\ records # None
  /\ \A r \in records : r.item \in doc.items
  /\ \A i \in doc.items : \E r \in records : r.item = i /\ r.strong

\* What validate_output.py, the item validator, demands of the evidence.
BoundAndStrong(doc, records) ==
  /\ records # None
  /\ \A r \in records : r.item \in doc.items
  /\ \A i \in doc.items : \E r \in records : r.item = i /\ r.run = doc.run /\ r.strong

Failed(kinds) == \E i \in audit.loaded.items : audit.outcome[i] \in kinds

Decision ==
  IF Failed({"weak", "refused"}) THEN "QUARANTINE"
  ELSE IF Failed({"infrastructure"}) THEN "INFRASTRUCTURE_FAILURE"
  ELSE IF audit.valid THEN "PASS" ELSE "QUARANTINE"

\* The validator, a process of its own, reads both files again; it is only run
\* when no item failed, and has other reasons to refuse.
Validate ==
  /\ audit.pc = "validator"
  /\ \E valid \in BOOLEAN :
       /\ valid => ~ Failed({"weak", "refused", "infrastructure"})
                     /\ BoundAndStrong(document, evidence)
       /\ audit' = [audit EXCEPT !.pc = "result file", !.valid = valid,
                                  !.validated = IF valid THEN document ELSE None]
  /\ UNCHANGED <<document, evidence, audited>>

WriteAuditResult ==
  /\ audit.pc = "result file"
  /\ audit' = [audit EXCEPT !.pc = "ended", !.decision = Decision]
  /\ UNCHANGED <<document, evidence, audited>>

AuditDies ==
  /\ audit.pc # "ended"
  /\ audit' = [audit EXCEPT !.pc = "ended"]
  /\ UNCHANGED <<document, evidence, audited>>

EvidenceNext ==
  \/ Load \/ WriteEvidence \/ Validate \/ WriteAuditResult \/ AuditDies
  \/ \E i \in Items : Audit(i)

-----------------------------------------------------------------------------
(* Properties. *)

\* produce_grammar_evidence says PASS only if every item of the file it last
\* read was found sound at the content it has there, however the file changed
\* since it was loaded; and it asks to be repeated for its infrastructure only
\* if no judgment spoke against an item.
DecisionIsEvidenced ==
  /\ audit.decision = "PASS" =>
       \A i \in audit.validated.items : <<audit.validated.run, i>> \in audited
  /\ audit.decision = "INFRASTRUCTURE_FAILURE" =>
       \A i \in audit.loaded.items : audit.outcome[i] \in {"strong", "infrastructure"}
=============================================================================
