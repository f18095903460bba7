----------------------------- MODULE Finalization -----------------------------
(***************************************************************************)
(* Finalizing one run directory: cmd_finalize of the drivers, the bundle   *)
(* protocol of shared/json_io.py, the manual-review queue, and consumers   *)
(* that validate the bundle while it may be republished.                   *)
(*                                                                         *)
(* The state document is known by its version: a change of any Candidate   *)
(* changes state_snapshot_digest and finalization_id, and no document      *)
(* recurs (the Candidates carry timestamps).  Artifacts and queue entries  *)
(* are known by the version they were built from.  The queue's own lock is *)
(* not modelled: appending is one step, as it is under that lock.          *)
(***************************************************************************)
EXTENDS Naturals, FiniteSets

CONSTANTS
  Finalizers,   \* finalize processes
  Readers,      \* consumers running validate_complete_json_bundle
  Artifacts,    \* provenance, accepted, manual_review, failures
  Items,
  None,
  AppendsQueue, \* TRUE: pilot_driver.py, FALSE: validation_driver.py
  MaxVersion,   \* bound: state documents written
  MaxCrashes    \* bound: processes that die or whose write fails

VARIABLES
  state,     \* the state document
  current,   \* the checked-out pipeline is the one the run manifest names
  lock,      \* exclusive_file_lock(STATE_PATH): the holder, or None
  manifest,  \* the finalization manifest file, or None
  files,     \* artifact |-> version of the published file, or None
  queue,     \* item |-> version of its manual-review entry, or None
  pc,        \* finalizer |-> its next step
  snap,      \* finalizer |-> the document it builds from, or None
  left,      \* finalizer |-> artifacts not yet moved into place
  reader,    \* reader |-> what it has read
  crashes

vars == <<state, current, lock, manifest, files, queue, pc, snap, left, reader, crashes>>

\* terminal: every Candidate is; manual: those in MANUAL_REVIEW; fit: records
\* can be made of it (no Candidate is a legacy one, every record conforms).
Document == [version : Nat, terminal : BOOLEAN, manual : SUBSET Items, fit : BOOLEAN]

\* by stands for started_at, which tells two attempts apart; listed: the
\* manifest names the artifacts and their hashes (it is no longer provisional);
\* manual: manual_review_item_ids.
Manifest == [status : {"IN_PROGRESS", "COMPLETE"}, version : Nat,
             listed : BOOLEAN, by : Finalizers, manual : SUBSET Items]

ASSUME FinalizationAssumption ==
  /\ None \notin Finalizers
  /\ None \notin Nat
  /\ None \notin Manifest
  /\ AppendsQueue \in BOOLEAN
  /\ MaxVersion \in Nat
  /\ MaxCrashes \in Nat

Versions == Nat \cup {None}

HoldsLock == {"publish", "stage", "replace", "append", "complete"}

TypeOK ==
  /\ state \in Document
  /\ current \in BOOLEAN
  /\ lock \in Finalizers \cup {None}
  /\ manifest \in Manifest \cup {None}
  /\ files \in [Artifacts -> Versions]
  /\ queue \in [Items -> Versions]
  /\ pc \in [Finalizers -> {"idle", "build", "recheck"} \cup HoldsLock]
  /\ snap \in [Finalizers -> Document \cup {None}]
  /\ left \in [Finalizers -> SUBSET Artifacts]
  /\ reader \in [Readers -> [left : SUBSET Artifacts, version : Versions,
                             got : [Artifacts -> Versions],
                             verdict : {"reading", "ok", "errors"}]]
  /\ crashes \in Nat

Nothing == [a \in Artifacts |-> None]

Init ==
  /\ state = [version |-> 0, terminal |-> FALSE, manual |-> {}, fit |-> TRUE]
  /\ current = TRUE
  /\ lock = None
  /\ manifest = None
  /\ files = Nothing
  /\ queue = [i \in Items |-> None]
  /\ pc = [p \in Finalizers |-> "idle"]
  /\ snap = [p \in Finalizers |-> None]
  /\ left = [p \in Finalizers |-> {}]
  /\ reader = [r \in Readers |-> [left |-> {}, version |-> None, got |-> Nothing,
                                  verdict |-> "errors"]]
  /\ crashes = 0

-----------------------------------------------------------------------------
(* The state document, written by other commands under the lock. *)

Bundle == <<manifest, files, queue>>
Actors == <<pc, snap, left, reader, crashes>>

WriteState(terminal, manual, fit) ==
  /\ lock = None
  /\ state.version < MaxVersion
  /\ state' = [version |-> state.version + 1, terminal |-> terminal,
               manual |-> manual, fit |-> fit]
  /\ UNCHANGED <<lock, Bundle, Actors>>

\* A stage command, which compares the pipeline only when it starts.  No
\* command changes a document that is all terminal.
StageCommit ==
  /\ ~ state.terminal
  /\ \E terminal, fit \in BOOLEAN, manual \in SUBSET Items :
       WriteState(terminal, manual, fit)
  /\ UNCHANGED current

\* init --force-reset: a new run, of the pipeline as it is, takes the place of
\* the old one.
ForceReset == WriteState(FALSE, {}, TRUE) /\ current' = TRUE

\* Configuration, prompts or schemas are edited, or put back.
EditPipeline ==
  /\ current' = ~ current
  /\ UNCHANGED <<state, lock, Bundle, Actors>>

-----------------------------------------------------------------------------
(* cmd_finalize *)

Goto(p, step) == pc' = [pc EXCEPT ![p] = step]


\* The process ends, in whatever way; the system takes its lock away.
End(p) ==
  /\ Goto(p, "idle")
  /\ snap' = [snap EXCEPT ![p] = None]
  /\ left' = [left EXCEPT ![p] = {}]
  /\ lock' = IF lock = p THEN None ELSE lock

\* The snapshot, taken under the lock; a pipeline that is not the run's is
\* refused, and so is a nonterminal run.
TakeSnapshot(p) ==
  /\ pc[p] = "idle"
  /\ lock = None
  /\ current
  /\ state.terminal
  /\ snap' = [snap EXCEPT ![p] = state]
  /\ Goto(p, "build")
  /\ UNCHANGED <<state, current, lock, Bundle, left, reader, crashes>>

\* The records, built and validated without the lock: one that does not
\* conform raises, and so does a legacy Candidate.
BuildArtifacts(p) ==
  /\ pc[p] = "build"
  /\ IF snap[p].fit THEN Goto(p, "recheck") /\ UNCHANGED <<lock, snap, left>> ELSE End(p)
  /\ UNCHANGED <<state, current, Bundle, reader, crashes>>

\* Mutants: the snapshot is not compared; it is, but the lock is not kept.
NoRecheck(p) ==
  /\ pc[p] = "recheck"
  /\ lock = None
  /\ lock' = p
  /\ Goto(p, "publish")
  /\ UNCHANGED <<state, current, Bundle, snap, left, reader, crashes>>

RecheckUnlocked(p) ==
  /\ pc[p] = "recheck"
  /\ lock = None
  /\ IF state = snap[p] /\ current
     THEN Goto(p, "publish") /\ UNCHANGED <<lock, snap, left>>
     ELSE End(p)
  /\ UNCHANGED <<state, current, Bundle, reader, crashes>>

\* The lock is taken again, and the snapshot and the pipeline are compared
\* with what is there now.
Recheck(p) ==
  /\ pc[p] = "recheck"
  /\ lock = None
  /\ IF state = snap[p] /\ current
     THEN lock' = p /\ Goto(p, "publish") /\ UNCHANGED <<snap, left>>
     ELSE End(p)
  /\ UNCHANGED <<state, current, Bundle, reader, crashes>>

OwnManifest(p, status, listed) ==
  [status |-> status, version |-> snap[p].version, listed |-> listed,
   by |-> p, manual |-> snap[p].manual]

\* Mutant: a status that no reader knows.
UnknownStatus(p) ==
  /\ pc[p] = "publish"
  /\ manifest' = OwnManifest(p, "PROVISIONAL", FALSE)
  /\ Goto(p, "stage")
  /\ UNCHANGED <<state, current, lock, files, queue, snap, left, reader, crashes>>

\* publish_json_bundle: a provisional manifest withdraws the old marker.
WriteProvisional(p) ==
  /\ pc[p] = "publish"
  /\ manifest' = OwnManifest(p, "IN_PROGRESS", FALSE)
  /\ Goto(p, "stage")
  /\ UNCHANGED <<state, current, lock, files, queue, snap, left, reader, crashes>>

\* Mutant: the marker is set before the artifacts are in place.
MarkerFirst(p) ==
  /\ pc[p] = "stage"
  /\ manifest' = OwnManifest(p, "COMPLETE", TRUE)
  /\ left' = [left EXCEPT ![p] = Artifacts]
  /\ Goto(p, "replace")
  /\ UNCHANGED <<state, current, lock, files, queue, snap, reader, crashes>>

\* Every artifact is written and hashed in a private directory, then listed.
WriteListed(p) ==
  /\ pc[p] = "stage"
  /\ manifest' = OwnManifest(p, "IN_PROGRESS", TRUE)
  /\ left' = [left EXCEPT ![p] = Artifacts]
  /\ Goto(p, "replace")
  /\ UNCHANGED <<state, current, lock, files, queue, snap, reader, crashes>>

ReplaceArtifact(p) ==
  /\ pc[p] = "replace"
  /\ \E a \in left[p] :
       /\ files' = [files EXCEPT ![a] = snap[p].version]
       /\ left' = [left EXCEPT ![p] = @ \ {a}]
       /\ Goto(p, IF left[p] = {a} THEN "append" ELSE "replace")
  /\ UNCHANGED <<state, current, lock, manifest, queue, snap, reader, crashes>>

\* Mutant: an item that is already queued keeps its old entry.
FirstEntryStays(p) ==
  [i \in Items |-> IF AppendsQueue /\ i \in snap[p].manual /\ queue[i] = None
                   THEN snap[p].version ELSE queue[i]]

\* append_manual_review_queue: an entry replaces the item's earlier one.
Appended(p) ==
  [i \in Items |-> IF AppendsQueue /\ i \in snap[p].manual
                   THEN snap[p].version ELSE queue[i]]

AppendQueue(p) ==
  /\ pc[p] = "append"
  /\ queue' = Appended(p)
  /\ Goto(p, "complete")
  /\ UNCHANGED <<state, current, lock, manifest, files, snap, left, reader, crashes>>

\* complete_json_bundle raises unless manifest and files are what was published.
Verified(p) ==
  /\ manifest = OwnManifest(p, "IN_PROGRESS", TRUE)
  /\ \A a \in Artifacts : files[a] = snap[p].version

Complete(p) ==
  /\ pc[p] = "complete"
  /\ manifest' = IF Verified(p) THEN OwnManifest(p, "COMPLETE", TRUE) ELSE manifest
  /\ End(p)
  /\ UNCHANGED <<state, current, files, queue, reader, crashes>>

\* The process dies, or a write raises: the lock goes, the files stay.
Crash(p) ==
  /\ pc[p] # "idle"
  /\ crashes < MaxCrashes
  /\ crashes' = crashes + 1
  /\ End(p)
  /\ UNCHANGED <<state, current, Bundle, reader>>

Finalize(p) ==
  \/ TakeSnapshot(p) \/ BuildArtifacts(p) \/ Recheck(p)
  \/ WriteProvisional(p) \/ WriteListed(p) \/ ReplaceArtifact(p)
  \/ AppendQueue(p) \/ Complete(p)

-----------------------------------------------------------------------------
(* validate_complete_json_bundle, which takes no lock. *)

\* Mutant: the reader does not look at the marker.
MarkerIgnored(r) ==
  /\ reader[r].verdict # "reading"
  /\ reader' = [reader EXCEPT ![r] =
       IF manifest # None /\ manifest.listed
       THEN [left |-> Artifacts, version |-> manifest.version, got |-> Nothing,
             verdict |-> "reading"]
       ELSE [left |-> {}, version |-> None, got |-> Nothing, verdict |-> "errors"]]
  /\ UNCHANGED <<state, current, lock, Bundle, pc, snap, left, crashes>>

ReadManifest(r) ==
  /\ reader[r].verdict # "reading"
  /\ reader' = [reader EXCEPT ![r] =
       IF manifest # None /\ manifest.status = "COMPLETE" /\ manifest.listed
       THEN [left |-> Artifacts, version |-> manifest.version, got |-> Nothing,
             verdict |-> "reading"]
       ELSE [left |-> {}, version |-> None, got |-> Nothing, verdict |-> "errors"]]
  /\ UNCHANGED <<state, current, lock, Bundle, pc, snap, left, crashes>>

\* The verdict on one more file, in any order; the errors are collected.
Judge(seen, version, more) ==
  IF more THEN "reading"
  ELSE IF \A a \in Artifacts : seen[a] = version THEN "ok" ELSE "errors"

ReadFile(r) ==
  /\ reader[r].verdict = "reading"
  /\ \E a \in reader[r].left :
       LET seen == [reader[r].got EXCEPT ![a] = files[a]]
           rest == reader[r].left \ {a}
       IN  reader' = [reader EXCEPT ![r] =
             [left |-> rest, version |-> reader[r].version, got |-> seen,
              verdict |-> Judge(seen, reader[r].version, rest # {})]]
  /\ UNCHANGED <<state, current, lock, Bundle, pc, snap, left, crashes>>

Next ==
  \/ StageCommit \/ ForceReset \/ EditPipeline
  \/ \E p \in Finalizers : Finalize(p) \/ Crash(p)
  \/ \E r \in Readers : ReadManifest(r) \/ ReadFile(r)

Spec == Init /\ [][Next]_vars

\* A started finalize runs on, and the operator starts it again.
FairSpec == Spec /\ \A p \in Finalizers : WF_vars(Finalize(p))

-----------------------------------------------------------------------------
(* Properties. *)

Completed == manifest # None /\ manifest.status = "COMPLETE"

\* The marker never vouches for a mixed bundle: under COMPLETE all artifacts
\* are there and come from the one snapshot the manifest names, whatever
\* crashed in between (json_io.py: "never a marker that vouches for a partial
\* new generation").
CompleteMeansWhole ==
  Completed => \A a \in Artifacts : files[a] = manifest.version

\* A consumer that validates file by file and without the lock, while the
\* bundle may be republished, is right both ways: it accepts one generation
\* only, and while the marker it started from stands it meets no mismatch.
ReaderVerdictExact ==
  \A r \in Readers :
    LET v == reader[r].version
        checked == Artifacts \ reader[r].left
    IN  /\ reader[r].verdict = "ok" => \A a \in Artifacts : reader[r].got[a] = v
        /\ Completed /\ manifest.version = v => \A a \in checked : reader[r].got[a] = v

\* A bundle is completed only for the state document as it is at that moment,
\* although it was built without the lock, and only if its records conform.
CompletesCurrentState ==
  [][ Completed' /\ manifest' # manifest =>
        state.terminal /\ state.fit /\ manifest'.version = state.version ]_vars

\* A completed run has every one of its MANUAL_REVIEW items on the queue, by
\* this run's entry or a later one (PIPELINE.md 10.1; section 8: all such
\* routes end in a human decision).
QueueHoldsManual ==
  Completed =>
    \A i \in manifest.manual : queue[i] # None /\ queue[i] >= manifest.version

\* De-duplicating the queue by item_id never loses an item, nor lets an older
\* snapshot's entry replace a newer one.
QueueNeverRegresses ==
  [][ \A i \in Items : queue[i] # None => queue'[i] # None /\ queue'[i] >= queue[i] ]_vars


\* The bundle implements AtomicBundle.
Promise == INSTANCE AtomicBundle WITH visible <- IF Completed THEN files ELSE None
BundleIsAtomic == Promise!Spec
=============================================================================
