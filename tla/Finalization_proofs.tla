-------------------------- MODULE Finalization_proofs --------------------------
(***************************************************************************)
(* Theorems about finalization, for any number of finalizers, readers,     *)
(* artifacts, items, versions and crashes.                                 *)
(*                                                                         *)
(* CompleteMeansWhole is not inductive: it holds after a ReplaceArtifact   *)
(* only because the marker is withdrawn at that point, and after Complete  *)
(* only because nobody else touched the files.  Inv adds what the lock     *)
(* and the order of the writes guarantee.                                  *)
(***************************************************************************)
EXTENDS Finalization, TLAPS

\* Exactly the process in a locked step holds the lock, and what it builds
\* from is the terminal document as it still is, whose records conform.
Exclusion ==
  \A p \in Finalizers :
    /\ pc[p] \in HoldsLock <=> lock = p
    /\ pc[p] # "idle" => snap[p] \in Document /\ snap[p].terminal
    /\ pc[p] \in {"recheck"} \cup HoldsLock => snap[p].fit
    /\ pc[p] \in HoldsLock => snap[p] = state

\* From its first write on, the marker is withdrawn; from the listing on it
\* is the process's own; and the artifacts not left are in place.
Progress ==
  \A p \in Finalizers :
    /\ pc[p] = "stage" => ~ Completed
    /\ pc[p] \in {"replace", "append", "complete"} =>
         manifest = OwnManifest(p, "IN_PROGRESS", TRUE)
    /\ pc[p] = "replace" =>
         \A a \in Artifacts \ left[p] : files[a] = snap[p].version
    /\ pc[p] \in {"append", "complete"} =>
         \A a \in Artifacts : files[a] = snap[p].version
    /\ pc[p] = "complete" /\ AppendsQueue =>
         \A i \in snap[p].manual : queue[i] = snap[p].version

\* No entry comes from the future.
QueueBound == \A i \in Items : queue[i] # None => queue[i] <= state.version

Inv == TypeOK /\ Exclusion /\ Progress /\ QueueBound

-----------------------------------------------------------------------------
(* The invariant, step by step. *)

LEMMA OwnManifestType ==
  ASSUME NEW p \in Finalizers, snap[p] \in Document,
         NEW s \in {"IN_PROGRESS", "COMPLETE"}, NEW l \in BOOLEAN
  PROVE  /\ OwnManifest(p, s, l) \in Manifest
         /\ OwnManifest(p, s, l).status = s
         /\ OwnManifest(p, s, l).version = snap[p].version
         /\ OwnManifest(p, s, l).manual = snap[p].manual
BY DEF OwnManifest, Manifest, Document

LEMMA InitInv == Init => Inv
<1> SUFFICES ASSUME Init PROVE Inv
  OBVIOUS
<1>1. TypeOK
  BY FinalizationAssumption DEF Init, TypeOK, Document, Versions, Nothing, HoldsLock
<1>2. Exclusion /\ Progress /\ QueueBound
  BY FinalizationAssumption DEF Init, Exclusion, Progress, QueueBound, HoldsLock
<1> QED BY <1>1, <1>2 DEF Inv

LEMMA WriteStateInv ==
  ASSUME Inv, NEW terminal \in BOOLEAN, NEW manual \in SUBSET Items,
         NEW fit \in BOOLEAN, current' \in BOOLEAN, WriteState(terminal, manual, fit)
  PROVE  Inv'
<1> USE DEF Inv, WriteState, Bundle, Actors
<1>1. TypeOK'
  BY DEF TypeOK, Document
<1>2. Exclusion'
  BY FinalizationAssumption DEF Exclusion
<1>3. Progress'
  BY DEF Progress, Completed, OwnManifest
<1>4. QueueBound'
  BY DEF QueueBound, TypeOK, Document, Versions
<1> QED BY <1>1, <1>2, <1>3, <1>4

LEMMA TakeSnapshotInv ==
  ASSUME Inv, NEW p \in Finalizers, TakeSnapshot(p)
  PROVE  Inv'
<1> USE DEF Inv, TakeSnapshot, Bundle, Goto
<1>1. TypeOK'
  BY DEF TypeOK
<1>2. Exclusion'
  BY FinalizationAssumption DEF Exclusion, TypeOK, HoldsLock
<1>3. Progress'
  BY DEF Progress, Completed, OwnManifest, TypeOK
<1>4. QueueBound'
  BY DEF QueueBound
<1> QED BY <1>1, <1>2, <1>3, <1>4

\* Whoever ends gives up the lock, and leaves the others' claims alone.
LEMMA EndInv ==
  ASSUME Inv, NEW p \in Finalizers, End(p), UNCHANGED <<state, current, files, queue>>,
         manifest' \in Manifest \cup {None}, reader' = reader, crashes' \in Nat,
         lock # p => manifest' = manifest
  PROVE  Inv'
<1> USE DEF Inv, End, Goto
<1>1. TypeOK'
  BY FinalizationAssumption DEF TypeOK
<1>2. Exclusion'
  BY FinalizationAssumption DEF Exclusion, TypeOK, HoldsLock
<1>3. Progress'
  <2> SUFFICES ASSUME NEW q \in Finalizers, pc'[q] \in HoldsLock
               PROVE  q # p /\ lock = q /\ manifest' = manifest
                      /\ pc'[q] = pc[q] /\ snap'[q] = snap[q] /\ left'[q] = left[q]
    BY DEF Progress, Completed, OwnManifest, HoldsLock
  <2>1. q # p
    BY DEF TypeOK, HoldsLock
  <2>2. pc'[q] = pc[q] /\ snap'[q] = snap[q] /\ left'[q] = left[q]
    BY <2>1 DEF TypeOK
  <2>3. lock = q
    BY <2>2 DEF Exclusion
  <2> QED BY <2>1, <2>2, <2>3
<1>4. QueueBound'
  BY DEF QueueBound
<1> QED BY <1>1, <1>2, <1>3, <1>4

LEMMA BuildArtifactsInv ==
  ASSUME Inv, NEW p \in Finalizers, BuildArtifacts(p)
  PROVE  Inv'
<1>1. CASE snap[p].fit
  <2> USE <1>1 DEF Inv, BuildArtifacts, Bundle, Goto
  <2>1. TypeOK'
    BY DEF TypeOK
  <2>2. Exclusion'
    BY FinalizationAssumption DEF Exclusion, TypeOK, HoldsLock
  <2>3. Progress'
    BY DEF Progress, Completed, OwnManifest, TypeOK
  <2>4. QueueBound'
    BY DEF QueueBound
  <2> QED BY <2>1, <2>2, <2>3, <2>4
<1>2. CASE ~ snap[p].fit
  BY <1>2, EndInv DEF BuildArtifacts, Bundle, Inv, TypeOK
<1> QED BY <1>1, <1>2

LEMMA RecheckInv ==
  ASSUME Inv, NEW p \in Finalizers, Recheck(p)
  PROVE  Inv'
<1>1. CASE state = snap[p] /\ current
  <2> USE <1>1 DEF Inv, Recheck, Bundle, Goto
  <2>1. TypeOK'
    BY DEF TypeOK, HoldsLock
  <2>2. Exclusion'
    BY FinalizationAssumption DEF Exclusion, TypeOK, HoldsLock
  <2>3. Progress'
    BY DEF Progress, Completed, OwnManifest, TypeOK
  <2>4. QueueBound'
    BY DEF QueueBound
  <2> QED BY <2>1, <2>2, <2>3, <2>4
<1>2. CASE ~ (state = snap[p] /\ current)
  BY <1>2, EndInv DEF Recheck, Bundle, Inv, TypeOK
<1> QED BY <1>1, <1>2

\* A step of the lock holder: the others are not in a locked step.
LEMMA OthersWait ==
  ASSUME Inv, NEW p \in Finalizers, pc[p] \in HoldsLock, NEW step,
         pc' = [pc EXCEPT ![p] = step]
  PROVE  /\ lock = p
         /\ snap[p] \in Document
         /\ snap[p] = state
         /\ pc'[p] = step
         /\ \A q \in Finalizers : q # p => pc'[q] = pc[q] /\ pc[q] \notin HoldsLock
BY DEF Inv, Exclusion, TypeOK, HoldsLock

LEMMA WriteProvisionalInv ==
  ASSUME Inv, NEW p \in Finalizers, WriteProvisional(p)
  PROVE  Inv'
<1> USE DEF WriteProvisional, Goto
<1>0. pc[p] \in HoldsLock
  BY DEF HoldsLock
<1>1. /\ lock = p /\ snap[p] \in Document /\ snap[p] = state /\ pc'[p] = "stage"
      /\ \A q \in Finalizers : q # p => pc'[q] = pc[q] /\ pc[q] \notin HoldsLock
  BY <1>0, OthersWait
<1>2. manifest' \in Manifest /\ manifest'.status = "IN_PROGRESS"
  BY <1>1, OwnManifestType
<1>3. TypeOK'
  BY <1>2 DEF Inv, TypeOK, HoldsLock
<1>4. Exclusion'
  BY <1>1 DEF Inv, Exclusion, HoldsLock
<1>5. Progress'
  BY <1>1, <1>2 DEF Progress, Completed, HoldsLock
<1>6. QueueBound'
  BY DEF Inv, QueueBound
<1> QED BY <1>3, <1>4, <1>5, <1>6 DEF Inv

LEMMA WriteListedInv ==
  ASSUME Inv, NEW p \in Finalizers, WriteListed(p)
  PROVE  Inv'
<1> USE DEF WriteListed, Goto
<1>0. pc[p] \in HoldsLock
  BY DEF HoldsLock
<1>1. /\ lock = p /\ snap[p] \in Document /\ snap[p] = state /\ pc'[p] = "replace"
      /\ \A q \in Finalizers : q # p => pc'[q] = pc[q] /\ pc[q] \notin HoldsLock
  BY <1>0, OthersWait
<1>2. manifest' \in Manifest
  BY <1>1, OwnManifestType
<1>3. TypeOK'
  BY <1>2 DEF Inv, TypeOK, HoldsLock
<1>4. Exclusion'
  BY <1>1 DEF Inv, Exclusion, HoldsLock
<1>5. Progress'
  <2>1. left'[p] = Artifacts
    BY DEF Inv, TypeOK
  <2> QED BY <1>1, <2>1 DEF Progress, Completed, HoldsLock, OwnManifest
<1>6. QueueBound'
  BY DEF Inv, QueueBound
<1> QED BY <1>3, <1>4, <1>5, <1>6 DEF Inv

LEMMA ReplaceArtifactInv ==
  ASSUME Inv, NEW p \in Finalizers, ReplaceArtifact(p)
  PROVE  Inv'
<1>0. PICK a \in left[p] :
        /\ files' = [files EXCEPT ![a] = snap[p].version]
        /\ left' = [left EXCEPT ![p] = @ \ {a}]
        /\ pc' = [pc EXCEPT ![p] = IF left[p] = {a} THEN "append" ELSE "replace"]
  BY DEF ReplaceArtifact, Goto
<1> DEFINE step == IF left[p] = {a} THEN "append" ELSE "replace"
<1>1. /\ lock = p /\ snap[p] \in Document /\ snap[p] = state /\ pc'[p] = step
      /\ \A q \in Finalizers : q # p => pc'[q] = pc[q] /\ pc[q] \notin HoldsLock
  BY <1>0, OthersWait DEF ReplaceArtifact, HoldsLock
<1>2. UNCHANGED <<state, current, lock, manifest, queue, snap, reader, crashes>> /\ pc[p] = "replace"
  BY DEF ReplaceArtifact
<1>3. TypeOK'
  BY <1>0, <1>1, <1>2 DEF Inv, TypeOK, HoldsLock, Document, Versions
<1>4. Exclusion'
  BY <1>1, <1>2 DEF Inv, Exclusion, HoldsLock
<1>5. \A b \in Artifacts \ left'[p] : files'[b] = snap[p].version
  BY <1>0, <1>2 DEF Inv, Progress, TypeOK
<1>6. Progress'
  <2>1. manifest' = OwnManifest(p, "IN_PROGRESS", TRUE)'
    BY <1>2 DEF Inv, Progress, OwnManifest
  <2>2. step = "append" => left'[p] = {}
    BY <1>0 DEF Inv, TypeOK
  <2> QED BY <1>1, <1>2, <1>5, <2>1, <2>2 DEF Progress, HoldsLock
<1>7. QueueBound'
  BY <1>2 DEF Inv, QueueBound
<1> QED BY <1>3, <1>4, <1>6, <1>7 DEF Inv

LEMMA AppendQueueInv ==
  ASSUME Inv, NEW p \in Finalizers, AppendQueue(p)
  PROVE  Inv'
<1> USE DEF AppendQueue, Goto
<1>1. /\ lock = p /\ snap[p] \in Document /\ snap[p] = state /\ pc'[p] = "complete"
      /\ \A q \in Finalizers : q # p => pc'[q] = pc[q] /\ pc[q] \notin HoldsLock
  BY OthersWait DEF HoldsLock
<1>2. \A i \in Items : queue'[i] \in {queue[i], snap[p].version}
  BY DEF Appended
<1>3. TypeOK'
  <2>1. queue' \in [Items -> Versions]
    BY <1>1, <1>2 DEF Inv, TypeOK, Appended, Document, Versions
  <2> QED BY <2>1 DEF Inv, TypeOK, HoldsLock
<1>4. Exclusion'
  BY <1>1 DEF Inv, Exclusion, HoldsLock
<1>5. Progress'
  <2>1. manifest' = OwnManifest(p, "IN_PROGRESS", TRUE)'
    BY DEF Inv, Progress, OwnManifest
  <2>2. \A a \in Artifacts : files'[a] = snap[p].version
    BY DEF Inv, Progress
  <2>3. AppendsQueue => \A i \in snap[p].manual : queue'[i] = snap[p].version
    BY <1>1 DEF Appended, Document
  <2> QED BY <1>1, <2>1, <2>2, <2>3 DEF Progress, HoldsLock
<1>6. QueueBound'
  BY <1>1, <1>2 DEF Inv, QueueBound, TypeOK, Document
<1> QED BY <1>3, <1>4, <1>5, <1>6 DEF Inv

LEMMA CompleteInv ==
  ASSUME Inv, NEW p \in Finalizers, Complete(p)
  PROVE  Inv'
<1>1. lock = p /\ snap[p] \in Document
  BY DEF Inv, Exclusion, Complete, HoldsLock
<1>2. manifest' \in Manifest \cup {None}
  BY <1>1, OwnManifestType DEF Complete, Inv, TypeOK
<1> QED BY <1>1, <1>2, EndInv DEF Complete, Inv, TypeOK

LEMMA ReaderInv ==
  ASSUME Inv, NEW r \in Readers, ReadManifest(r) \/ ReadFile(r)
  PROVE  Inv'
<1>1. UNCHANGED <<state, current, lock, Bundle, pc, snap, left, crashes>>
  BY DEF ReadManifest, ReadFile
<1> DEFINE R == [left : SUBSET Artifacts, version : Versions, got : [Artifacts -> Versions],
                 verdict : {"reading", "ok", "errors"}]
<1>2. reader' \in [Readers -> R]
  <2>1. reader \in [Readers -> R] /\ files \in [Artifacts -> Versions]
        /\ manifest \in Manifest \cup {None}
    BY DEF Inv, TypeOK
  <2>2. CASE ReadManifest(r)
    <3>1. manifest # None => manifest.version \in Versions
      BY <2>1 DEF Manifest, Versions
    <3>2. Nothing \in [Artifacts -> Versions] /\ None \in Versions
      BY DEF Nothing, Versions
    <3> QED BY <2>1, <2>2, <3>1, <3>2 DEF ReadManifest
  <2>3. CASE ReadFile(r)
    <3> DEFINE seen(a) == [reader[r].got EXCEPT ![a] = files[a]]
               rest(a) == reader[r].left \ {a}
               verdict(a) == Judge(seen(a), reader[r].version, rest(a) # {})
               new(a) == [left |-> rest(a), version |-> reader[r].version,
                          got |-> seen(a), verdict |-> verdict(a)]
    <3>1. PICK a \in reader[r].left : reader' = [reader EXCEPT ![r] = new(a)]
      BY <2>3 DEF ReadFile
    <3>2. reader[r] \in R /\ a \in Artifacts
      BY <2>1
    <3>3. rest(a) \in SUBSET Artifacts /\ seen(a) \in [Artifacts -> Versions]
      BY <2>1, <3>2
    <3>4. verdict(a) \in {"reading", "ok", "errors"}
      BY DEF Judge
    <3>5. new(a) \in R
      <4> HIDE DEF seen, rest, verdict
      <4> QED BY <3>2, <3>3, <3>4
    <3> HIDE DEF new
    <3> QED BY <2>1, <3>1, <3>5
  <2> QED BY <2>2, <2>3
<1>3. TypeOK'
  BY <1>1, <1>2 DEF Inv, TypeOK, Bundle
<1>4. Exclusion' /\ QueueBound'
  BY <1>1 DEF Inv, Exclusion, QueueBound, Bundle
<1>5. Progress'
  BY <1>1 DEF Inv, Progress, Completed, OwnManifest, Bundle
<1> QED BY <1>3, <1>4, <1>5 DEF Inv

LEMMA StepInv == Inv /\ [Next]_vars => Inv'
<1> SUFFICES ASSUME Inv, [Next]_vars PROVE Inv'
  OBVIOUS
<1>1. CASE StageCommit
  BY <1>1, WriteStateInv DEF StageCommit, Inv, TypeOK
<1>2. CASE ForceReset
  BY <1>2, WriteStateInv DEF ForceReset
<1>7. CASE EditPipeline
  <2> USE <1>7 DEF EditPipeline, Bundle, Actors
  <2>1. TypeOK' /\ Exclusion' /\ QueueBound'
    BY DEF Inv, TypeOK, Exclusion, QueueBound
  <2>2. Progress'
    BY DEF Inv, Progress, Completed, OwnManifest
  <2> QED BY <2>1, <2>2 DEF Inv
<1>3. ASSUME NEW p \in Finalizers, Finalize(p) PROVE Inv'
  BY <1>3, TakeSnapshotInv, BuildArtifactsInv, RecheckInv, WriteProvisionalInv, WriteListedInv,
     ReplaceArtifactInv, AppendQueueInv, CompleteInv DEF Finalize
<1>4. ASSUME NEW p \in Finalizers, Crash(p) PROVE Inv'
  <2>1. crashes' \in Nat
    BY <1>4 DEF Crash, Inv, TypeOK
  <2>2. manifest' \in Manifest \cup {None}
    BY <1>4 DEF Crash, Bundle, Inv, TypeOK
  <2> QED BY <1>4, <2>1, <2>2, EndInv DEF Crash, Bundle
<1>5. ASSUME NEW r \in Readers, ReadManifest(r) \/ ReadFile(r) PROVE Inv'
  BY <1>5, ReaderInv
<1>6. CASE UNCHANGED vars
  <2> USE <1>6 DEF vars
  <2>1. TypeOK' /\ Exclusion' /\ QueueBound'
    BY DEF Inv, TypeOK, Exclusion, QueueBound
  <2>2. Progress'
    BY DEF Inv, Progress, Completed, OwnManifest
  <2> QED BY <2>1, <2>2 DEF Inv
<1> QED BY <1>1, <1>2, <1>3, <1>4, <1>5, <1>6, <1>7 DEF Next

\* The inductive invariant of finalization: who holds the lock and what the
\* holder's writes have reached (cmd_finalize and publish_json_bundle).
THEOREM FinalizationInv == Spec => []Inv
BY InitInv, StepInv, PTL DEF Spec

\* Every variable keeps its type, whoever runs, reads or crashes.
THEOREM FinalizationType == Spec => []TypeOK
<1>1. Inv => TypeOK
  BY DEF Inv
<1> QED BY <1>1, FinalizationInv, PTL

-----------------------------------------------------------------------------
(* What a step does to what a consumer and the operator see. *)

\* The published record changes in one of five ways, and each says how far
\* the process that changes it has come.
Kept == UNCHANGED <<manifest, files, queue>>

Withdrawn == ~ Completed' /\ UNCHANGED <<files, queue>>

Replaced == ~ Completed /\ UNCHANGED <<manifest, queue>>

Queued ==
  /\ ~ Completed
  /\ UNCHANGED <<manifest, files>>
  /\ \A i \in Items : queue'[i] \in {queue[i], state.version}

Published ==
  /\ Completed' /\ ~ Completed
  /\ state.terminal
  /\ state.fit
  /\ manifest'.version = state.version
  /\ \A a \in Artifacts : files[a] = state.version
  /\ AppendsQueue => \A i \in manifest'.manual : queue[i] = state.version
  /\ UNCHANGED <<state, files, queue>>

LEMMA StepEffect ==
  ASSUME Inv, [Next]_vars
  PROVE  Kept \/ Withdrawn \/ Replaced \/ Queued \/ Published
<1>1. CASE StageCommit \/ ForceReset \/ EditPipeline
  BY <1>1 DEF StageCommit, ForceReset, EditPipeline, WriteState, Bundle, Kept
<1>2. ASSUME NEW p \in Finalizers,
             TakeSnapshot(p) \/ BuildArtifacts(p) \/ Recheck(p) \/ Crash(p)
      PROVE  Kept
  BY <1>2 DEF TakeSnapshot, BuildArtifacts, Recheck, Crash, Bundle, Kept
<1>3. ASSUME NEW r \in Readers, ReadManifest(r) \/ ReadFile(r) PROVE Kept
  BY <1>3 DEF ReadManifest, ReadFile, Bundle, Kept
<1>4. ASSUME NEW p \in Finalizers, WriteProvisional(p) \/ WriteListed(p)
      PROVE  Withdrawn
  BY <1>4 DEF WriteProvisional, WriteListed, OwnManifest, Completed, Withdrawn
<1>5. ASSUME NEW p \in Finalizers, ReplaceArtifact(p) PROVE Replaced
  BY <1>5 DEF ReplaceArtifact, Inv, Progress, OwnManifest, Completed, Replaced
<1>6. ASSUME NEW p \in Finalizers, AppendQueue(p) PROVE Queued
  <2>1. manifest = OwnManifest(p, "IN_PROGRESS", TRUE)
    BY <1>6 DEF AppendQueue, Inv, Progress
  <2>2. snap[p] = state
    BY <1>6 DEF AppendQueue, Inv, Exclusion, HoldsLock
  <2> QED BY <1>6, <2>1, <2>2
          DEF AppendQueue, Appended, OwnManifest, Completed, Queued
<1>7. ASSUME NEW p \in Finalizers, Complete(p) PROVE Kept \/ Published
  <2>1. /\ snap[p] = state /\ state.terminal /\ state.fit
        /\ manifest = OwnManifest(p, "IN_PROGRESS", TRUE)
        /\ AppendsQueue => \A i \in snap[p].manual : queue[i] = snap[p].version
    BY <1>7 DEF Complete, Inv, Exclusion, Progress, HoldsLock
  <2>2. CASE ~ Verified(p)
    BY <1>7, <2>2 DEF Complete, Kept
  <2>3. CASE Verified(p)
    <3>1. manifest' = OwnManifest(p, "COMPLETE", TRUE)
      BY <1>7, <2>3 DEF Complete
    <3>2. Completed' /\ ~ Completed
      <4>1. manifest' \in Manifest
        BY <1>7, <3>1, OwnManifestType DEF Complete, Inv, Exclusion, HoldsLock
      <4> QED BY <2>1, <3>1, <4>1, FinalizationAssumption DEF OwnManifest, Completed
    <3> QED BY <1>7, <2>1, <2>3, <3>1, <3>2
            DEF Complete, Verified, OwnManifest, Published
  <2> QED BY <2>2, <2>3
<1>8. CASE UNCHANGED vars
  BY <1>8 DEF vars, Kept
<1> QED BY <1>1, <1>2, <1>3, <1>4, <1>5, <1>6, <1>7, <1>8 DEF Next, Finalize

\* The marker never vouches for a mixed bundle (publish_json_bundle withdraws
\* it before the first os.replace; complete_json_bundle verifies every file).
THEOREM MarkerIsWhole == Spec => []CompleteMeansWhole
<1>1. Init => CompleteMeansWhole
  BY DEF Init, CompleteMeansWhole, Completed
<1>2. Inv /\ CompleteMeansWhole /\ [Next]_vars => CompleteMeansWhole'
  <2> SUFFICES ASSUME Inv, CompleteMeansWhole, [Next]_vars PROVE CompleteMeansWhole'
    OBVIOUS
  <2> USE DEF CompleteMeansWhole
  <2>1. CASE Kept
    BY <2>1 DEF Kept, Completed
  <2>2. CASE Withdrawn
    BY <2>2 DEF Withdrawn
  <2>3. CASE Replaced \/ Queued
    BY <2>3 DEF Replaced, Queued, Completed
  <2>4. CASE Published
    BY <2>4 DEF Published
  <2> QED BY <2>1, <2>2, <2>3, <2>4, StepEffect
<1> QED BY <1>1, <1>2, FinalizationInv, PTL DEF Spec

\* A pilot run marked complete has every one of its MANUAL_REVIEW items on
\* the queue: cmd_finalize appends before complete_json_bundle.
THEOREM ManualItemsQueued == AppendsQueue => (Spec => []QueueHoldsManual)
<1> SUFFICES ASSUME AppendsQueue PROVE Spec => []QueueHoldsManual
  OBVIOUS
<1>1. Init => QueueHoldsManual
  BY DEF Init, QueueHoldsManual, Completed
<1>2. Inv /\ QueueHoldsManual /\ [Next]_vars => QueueHoldsManual'
  <2> SUFFICES ASSUME Inv, QueueHoldsManual, [Next]_vars PROVE QueueHoldsManual'
    OBVIOUS
  <2> USE DEF QueueHoldsManual
  <2>1. CASE Kept
    BY <2>1 DEF Kept, Completed
  <2>2. CASE Withdrawn
    BY <2>2 DEF Withdrawn
  <2>3. CASE Replaced \/ Queued
    BY <2>3 DEF Replaced, Queued, Completed
  <2>4. CASE Published
    BY <2>4, FinalizationAssumption DEF Published, Inv, TypeOK, Document
  <2> QED BY <2>1, <2>2, <2>3, <2>4, StepEffect
<1> QED BY <1>1, <1>2, FinalizationInv, PTL DEF Spec

\* What is completed is the state document as it is at that moment: the
\* re-check under the lock in cmd_finalize is enough.
THEOREM CompletionIsCurrent == Spec => CompletesCurrentState
<1>1. Inv /\ [Next]_vars =>
        [Completed' /\ manifest' # manifest =>
           state.terminal /\ state.fit /\ manifest'.version = state.version]_vars
  BY StepEffect DEF Kept, Withdrawn, Replaced, Queued, Published, Completed
<1> QED BY <1>1, FinalizationInv, PTL DEF Spec, CompletesCurrentState

\* append_manual_review_queue never loses an item, nor lets an older
\* snapshot's entry replace a newer one.
THEOREM QueueIsMonotone == Spec => QueueNeverRegresses
<1>1. Inv /\ [Next]_vars =>
        [\A i \in Items : queue[i] # None => queue'[i] # None /\ queue'[i] >= queue[i]]_vars
  <2> SUFFICES ASSUME Inv, [Next]_vars, NEW i \in Items, queue[i] # None
               PROVE  queue'[i] # None /\ queue'[i] >= queue[i]
    OBVIOUS
  <2>1. queue[i] \in Nat /\ state.version \in Nat /\ queue[i] <= state.version
    BY DEF Inv, TypeOK, Document, Versions, QueueBound
  <2>2. queue'[i] \in {queue[i], state.version}
    BY StepEffect DEF Kept, Withdrawn, Replaced, Queued, Published
  <2> QED BY <2>1, <2>2, FinalizationAssumption
<1> QED BY <1>1, FinalizationInv, PTL DEF Spec, QueueNeverRegresses

-----------------------------------------------------------------------------
(* What a consumer read, without the lock, while others wrote. *)

\* As long as the version a reader started from is the current one, or its
\* marker stands, all files are of that version, and so is what it read.  The
\* version once passed, no marker of it comes back.
Undisturbed(r) ==
  LET v == reader[r].version IN
  v # None =>
    /\ v <= state.version
    /\ v = state.version \/ (Completed /\ manifest.version = v) =>
         /\ \A a \in Artifacts : files[a] = v
         /\ \A a \in Artifacts \ reader[r].left : reader[r].got[a] = v

\* A reader accepts only what it has read to be of one version.
Earned(r) ==
  reader[r].verdict = "ok" => \A a \in Artifacts : reader[r].got[a] = reader[r].version

NotAhead == Completed => manifest.version <= state.version

ReadersInv == CompleteMeansWhole /\ NotAhead /\ \A r \in Readers : Undisturbed(r) /\ Earned(r)

\* Who writes does not read, and the document's version only grows.
LEMMA StepApart ==
  ASSUME Inv, [Next]_vars
  PROVE  /\ reader' = reader \/ (Kept /\ state' = state)
         /\ state'.version = state.version
              \/ (Kept /\ reader' = reader /\ state'.version = state.version + 1)
         /\ Replaced => \A a \in Artifacts : files'[a] \in {files[a], state.version}
<1>1. CASE StageCommit \/ ForceReset \/ EditPipeline
  BY <1>1 DEF StageCommit, ForceReset, EditPipeline, WriteState, Bundle, Actors, Kept
<1>2. ASSUME NEW p \in Finalizers, Finalize(p) \/ Crash(p)
      PROVE  reader' = reader /\ state' = state
  BY <1>2 DEF Finalize, TakeSnapshot, BuildArtifacts, Recheck, Crash, WriteProvisional, WriteListed,
     ReplaceArtifact, AppendQueue, Complete
<1>3. ASSUME NEW p \in Finalizers, Finalize(p) \/ Crash(p), ~ ReplaceArtifact(p)
      PROVE  files' = files
  BY <1>3 DEF Finalize, TakeSnapshot, BuildArtifacts, Recheck, Crash, WriteProvisional, WriteListed,
     AppendQueue, Complete, Bundle
<1>4. ASSUME NEW p \in Finalizers, ReplaceArtifact(p)
      PROVE  \A a \in Artifacts : files'[a] \in {files[a], state.version}
  <2>1. snap[p] = state
    BY <1>4 DEF ReplaceArtifact, Inv, Exclusion, HoldsLock
  <2> QED BY <1>4, <2>1 DEF ReplaceArtifact, Inv, TypeOK
<1>5. ASSUME NEW r \in Readers, ReadManifest(r) \/ ReadFile(r)
      PROVE  Kept /\ state' = state
  BY <1>5 DEF ReadManifest, ReadFile, Bundle, Kept
<1>6. CASE UNCHANGED vars
  BY <1>6 DEF vars
<1> QED
  BY <1>1, <1>2, <1>3, <1>4, <1>5, <1>6 DEF Next, Kept

\* A reader starts, or reads one file more.
LEMMA ReadersRead ==
  ASSUME Inv, ReadersInv, NEW r \in Readers, ReadManifest(r) \/ ReadFile(r)
  PROVE  \A q \in Readers : Undisturbed(q)' /\ Earned(q)'
<1>1. UNCHANGED <<state, manifest, files>>
  BY DEF ReadManifest, ReadFile, Bundle
<1>2. Completed' <=> Completed
  BY <1>1 DEF Completed
<1>3. ASSUME NEW q \in Readers, q # r
      PROVE  Undisturbed(q)' /\ Earned(q)'
  <2>1. reader'[q] = reader[q]
    BY <1>3 DEF ReadManifest, ReadFile, Inv, TypeOK
  <2> QED BY <1>1, <1>2, <2>1 DEF ReadersInv, Undisturbed, Earned
<1>4. CASE ReadManifest(r)
  <2>1. CASE manifest # None /\ manifest.status = "COMPLETE" /\ manifest.listed
    <3>1. /\ reader'[r].left = Artifacts /\ reader'[r].version = manifest.version
          /\ reader'[r].verdict = "reading"
      BY <1>4, <2>1 DEF ReadManifest, Inv, TypeOK
    <3>2. Completed
      BY <2>1 DEF Completed
    <3>3. manifest.version <= state.version /\ \A a \in Artifacts : files[a] = manifest.version
      BY <3>2 DEF ReadersInv, NotAhead, CompleteMeansWhole
    <3>4. Undisturbed(r)'
      BY <1>1, <3>1, <3>3 DEF Undisturbed
    <3>5. Earned(r)'
      BY <3>1 DEF Earned
    <3> QED BY <1>3, <3>4, <3>5
  <2>2. CASE ~ (manifest # None /\ manifest.status = "COMPLETE" /\ manifest.listed)
    <3>1. reader'[r].version = None /\ reader'[r].verdict = "errors"
      BY <1>4, <2>2 DEF ReadManifest, Inv, TypeOK
    <3>2. Undisturbed(r)'
      BY <3>1 DEF Undisturbed
    <3>3. Earned(r)'
      BY <3>1 DEF Earned
    <3> QED BY <1>3, <3>2, <3>3
  <2> QED BY <2>1, <2>2
<1>5. CASE ReadFile(r)
  <2> DEFINE seen(a) == [reader[r].got EXCEPT ![a] = files[a]]
             rest(a) == reader[r].left \ {a}
  <2>1. PICK a \in reader[r].left :
          reader' = [reader EXCEPT ![r] =
            [left |-> rest(a), version |-> reader[r].version, got |-> seen(a),
             verdict |-> Judge(seen(a), reader[r].version, rest(a) # {})]]
    BY <1>5 DEF ReadFile
  <2>2. /\ reader'[r].left = rest(a) /\ reader'[r].version = reader[r].version
        /\ reader'[r].got = seen(a)
        /\ reader'[r].verdict = Judge(seen(a), reader[r].version, rest(a) # {})
    BY <2>1 DEF Inv, TypeOK
  <2>3. /\ a \in Artifacts /\ seen(a)[a] = files[a]
        /\ \A b \in Artifacts \ {a} : seen(a)[b] = reader[r].got[b]
    BY DEF Inv, TypeOK
  <2> HIDE DEF seen
  <2>4. Earned(r)'
    BY <2>2 DEF Earned, Judge
  <2>5. Undisturbed(r)'
    BY <1>1, <1>2, <2>2, <2>3 DEF ReadersInv, Undisturbed
  <2> QED BY <1>3, <2>4, <2>5
<1> QED BY <1>4, <1>5

LEMMA ReadersKeep == Inv /\ ReadersInv /\ CompleteMeansWhole' /\ [Next]_vars => ReadersInv'
<1> SUFFICES ASSUME Inv, ReadersInv, CompleteMeansWhole', [Next]_vars
             PROVE  ReadersInv'
  OBVIOUS
<1>1. /\ state.version \in Nat /\ \A r \in Readers : reader[r].version \in Nat \cup {None}
      /\ Completed => manifest.version \in Nat
  BY DEF Inv, TypeOK, Document, Versions, Completed, Manifest
<1>2. state'.version \in {state.version, state.version + 1}
  BY StepApart
<1>3. NotAhead'
  BY <1>1, <1>2, StepEffect, StepApart
     DEF ReadersInv, NotAhead, Kept, Withdrawn, Replaced, Queued, Published, Completed
<1>4. ASSUME NEW r \in Readers, ReadManifest(r) \/ ReadFile(r)
      PROVE  \A q \in Readers : Undisturbed(q)' /\ Earned(q)'
  BY <1>4, ReadersRead
<1>5. ASSUME reader' = reader, NEW r \in Readers
      PROVE  Undisturbed(r)' /\ Earned(r)'
  <2>1. Earned(r)'
    BY <1>5 DEF ReadersInv, Earned
  <2>2. Undisturbed(r)'
    <3> DEFINE v == reader[r].version
    <3>1. SUFFICES ASSUME v # None
                   PROVE  /\ v <= state'.version
                          /\ v = state'.version \/ (Completed' /\ manifest'.version = v) =>
                               /\ \A a \in Artifacts : files'[a] = v
                               /\ \A a \in Artifacts \ reader[r].left : reader[r].got[a] = v
      BY <1>5 DEF Undisturbed
    <3>2. /\ v \in Nat /\ v <= state.version
          /\ v = state.version \/ (Completed /\ manifest.version = v) =>
               /\ \A a \in Artifacts : files[a] = v
               /\ \A a \in Artifacts \ reader[r].left : reader[r].got[a] = v
      BY <1>1, <3>1 DEF ReadersInv, Undisturbed
    <3> HIDE DEF v
    <3>3. CASE Kept
      BY <1>1, <1>2, <3>2, <3>3 DEF Kept, Completed
    <3>4. CASE ~ Kept
      <4>1. state'.version = state.version
        BY <3>4, StepApart
      <4>2. \A a \in Artifacts : files'[a] \in {files[a], state.version}
        BY <3>4, StepEffect, StepApart DEF Withdrawn, Queued, Published
      <4>3. Completed' /\ manifest'.version = v => v = state.version
        BY <3>4, StepEffect DEF Withdrawn, Replaced, Queued, Published, Completed
      <4> QED BY <3>2, <4>1, <4>2, <4>3
    <3> QED BY <3>3, <3>4
  <2> QED BY <2>1, <2>2
<1>6. \A r \in Readers : Undisturbed(r)' /\ Earned(r)'
  <2>1. CASE reader' = reader
    BY <1>5, <2>1
  <2>2. CASE \E r \in Readers : ReadManifest(r) \/ ReadFile(r)
    BY <1>4, <2>2
  <2>3. CASE StageCommit \/ ForceReset \/ EditPipeline
    BY <2>1, <2>3 DEF StageCommit, ForceReset, EditPipeline, WriteState, Actors
  <2>4. ASSUME NEW p \in Finalizers, Finalize(p) \/ Crash(p)
        PROVE  reader' = reader
    BY <2>4 DEF Finalize, TakeSnapshot, BuildArtifacts, Recheck, Crash, WriteProvisional, WriteListed,
       ReplaceArtifact, AppendQueue, Complete
  <2> QED BY <2>1, <2>2, <2>3, <2>4 DEF Next, vars
<1> QED BY <1>3, <1>6 DEF ReadersInv

\* ReaderVerdictExact: a consumer that validates file by file while the bundle
\* may be republished accepts one generation only, and meets no mismatch while
\* the marker it started from stands, or is put back.
THEOREM VerdictIsExact == Spec => []ReaderVerdictExact
<1>1. Init => ReadersInv
  BY DEF Init, ReadersInv, CompleteMeansWhole, NotAhead, Completed, Undisturbed, Earned
<1>2. ASSUME Inv, ReadersInv
      PROVE  ReaderVerdictExact
  <2> SUFFICES ASSUME NEW r \in Readers, Completed, manifest.version = reader[r].version
               PROVE  \A a \in Artifacts \ reader[r].left : reader[r].got[a] = reader[r].version
    BY <1>2 DEF ReaderVerdictExact, ReadersInv, Earned
  <2>1. reader[r].version # None
    BY <1>2, FinalizationAssumption DEF Inv, TypeOK, Manifest, Completed
  <2> QED BY <1>2, <2>1 DEF ReadersInv, Undisturbed
<1> QED BY <1>1, <1>2, ReadersKeep, MarkerIsWhole, FinalizationInv, PTL DEF Spec

-----------------------------------------------------------------------------
(* Finalization implements AtomicBundle. *)

\* A consumer that honours the marker sees no bundle or a whole one: every
\* step of the protocol withdraws, publishes, or changes nothing visible.
THEOREM ImplementsAtomicBundle == Spec => BundleIsAtomic
<1> DEFINE visible == IF Completed THEN files ELSE None
<1>1. Init => Promise!Init
  BY DEF Init, Promise!Init, Completed
<1>2. Inv /\ [Next]_vars => [Promise!Next]_visible
  <2> SUFFICES ASSUME Inv, [Next]_vars PROVE Promise!Next \/ visible' = visible
    OBVIOUS
  <2>1. CASE Kept
    BY <2>1 DEF Kept, Completed
  <2>2. CASE Withdrawn
    BY <2>2 DEF Withdrawn, Promise!Next, Promise!Withdraw
  <2>3. CASE Replaced \/ Queued
    BY <2>3 DEF Replaced, Queued, Completed
  <2>4. CASE Published
    <3>1. files' = files /\ visible = None /\ visible' = files
      BY <2>4 DEF Published
    <3>2. files \in [Artifacts -> Nat]
      BY <2>4 DEF Published, Inv, TypeOK, Document, Versions
    <3> QED BY <2>4, <3>1, <3>2
            DEF Published, Promise!Next, Promise!Publish, Promise!OneSnapshot
  <2> QED BY <2>1, <2>2, <2>3, <2>4, StepEffect
<1> QED BY <1>1, <1>2, FinalizationInv, PTL DEF Spec, BundleIsAtomic, Promise!Spec
=============================================================================
