----------------------------- MODULE AtomicBundle -----------------------------
(***************************************************************************)
(* What finalization promises a consumer that honours the completion       *)
(* marker (PIPELINE.md section 10.1): the four artifacts of a run are      *)
(* either unavailable, or all there and all of one state snapshot.         *)
(***************************************************************************)
EXTENDS Naturals

CONSTANTS
  Artifacts,  \* provenance, accepted, manual_review, failures
  None        \* nothing to consume

VARIABLE visible  \* the artifacts a consumer may use, by snapshot

OneSnapshot(bundle) ==
  /\ bundle \in [Artifacts -> Nat]
  /\ \A a, b \in Artifacts : bundle[a] = bundle[b]

Init == visible = None

\* The marker is withdrawn before a republication touches any artifact.
Withdraw == visible' = None

Publish == visible = None /\ OneSnapshot(visible')

Next == Withdraw \/ Publish

Spec == Init /\ [][Next]_visible
=============================================================================
