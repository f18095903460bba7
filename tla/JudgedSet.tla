----------------------------- MODULE JudgedSet -----------------------------
(***************************************************************************)
(* What a section pipeline promises of the question set it makes: a set is *)
(* accepted once every judge it needs has approved that very set, and an   *)
(* accepted set never changes.  Only the judges in Ahead may approve parts *)
(* before they are put in; what the others said of a set goes with it.     *)
(***************************************************************************)
CONSTANTS Judges, Ahead, NoSet

VARIABLES
  judges,     \* those this set needs
  set,        \* the set as it would ship, or NoSet
  judged,     \* those who have approved it
  decision    \* "none", "ACCEPT", or anything else

Init ==
  /\ judges \subseteq Judges
  /\ set = NoSet /\ judged = {} /\ decision = "none"

\* The set is made, or a part of it replaced.
Make ==
  /\ decision = "none"
  /\ set' # set
  /\ judged' \subseteq Ahead
  /\ UNCHANGED <<judges, decision>>

Approve ==
  /\ judged \subseteq judged' /\ judged' \subseteq judges
  /\ UNCHANGED <<judges, set, decision>>

\* An acceptance may be withdrawn, but never comes late.
Decide ==
  /\ decision' \notin {"none", decision}
  /\ decision' = "ACCEPT" => decision = "none" /\ judged = judges
  /\ UNCHANGED <<judges, set, judged>>

Next == Make \/ Approve \/ Decide

Spec == Init /\ [][Next]_<<judges, set, judged, decision>>
=============================================================================
