------------------------------- MODULE AgentCall -------------------------------
(***************************************************************************)
(* What one AgentRuntime.invoke promises its callers (the live harness and *)
(* the Reading, Structure and evidence pipelines): the agent is started    *)
(* once at most, nothing is reported while it is waited for, and an answer *)
(* needs a process that returned zero in time, however much a late or a    *)
(* broken one has written.  If the request brings a freeze guard, the      *)
(* agent runs only after the check before, an answer needs the check after *)
(* passed, and a call that was let in is checked again before it reports   *)
(* anything.                                                               *)
(***************************************************************************)
VARIABLES
  guarded,  \* the request brings a freeze guard
  agent,    \* the agent's process: "none", "running", then how it came back
  bracket,  \* the freeze checks: "none", "open", "passed" or "drifted"
  outcome   \* "none", "answered" or "failed"

vars == <<guarded, agent, bracket, outcome>>

Init ==
  /\ guarded \in BOOLEAN
  /\ agent = "none"
  /\ bracket = "none"
  /\ outcome = "none"

\* The check before passed.
Open ==
  /\ guarded /\ bracket = "none" /\ agent = "none" /\ outcome = "none"
  /\ bracket' = "open"
  /\ UNCHANGED <<guarded, agent, outcome>>

Start ==
  /\ agent = "none" /\ outcome = "none"
  /\ guarded => bracket = "open"
  /\ agent' = "running"
  /\ UNCHANGED <<guarded, bracket, outcome>>

\* It returns zero or breaks, or its time is over.
Return ==
  /\ agent = "running"
  /\ agent' \in {"returned", "broken", "expired"}
  /\ UNCHANGED <<guarded, bracket, outcome>>

\* The check after was made.
Close ==
  /\ bracket = "open" /\ agent # "running"
  /\ bracket' \in {"passed", "drifted"}
  /\ UNCHANGED <<guarded, agent, outcome>>

Answer ==
  /\ outcome = "none" /\ agent = "returned"
  /\ guarded => bracket = "passed"
  /\ outcome' = "answered"
  /\ UNCHANGED <<guarded, agent, bracket>>

Fail ==
  /\ outcome = "none" /\ agent # "running" /\ bracket # "open"
  /\ outcome' = "failed"
  /\ UNCHANGED <<guarded, agent, bracket>>

Next == Open \/ Start \/ Return \/ Close \/ Answer \/ Fail

Spec == Init /\ [][Next]_vars
=============================================================================
