--------------------------- MODULE Invocation_proofs ---------------------------
(***************************************************************************)
(* Theorems about one agent call, for every grace period and kill timeout, *)
(* every request, and whatever the child processes do.                     *)
(*                                                                         *)
(* AgentCall speaks of how a call ends; InStep says what is true at each   *)
(* step of the adapter on the way there: whether the agent was started and *)
(* has come back, and which freeze checks were made.                       *)
(***************************************************************************)
EXTENDS Invocation, TLAPS

BeforeProcess == {"idle", "prepare", "schema", "check", "launch"}

\* Where the freeze checks of this request are between Popen and the check
\* after it, and once that has passed.
Opened == IF req.guarded THEN "open" ELSE "none"
Closed == IF req.guarded THEN "passed" ELSE "none"

\* The leader ended by itself and in time.
CameBack == ~ expired /\ exit # NoCode

InStep ==
  /\ pc \in BeforeProcess =>
       alive = {} /\ exit = NoCode /\ ~ expired /\ error = "none"
       /\ checks = IF pc = "launch" THEN Opened ELSE "none"
  /\ pc = "running" => ~ expired /\ checks = Opened /\ (LeaderRuns \/ exit # NoCode)
  /\ pc \in Cleanup => expired /\ checks = Opened /\ error # "none"
  /\ pc \notin BeforeProcess \cup {"running"} /\ ~ expired => ~ LeaderRuns
  /\ pc = "recheck" => checks = Opened /\ (error = "none" => CameBack)
  /\ pc \in {"complete", "parse"} => checks = Closed /\ error = "none" /\ CameBack
  /\ pc = "parse" => exit = "zero"
  /\ pc \in {"dispose", "finished"} =>
       checks # "open" /\ (error = "none" => CameBack /\ exit = "zero" /\ checks = Closed)

Inv == TypeOK /\ CleanupBounded /\ InStep

\* The next-state relation has one disjunct per step of the adapter; these are
\* they, by what they may change.
BeforeLaunch == Invoke \/ Prepare \/ BuildSchema \/ CheckBefore
CleanupStep == Terminate \/ TerminateJob \/ Wait \/ ForceKill \/ LastWait \/ Report
AfterProcess == CheckAfter \/ Complete \/ Parse \/ Dispose

LEMMA InitInv == Init => Inv
<1> SUFFICES ASSUME Init PROVE Inv
  OBVIOUS
<1>1. TypeOK
  BY DEF Init, TypeOK, Steps, Errors, NoCode
<1>2. CleanupBounded
  BY InvocationAssumption DEF Init, CleanupBounded
<1>3. InStep
  BY DEF Init, InStep, BeforeProcess, Cleanup
<1> QED BY <1>1, <1>2, <1>3 DEF Inv

LEMMA ChildEndsInv == ASSUME Inv, ChildEnds PROVE Inv'
<1>1. PICK q \in alive : alive' = alive \ {q} /\ exit' \in ExitOf(q)
  BY DEF ChildEnds
<1>2. /\ alive' \subseteq alive
      /\ exit' \in {exit, "zero", "nonzero"} /\ (q # "leader" => exit' = exit)
      /\ UNCHANGED <<req, pc, job, spent, methods, error, expired, workspace, checks>>
  BY <1>1 DEF ChildEnds, ExitOf
<1>3. TypeOK' /\ CleanupBounded'
  BY <1>2 DEF Inv, TypeOK, CleanupBounded
<1>4. InStep'
  BY <1>1, <1>2 DEF Inv, InStep, Opened, Closed, CameBack, LeaderRuns, ExitOf, NoCode,
                    BeforeProcess, Cleanup
<1> QED BY <1>3, <1>4 DEF Inv

LEMMA ErrorTypes ==
  /\ \A provider \in {"claude", "codex"} :
       ProcessCategories(provider) \subseteq Errors /\ "none" \notin ProcessCategories(provider)
  /\ {"none", "drift", "exception", "HARNESS_TIMEOUT", "parsing", "infrastructure", "CLI",
      "CODEX_SCHEMA_COMPATIBILITY_ERROR"} \subseteq Errors
BY DEF ProcessCategories, Errors, Categories

LEMMA BeforeLaunchInv == ASSUME Inv, BeforeLaunch PROVE Inv'
<1>1. /\ pc \in BeforeProcess \ {"launch"}
      /\ pc' \in (BeforeProcess \ {"idle"}) \cup {"dispose", "finished"}
      /\ error' \in Errors /\ (error' = "none" <=> pc' \in BeforeProcess)
      /\ workspace' \in {"none", "made", "removed"}
      /\ checks' = IF pc' = "launch" THEN Opened ELSE "none"
      /\ UNCHANGED <<req, alive, job, spent, methods, exit, expired>>
  BY ErrorTypes DEF BeforeLaunch, Invoke, Prepare, BuildSchema, CheckBefore, Step,
                    BeforeProcess, Processes, Clock, Inv, TypeOK, InStep, Opened
<1>2. TypeOK' /\ CleanupBounded'
  BY <1>1 DEF Inv, TypeOK, CleanupBounded, Steps, BeforeProcess, Opened
<1>3. InStep'
  BY <1>1 DEF Inv, InStep, BeforeProcess, Cleanup, Opened, Closed, CameBack, LeaderRuns
<1> QED BY <1>2, <1>3 DEF Inv

LEMMA LaunchInv == ASSUME Inv, Launch PROVE Inv'
<1>1. /\ pc = "launch" /\ error' \in Errors
      /\ \/ pc' = "running" /\ error' = "none" /\ LeaderRuns'
         \/ pc' = "recheck" /\ error' # "none" /\ alive' = alive
      /\ alive' \subseteq Children /\ job' \subseteq Children
      /\ UNCHANGED <<req, exit, spent, methods, expired, workspace, checks>>
  BY ErrorTypes DEF Launch, Step, Clock, Children, launch_failure_category, LeaderRuns, Inv, TypeOK
<1>2. TypeOK' /\ CleanupBounded'
  BY <1>1 DEF Inv, TypeOK, CleanupBounded, Steps
<1>3. InStep'
  BY <1>1 DEF Inv, InStep, BeforeProcess, Cleanup, Opened, Closed, CameBack, LeaderRuns
<1> QED BY <1>2, <1>3 DEF Inv

LEMMA RunningInv == ASSUME Inv, Return \/ Timeout PROVE Inv'
<1>1. /\ pc = "running" /\ error' \in Errors
      /\ \/ pc' = "recheck" /\ expired' = expired /\ ~ LeaderRuns
         \/ pc' = "terminate" /\ expired' = TRUE /\ error' # "none"
      /\ UNCHANGED <<req, alive, job, exit, spent, methods, workspace, checks>>
  BY ErrorTypes DEF Return, Timeout, Step, Clock, Processes, launch_failure_category
<1>2. TypeOK' /\ CleanupBounded'
  BY <1>1 DEF Inv, TypeOK, CleanupBounded, Steps, Cleanup
<1>3. InStep'
  BY <1>1 DEF Inv, InStep, BeforeProcess, Cleanup, Opened, Closed, CameBack, LeaderRuns
<1> QED BY <1>2, <1>3 DEF Inv

\* What a step of the cleanup does: time passes up to the end of the grace
\* period, children end, and the timeout stays the error.
CleanupEffect ==
  /\ pc \in Cleanup /\ pc' \in (Cleanup \ {"terminate"}) \cup {"recheck"} /\ error' = error
  /\ UNCHANGED <<req, job, expired, workspace, checks>>
  /\ alive' \subseteq alive /\ exit' \in {exit, "zero", "nonzero"}
  /\ methods' \subseteq Methods
  /\ spent' \in Nat /\ spent' <= Grace

LEMMA KillsOnlyEnd ==
  ASSUME NEW children, KillSent(children)
  PROVE  alive' \subseteq alive /\ exit' \in {exit, "zero", "nonzero"}
BY DEF KillSent

\* A wait for the time that is left ends by the deadline.
LEMMA WaitIsBounded ==
  ASSUME spent \in Nat, Grace \in Nat, Remaining > 0, WaitEnds(Remaining)
  PROVE  /\ alive' \subseteq alive /\ exit' \in {exit, "zero", "nonzero"}
         /\ spent' \in Nat /\ spent' <= Grace
<1>1. alive' \subseteq alive /\ exit' \in {exit, "zero", "nonzero"}
  BY DEF WaitEnds
<1>2. \/ \E ticks \in 0..Remaining : spent' = spent + ticks
      \/ spent' \in {spent + Remaining, spent + Remaining - 1}
  BY DEF WaitEnds
<1>3. spent' \in Nat /\ spent' <= Grace
  BY ONLY <1>2, spent \in Nat, Grace \in Nat, Remaining > 0 DEF Remaining
<1> QED BY <1>1, <1>3

LEMMA CleanupHasEffect == ASSUME Inv, CleanupStep PROVE CleanupEffect
<1>0. /\ spent \in Nat /\ spent <= Grace /\ Grace \in Nat /\ methods \subseteq Methods
      /\ alive \subseteq Children
  BY InvocationAssumption DEF Inv, TypeOK, CleanupBounded
<1>1. CASE Terminate
  <2>1. CASE ~ LeaderRuns
    BY <1>0, <1>1, <2>1 DEF Terminate, Step, Cleanup, Clock, CleanupEffect
  <2>2. CASE LeaderRuns /\ req.posix
    BY <1>0, <1>1, <2>2 DEF Terminate, Step, Cleanup, Methods, CleanupEffect
  <2>3. CASE LeaderRuns /\ ~ req.posix
    <3>1. Taskkill /\ Step("terminate", "job", error) /\ UNCHANGED <<job, workspace, checks>>
      BY <1>1, <2>3 DEF Terminate
    <3>2. alive' \subseteq alive /\ exit' \in {exit, "zero", "nonzero"}
      BY <3>1, KillsOnlyEnd DEF Taskkill
    <3>3. methods' \subseteq Methods
      BY <1>0, <3>1 DEF Taskkill, Methods
    <3>4. spent' \in Nat /\ spent' <= Grace
      <4>1. PICK ticks \in 0..Remaining : spent' = spent + ticks
        BY <3>1 DEF Taskkill
      <4> QED BY ONLY <1>0, <4>1 DEF Remaining
    <3> QED BY <3>1, <3>2, <3>3, <3>4 DEF Step, Cleanup, CleanupEffect
  <2> QED BY <2>1, <2>2, <2>3
<1>2. CASE TerminateJob
  <2>1. alive' \subseteq alive /\ exit' \in {exit, "zero", "nonzero"}
    BY <1>2, KillsOnlyEnd DEF TerminateJob
  <2>2. methods' \subseteq Methods
    BY <1>0, <1>2 DEF TerminateJob, Methods
  <2> QED BY <1>0, <1>2, <2>1, <2>2 DEF TerminateJob, Step, Cleanup, CleanupEffect
<1>3. CASE Wait \/ LastWait
  <2>1. /\ alive' \subseteq alive /\ exit' \in {exit, "zero", "nonzero"}
        /\ spent' \in Nat /\ spent' <= Grace
    BY <1>0, <1>3, WaitIsBounded DEF Wait, LastWait
  <2> QED BY <1>0, <1>3, <2>1 DEF Wait, LastWait, Step, Cleanup, CleanupEffect
<1>4. CASE ForceKill
  <2>1. alive' \subseteq alive /\ exit' \in {exit, "zero", "nonzero"}
    BY <1>4, KillsOnlyEnd DEF ForceKill
  <2>2. methods' \subseteq Methods
    BY <1>0, <1>4 DEF ForceKill, Methods
  <2> QED BY <1>0, <1>4, <2>1, <2>2 DEF ForceKill, Step, Cleanup, CleanupEffect
<1>5. CASE Report
  <2>1. methods' \subseteq Methods
    BY <1>0, <1>5 DEF Report, Methods
  <2> QED BY <1>0, <1>5, <2>1 DEF Report, Step, Cleanup, Processes, CleanupEffect
<1> QED BY <1>1, <1>2, <1>3, <1>4, <1>5 DEF CleanupStep

LEMMA CleanupInv == ASSUME Inv, CleanupStep PROVE Inv'
<1>1. CleanupEffect
  BY CleanupHasEffect
<1>2. TypeOK' /\ CleanupBounded'
  BY <1>1 DEF CleanupEffect, Inv, TypeOK, CleanupBounded, Steps, Cleanup
<1>3. InStep'
  BY <1>1 DEF CleanupEffect, Inv, InStep, BeforeProcess, Cleanup, Opened, Closed, CameBack,
              LeaderRuns
<1> QED BY <1>2, <1>3 DEF Inv

LEMMA AfterProcessInv == ASSUME Inv, AfterProcess PROVE Inv'
<1>1. /\ pc \in {"recheck", "complete", "parse", "dispose"}
      /\ pc' \in {"complete", "parse", "dispose", "finished"}
      /\ UNCHANGED <<req, alive, job, exit, spent, methods, expired>>
  BY DEF AfterProcess, CheckAfter, Complete, Parse, Dispose, Step, Processes, Clock
<1>2. error' \in Errors
  BY ErrorTypes DEF AfterProcess, CheckAfter, Complete, Parse, Dispose, Step, Inv, TypeOK, Requests
<1>3. checks' \in {"none", "passed", "drifted"}
  BY DEF AfterProcess, CheckAfter, Complete, Parse, Dispose, Step, Inv, TypeOK, InStep, Opened,
         Closed
<1>4. error' = "none" => error = "none" /\ checks' = Closed
  BY ErrorTypes DEF AfterProcess, CheckAfter, Complete, Parse, Dispose, Step, Inv, TypeOK, InStep,
                    Opened, Closed, Requests
<1>5. /\ pc' \in {"complete", "parse"} => error' = "none"
      /\ pc' = "parse" => exit = "zero"
      /\ pc' = "dispose" /\ error' = "none" => pc = "parse"
      /\ pc' = "finished" => pc = "dispose" /\ checks' = checks /\ error' = error
  BY ErrorTypes DEF AfterProcess, CheckAfter, Complete, Parse, Dispose, Step, Inv, TypeOK, InStep,
                    Requests
<1>6. workspace' \in {"none", "made", "removed"}
  BY DEF AfterProcess, CheckAfter, Complete, Parse, Dispose, Inv, TypeOK
<1>7. TypeOK' /\ CleanupBounded'
  BY <1>1, <1>2, <1>3, <1>6 DEF Inv, TypeOK, CleanupBounded, Steps
<1>8. InStep'
  BY <1>1, <1>3, <1>4, <1>5
     DEF Inv, InStep, BeforeProcess, Cleanup, Opened, Closed, CameBack, LeaderRuns
<1> QED BY <1>7, <1>8 DEF Inv

LEMMA StutterInv == ASSUME Inv, UNCHANGED vars PROVE Inv'
BY DEF Inv, vars, TypeOK, CleanupBounded, InStep, Opened, Closed, CameBack, LeaderRuns

THEOREM InvocationInv == Spec => []Inv
<1>1. Inv /\ [Next]_vars => Inv'
  BY ChildEndsInv, BeforeLaunchInv, LaunchInv, RunningInv, CleanupInv, AfterProcessInv, StutterInv
     DEF Next, Adapter, BeforeLaunch, CleanupStep, AfterProcess
<1> QED BY <1>1, InitInv, PTL DEF Spec

\* Type correctness of a call.
THEOREM InvocationType == Spec => []TypeOK
<1>1. Inv => TypeOK
  BY DEF Inv
<1> QED BY <1>1, InvocationInv, PTL

\* The cleanup after a timeout stays within one grace period, whatever the
\* command and the waits before and after the forced kill take of it.
THEOREM CleanupTakesOneGrace == Spec => []CleanupBounded
<1>1. Inv => CleanupBounded
  BY DEF Inv
<1> QED BY <1>1, InvocationInv, PTL

\* Every call is an AgentCall: one start, no answer of a process that was late
\* or broken, and, of a request that brings a freeze guard, none without both
\* checks and no report of a call that was let in without the check after it.
THEOREM ImplementsAgentCall == Spec => IsAgentCall
<1>1. Init => Call!Init
  BY DEF Init, Requests, Call!Init, Agent, Outcome
<1>2. Inv /\ [Next]_vars => [Call!Next]_(Call!vars)
  <2> SUFFICES ASSUME Inv, [Next]_vars
               PROVE  Call!Next \/ (req'.guarded = req.guarded /\ Agent' = Agent
                                    /\ checks' = checks /\ Outcome' = Outcome)
    BY DEF Call!vars
  <2>1. CASE ChildEnds
    <3>1. PICK q \in alive : alive' = alive \ {q} /\ exit' \in ExitOf(q)
      BY <2>1 DEF ChildEnds
    <3>2. UNCHANGED <<req, pc, error, expired, checks>> /\ (q # "leader" => exit' = exit)
      BY <2>1, <3>1 DEF ChildEnds, ExitOf
    <3>3. pc = "running" \/ expired \/ exit' = exit
      BY <3>1, <3>2 DEF Inv, InStep, LeaderRuns
    <3> QED BY <3>2, <3>3 DEF Agent, Outcome
  <2>2. CASE BeforeLaunch
    <3>1. /\ pc \in BeforeProcess \ {"launch"} /\ checks = "none" /\ exit = NoCode /\ ~ expired
          /\ pc # "finished" /\ pc' # "running"
          /\ UNCHANGED <<req, exit, expired>>
      BY <2>2 DEF BeforeLaunch, Invoke, Prepare, BuildSchema, CheckBefore, Step, Inv, InStep,
                  BeforeProcess, Processes
    <3>2. Agent = "none" /\ Agent' = "none" /\ Outcome = "none"
      BY <3>1 DEF Agent, Outcome, BeforeProcess
    <3>3. \/ pc' # "finished" /\ checks' = checks
          \/ pc' # "finished" /\ req.guarded /\ checks' = "open"
          \/ pc' = "finished" /\ error' = "exception" /\ checks' = checks
      BY <2>2, <3>1 DEF BeforeLaunch, Invoke, Prepare, BuildSchema, CheckBefore, Step
    <3> QED BY <3>1, <3>2, <3>3 DEF Outcome, Call!Next, Call!Open, Call!Fail
  <2>3. CASE Launch
    <3>1. /\ pc = "launch" /\ checks = Opened /\ exit = NoCode /\ ~ expired
          /\ pc' \in {"running", "recheck"}
          /\ UNCHANGED <<req, exit, expired, checks>>
      BY <2>3 DEF Launch, Step, Clock, Inv, InStep, BeforeProcess
    <3> QED BY <3>1 DEF Agent, Outcome, Opened, Call!Next, Call!Start
  <2>4. CASE Return \/ Timeout
    <3>1. /\ pc = "running" /\ ~ expired /\ exit \in {NoCode, "zero", "nonzero"}
          /\ \/ expired'
             \/ pc' = "recheck" /\ ~ expired' /\ exit # NoCode
          /\ pc' # "finished"
          /\ UNCHANGED <<req, exit, checks>>
      BY <2>4 DEF Return, Timeout, Step, Processes, Inv, InStep, TypeOK
    <3> QED BY <3>1 DEF Agent, Outcome, Call!Next, Call!Return
  <2>5. CASE CleanupStep
    <3>1. /\ expired /\ UNCHANGED <<req, expired, checks>>
          /\ pc # "finished" /\ pc' # "finished"
      BY <2>5, CleanupHasEffect DEF CleanupEffect, Cleanup, Inv, InStep
    <3> QED BY <3>1 DEF Agent, Outcome
  <2>6. CASE CheckAfter \/ Complete \/ Parse
    <3>1. /\ pc \in {"recheck", "complete", "parse"} /\ pc' \in {"complete", "parse", "dispose"}
          /\ UNCHANGED <<req, exit, expired>>
          /\ \/ checks' = checks
             \/ checks = "open" /\ checks' \in {"passed", "drifted"}
      BY <2>6 DEF CheckAfter, Complete, Parse, Step, Processes, Inv, InStep, Opened
    <3>2. Agent' = Agent /\ Agent # "running" /\ Outcome = "none" /\ Outcome' = "none"
      BY <3>1 DEF Agent, Outcome
    <3> QED BY <3>1, <3>2 DEF Call!Next, Call!Close
  <2>7. CASE Dispose
    <3>1. /\ pc = "dispose" /\ pc' = "finished"
          /\ UNCHANGED <<req, exit, expired, error, checks>>
          /\ checks # "open"
          /\ error = "none" => ~ expired /\ exit = "zero" /\ checks = Closed
      BY <2>7 DEF Dispose, Step, Processes, Inv, InStep, CameBack
    <3>2. Agent' = Agent /\ Agent # "running" /\ Outcome = "none"
      BY <3>1 DEF Agent, Outcome
    <3>3. error = "none" => Agent = "returned"
      BY <3>1 DEF Agent, NoCode
    <3> QED BY <3>1, <3>2, <3>3 DEF Outcome, Closed, Call!Next, Call!Answer, Call!Fail
  <2>8. CASE UNCHANGED vars
    BY <2>8 DEF vars, Agent, Outcome
  <2> QED BY <2>1, <2>2, <2>3, <2>4, <2>5, <2>6, <2>7, <2>8
          DEF Next, Adapter, BeforeLaunch, CleanupStep
<1> QED BY <1>1, <1>2, InvocationInv, PTL DEF Spec, IsAgentCall, Call!Spec
=============================================================================
