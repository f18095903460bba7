------------------------------ MODULE Invocation ------------------------------
(***************************************************************************)
(* One invocation of an agent CLI (src/runtime/adapters.py): workspace,    *)
(* schema, freeze checks, the child process group with its timeout and     *)
(* bounded cleanup, and the reading of the answer.                         *)
(*                                                                         *)
(* The children are the leader (the CLI) and a helper it may have started. *)
(* They end whenever they like.  Time counts only during the cleanup, in   *)
(* ticks of the grace period.  Texts are abstracted to the error category  *)
(* they lead to.                                                           *)
(***************************************************************************)
EXTENDS Naturals, FiniteSets

CONSTANTS
  Grace,       \* PROCESS_CLEANUP_GRACE_SECONDS, in ticks
  KillTimeout  \* TERMINATION_COMMAND_TIMEOUT_SECONDS, in ticks

ASSUME InvocationAssumption ==
  Grace \in Nat \ {0} /\ KillTimeout \in Nat

VARIABLES
  req,        \* the InvocationRequest, and the runtime it is given to
  pc,         \* the adapter's next step
  alive,      \* the child processes that run
  job,        \* the children in the Windows Job Object
  spent,      \* ticks of the cleanup so far
  methods,    \* termination_method
  exit,       \* the leader's return code, or NoCode
  error,      \* error_category or the exception on its way to the caller
  expired,    \* timeout_triggered_at is set
  workspace,  \* the disposable workspace: "none", "made" or "removed"
  checks      \* the freeze checks: "none", "open", "passed" or "drifted"

vars == <<req, pc, alive, job, spent, methods, exit, error, expired, workspace, checks>>

Children == {"leader", "helper"}
NoCode == "none"

\* schema: the request names a formal_output_schema; guarded: it brings a
\* freeze_guard, which is optional; posix: os.name # "nt".
Requests == [provider : {"claude", "codex"}, posix : BOOLEAN, schema : BOOLEAN,
             guarded : BOOLEAN, isolate : BOOLEAN, retain : BOOLEAN]

\* _process_error_category of the two adapters.
ProcessCategories(provider) ==
  IF provider = "claude" THEN {"infrastructure", "auth", "agent invocation"}
  ELSE {"CODEX_SCHEMA_COMPATIBILITY_ERROR", "CODEX_AUTH_ERROR", "CODEX_NETWORK_ERROR",
        "infrastructure", "CODEX_PROCESS_ERROR"}

\* Mutant: a category that no caller knows.
UnknownFailure(provider) == "launch"

launch_failure_category(provider) == IF provider = "claude" THEN "CLI" ELSE "infrastructure"

Categories == ProcessCategories("claude") \cup ProcessCategories("codex")
              \cup {"CLI", "HARNESS_TIMEOUT", "parsing"}

\* "exception": any other exception; "drift": FreezeDriftError.
Errors == Categories \cup {"none", "drift", "exception"}

Cleanup == {"terminate", "job", "wait", "force", "reap", "report"}
Steps == {"idle", "prepare", "schema", "check", "launch", "running", "recheck",
          "complete", "parse", "dispose", "finished"} \cup Cleanup

Methods == {"taskkill", "taskkill failed", "SIGTERM", "SIGKILL", "TerminateJobObject",
            "TerminateJobObject (error)", "process.kill", "cleanup_deadline_exceeded"}

TypeOK ==
  /\ req \in Requests
  /\ pc \in Steps
  /\ alive \in SUBSET Children /\ job \in SUBSET Children
  /\ spent \in Nat
  /\ methods \in SUBSET Methods
  /\ exit \in {NoCode, "zero", "nonzero"}
  /\ error \in Errors
  /\ expired \in BOOLEAN
  /\ workspace \in {"none", "made", "removed"}
  /\ checks \in {"none", "open", "passed", "drifted"}

Init ==
  /\ req \in Requests
  /\ pc = "idle"
  /\ alive = {} /\ job = {}
  /\ spent = 0
  /\ methods = {}
  /\ exit = NoCode
  /\ error = "none"
  /\ expired = FALSE
  /\ workspace = "none"
  /\ checks = "none"

Processes == <<alive, job, exit>>
Clock == <<spent, methods>>

\* The adapter's step from -> to, with the error it raises, if any.
Step(from, to, raised) ==
  pc = from /\ pc' = to /\ error' = raised /\ UNCHANGED <<req, expired>>

-----------------------------------------------------------------------------
(* The children: the environment. *)

ExitOf(q) == IF q = "leader" THEN {"zero", "nonzero"} ELSE {exit}

ChildEnds ==
  /\ pc # "finished"
  /\ \E q \in alive :
       /\ alive' = alive \ {q}
       /\ exit' \in ExitOf(q)
  /\ UNCHANGED <<req, pc, job, spent, methods, error, expired, workspace, checks>>

\* A kill is sent to some children.  It takes effect when the system gets to
\* it: of those it has ended some when the adapter looks again, the others end
\* later, as ChildEnds or while they are waited for.
KillSent(children) ==
  \E dead \in SUBSET children :
    /\ alive' = alive \ dead
    /\ exit' = IF "leader" \in alive \cap dead THEN "nonzero" ELSE exit

LeaderRuns == "leader" \in alive  \* process.poll() is None

-----------------------------------------------------------------------------
(* Before the launch. *)

\* invoke: a request without an output schema is a ValueError.
Invoke ==
  /\ \/ req.schema /\ Step("idle", "prepare", "none")
     \/ Step("idle", "finished", "exception")
  /\ UNCHANGED <<Processes, Clock, workspace, checks>>

\* _prepare_isolated_workspace: mkdtemp, the copies, the check that it is clean.
Prepare ==
  /\ IF req.isolate
     THEN \/ workspace' = "made" /\ Step("prepare", "schema", "none")
          \/ workspace' \in {"none", "made"} /\ Step("prepare", "dispose", "exception")
     ELSE workspace' = "none" /\ Step("prepare", "schema", "none")
  /\ UNCHANGED <<Processes, Clock, checks>>

\* Codex derives a transport schema and reports a failure of it in its own
\* category; writing it, and Claude's reading of the schema, may just raise.
BuildSchema ==
  /\ \/ Step("schema", "check", "none")
     \/ Step("schema", "dispose", "exception")
     \/ req.provider = "codex" /\ Step("schema", "dispose", "CODEX_SCHEMA_COMPATIBILITY_ERROR")
  /\ UNCHANGED <<Processes, Clock, workspace, checks>>

\* _freeze_guard, if the request has one: a check before that raises has no
\* check after.
CheckBefore ==
  /\ \/ Step("check", "launch", "none") /\ checks' = IF req.guarded THEN "open" ELSE "none"
     \/ req.guarded /\ Step("check", "dispose", "drift") /\ UNCHANGED checks
  /\ UNCHANGED <<Processes, Clock, workspace>>

\* Popen, and on Windows the Job Object: a helper that was started before the
\* assignment is not in it, and without an assignment it is closed.
Launch ==
  /\ \/ /\ Step("launch", "running", "none")
        /\ alive' \in {{"leader"}, Children}
        /\ job' \in IF req.posix THEN {{}} ELSE {{}, {"leader"}, alive'}
     \/ /\ Step("launch", "recheck", launch_failure_category(req.provider))
        /\ UNCHANGED <<alive, job>>
  /\ UNCHANGED <<exit, Clock, workspace, checks>>

-----------------------------------------------------------------------------
(* communicate, and the cleanup after a timeout. *)

\* The leader has ended and its output is read; an OSError then counts as a
\* failed launch.
Return ==
  /\ ~ LeaderRuns
  /\ \E raised \in {"none", launch_failure_category(req.provider)} :
       Step("running", "recheck", raised)
  /\ UNCHANGED <<Processes, Clock, workspace, checks>>

\* Mutant: communicate is called without a timeout.
Untimed == FALSE

\* The timer may fire just when the leader ends, or when the leader has ended
\* and a helper keeps the prompt from being written.
Timeout ==
  /\ pc = "running" /\ pc' = "terminate"
  /\ error' = "HARNESS_TIMEOUT"
  /\ expired' = TRUE
  /\ UNCHANGED <<req, Processes, Clock, workspace, checks>>

Remaining == Grace - spent

\* _terminate_process_tree(force=False) on Windows.
Taskkill ==
  /\ \E ticks \in 0..Remaining : ticks <= KillTimeout /\ spent' = spent + ticks
  /\ KillSent(alive)
  /\ \E result \in {"taskkill", "taskkill failed"} : methods' = methods \cup {result}

\* The tree is told to end only if the leader still runs.  What SIGTERM does
\* is up to the children.
Terminate ==
  /\ Step("terminate", "job", error)
  /\ IF ~ LeaderRuns THEN UNCHANGED <<alive, exit, Clock>>
     ELSE IF req.posix
     THEN methods' = methods \cup {"SIGTERM"} /\ UNCHANGED <<alive, exit, spent>>
     ELSE Taskkill
  /\ UNCHANGED <<job, workspace, checks>>

TerminateJob ==
  /\ Step("job", "wait", error)
  /\ IF job = {} THEN UNCHANGED <<alive, exit, methods>>
     ELSE \/ KillSent(job) /\ methods' = methods \cup {"TerminateJobObject"}
          \/ methods' = methods \cup {"TerminateJobObject (error)"} /\ UNCHANGED <<alive, exit>>
  /\ UNCHANGED <<job, spent, workspace, checks>>

\* process.wait(timeout=limit): the leader ends, or the time is over.  On
\* Windows it may give up early: its timeout is cut to milliseconds.
WaitEnds(limit) ==
  \/ /\ alive' = alive \ {"leader"}
     /\ exit' \in {"zero", "nonzero"}
     /\ \E ticks \in 0..limit : spent' = spent + ticks
  \/ /\ spent' \in {spent + limit} \cup (IF req.posix THEN {} ELSE {spent + limit - 1})
     /\ UNCHANGED <<alive, exit>>

Wait ==
  /\ Step("wait", "force", error)
  /\ IF LeaderRuns /\ Remaining > 0 THEN WaitEnds(Remaining) ELSE UNCHANGED <<alive, exit, spent>>
  /\ UNCHANGED <<job, methods, workspace, checks>>

\* The forced kill, only while the deadline has not passed: SIGKILL to the
\* group, or on Windows process.kill of the leader alone.
ForceKill ==
  /\ IF LeaderRuns /\ Remaining > 0
     THEN /\ Step("force", "reap", error)
          /\ KillSent(IF req.posix THEN alive ELSE {"leader"})
          /\ methods' = methods \cup {IF req.posix THEN "SIGKILL" ELSE "process.kill"}
     ELSE Step("force", "report", error) /\ UNCHANGED <<alive, exit, methods>>
  /\ UNCHANGED <<job, spent, workspace, checks>>

\* Mutant: after the kill the whole grace period is waited for again.
LastWaitAnew ==
  /\ Step("reap", "report", error)
  /\ IF LeaderRuns /\ Remaining > 0 THEN WaitEnds(Grace) ELSE UNCHANGED <<alive, exit, spent>>
  /\ UNCHANGED <<job, methods, workspace, checks>>

\* The killed leader is waited for while time remains.
LastWait ==
  /\ Step("reap", "report", error)
  /\ IF LeaderRuns /\ Remaining > 0 THEN WaitEnds(Remaining) ELSE UNCHANGED <<alive, exit, spent>>
  /\ UNCHANGED <<job, methods, workspace, checks>>

Report ==
  /\ methods' = methods \cup (IF LeaderRuns THEN {"cleanup_deadline_exceeded"} ELSE {})
  /\ Step("report", "recheck", error)
  /\ UNCHANGED <<Processes, spent, workspace, checks>>

-----------------------------------------------------------------------------
(* After the process. *)

\* Mutant: the guard has no finally, so a failed run is not checked.
CheckOnlySuccess ==
  /\ \/ Step("recheck", IF error = "none" THEN "complete" ELSE "dispose", error)
        /\ checks' = IF req.guarded /\ error = "none" THEN "passed" ELSE checks
     \/ /\ req.guarded /\ error = "none"
        /\ Step("recheck", "dispose", "drift") /\ checks' = "drifted"
  /\ UNCHANGED <<Processes, Clock, workspace>>

\* The guard's check after is made in a finally: drift replaces the error of
\* the run.  Persisting the artifacts of a failed run may raise before it.
CheckAfter ==
  /\ \/ /\ \/ Step("recheck", IF error = "none" THEN "complete" ELSE "dispose", error)
           \/ error # "none" /\ Step("recheck", "dispose", "exception")
        /\ checks' = IF req.guarded THEN "passed" ELSE checks
     \/ req.guarded /\ Step("recheck", "dispose", "drift") /\ checks' = "drifted"
  /\ UNCHANGED <<Processes, Clock, workspace>>

\* _complete: the return code decides.
Complete ==
  /\ \/ /\ exit = "zero"
        /\ Step("complete", "parse", "none")
     \/ /\ exit # "zero"
        /\ \E category \in ProcessCategories(req.provider) : Step("complete", "dispose", category)
     \/ Step("complete", "dispose", "exception")
  /\ UNCHANGED <<Processes, Clock, workspace, checks>>

\* parse_json_text; Codex's last message may be unreadable, and it is brought
\* back to the canonical schema.
Parse ==
  /\ \/ Step("parse", "dispose", "none")
     \/ Step("parse", "dispose", "parsing")
     \/ /\ req.provider = "codex"
        /\ \E category \in {"infrastructure", "CODEX_SCHEMA_COMPATIBILITY_ERROR"} :
             Step("parse", "dispose", category)
  /\ UNCHANGED <<Processes, Clock, workspace, checks>>

\* _isolated_request: rmtree, unless the call failed and retaining was asked
\* for.  Its errors are ignored, so it may leave the directory.
Dispose ==
  /\ workspace' \in IF workspace = "made" /\ (error = "none" \/ ~ req.retain)
                    THEN {"removed", "made"} ELSE {workspace}
  /\ Step("dispose", "finished", error)
  /\ UNCHANGED <<Processes, Clock, checks>>

Adapter ==
  \/ Invoke \/ Prepare \/ BuildSchema \/ CheckBefore \/ Launch
  \/ Return \/ Timeout \/ Terminate \/ TerminateJob \/ Wait \/ ForceKill \/ LastWait \/ Report
  \/ CheckAfter \/ Complete \/ Parse \/ Dispose

Next == ChildEnds \/ Adapter

Spec == Init /\ [][Next]_vars

\* The adapter runs on; of the children nothing is assumed.
FairSpec == Spec /\ WF_vars(Adapter)

-----------------------------------------------------------------------------
(* Properties. *)

\* The cleanup after a timeout is bounded: the command and both waits, before
\* and after the forced kill, share one grace period (README "bounded
\* taskkill/Job Object cleanup").
CleanupBounded == spent <= Grace

\* The call refines AgentCall.
Agent ==
  IF expired THEN "expired"
  ELSE IF pc = "running" THEN "running"
  ELSE IF exit = NoCode THEN "none"
  ELSE IF exit = "zero" THEN "returned" ELSE "broken"
Outcome ==
  IF pc # "finished" THEN "none" ELSE IF error = "none" THEN "answered" ELSE "failed"
Call == INSTANCE AgentCall WITH
  guarded <- req.guarded, agent <- Agent, bracket <- checks, outcome <- Outcome
IsAgentCall == Call!Spec

\* Whatever the children do, the call comes back.
Ends == <>(pc = "finished")

CleanupOver == expired /\ pc \in {"recheck", "dispose", "finished"}

\* README.md: a POSIX timeout is cleaned up by "a bounded POSIX process-group
\* escalation", SIGTERM first and SIGKILL for what outlives it; and a test asks
\* that no "timeout cleanup left the dummy child alive".
Escalates == CleanupOver /\ req.posix /\ alive # {} => "SIGKILL" \in methods
=============================================================================
