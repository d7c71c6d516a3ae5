---------------------------- MODULE RunPipeline ----------------------------
(***************************************************************************)
(* internal/orchestrator: Execute and Run.  One run from the dispatch      *)
(* decision to its terminal event:                                         *)
(*                                                                         *)
(*   kernel, dispatch, governance gate, approval, worktree, MCP, auth,     *)
(*   sandbox, then attempts (agent, verify gate, lint gate, refine), then  *)
(*   one finalization (merge, teardown, runs row, terminal event).         *)
(*                                                                         *)
(* The imperative attempt loop and the reactive cycle call the same step   *)
(* closures; the reactive one publishes a command before each step.        *)
(* External programs (git, the sandbox provider, agent, verifier, linter,  *)
(* policy engine, approver, store) answer nondeterministically, restricted *)
(* by the contexts they are given: os/exec does not start a command under  *)
(* a context that is already done.                                         *)
(***************************************************************************)
EXTENDS Kernel

CONSTANT OptionSet      \* the ExecuteOptions under consideration

Options == [kernel : BOOLEAN,       \* Kernel # nil
            reactive : BOOLEAN,     \* Reactive, on kernel and run alike
            judge : BOOLEAN,        \* Judge # nil
            agents : Nat,           \* len(Agents), or 1 with a single Agent
            parallelN : Nat,
            enabled : BOOLEAN,      \* Refine.Enabled
            verifyCmd : BOOLEAN,    \* len(Refine.VerifyCmd) > 0
            lintCmd : BOOLEAN,      \* len(LintCmd) > 0
            maxAttempts : Nat,      \* Refine.MaxAttempts
            merge : BOOLEAN,        \* Strategy = merge-to-head
            keep : BOOLEAN,         \* KeepWorktree
            timed : BOOLEAN]        \* Timeout > 0

ASSUME OptionsAssumption == OptionSet \subseteq Options

VARIABLES
    opts,
    pc,         \* where Execute, Run or the run's goroutine stands
    gate,       \* the gate being checked: "verify" or "lint"
    attempts,   \* agent invocations so far
    bad,        \* execRes.ExitCode # 0 or execRes.Err # nil
    runErr,     \* runCtx.Err(): "nil", "canceled" or "deadline"
    worktree,   \* the worktree, one of Resource ("present" while in use)
    box,        \* the sandbox, one of Resource ("present" while open)
    row,        \* the runs row: "none" or its status
    lost,       \* a store write failed (logged only)
    status,     \* finalization's status; "" before it
    passed,     \* gates passed in the current attempt
    merged,     \* the branch was merged into the source repository
    cause       \* why Run returned an error; "" otherwise

execVars == <<gate, attempts, bad, passed>>
resVars  == <<worktree, box>>
rowVars  == <<row, lost>>
endVars  == <<status, merged>>
runVars  == <<opts, pc, runErr, cause, execVars, resVars, rowVars, endVars>>
vars     == <<sinkVars, kernelVars, runVars>>

Gates == {"verify", "lint"}

PCs == {"execute", "submit", "policy", "approval", "worktree", "mcp", "auth",
        "sandbox", "executing", "start", "command_agent", "agent",
        "command_check", "check", "checking", "check_err", "refine",
        "reexecuting", "reexec", "final", "merge", "close", "cleanup",
        "announce", "record_failure", "announce_failure", "over", "delegated"}

\* What the run knows of a worktree or a sandbox.  "stuck": its removal was
\* tried and failed; "orphan": its creation failed halfway, and the run has no
\* handle with which to remove what is there.
Resource == {"none", "present", "gone", "stuck", "orphan"}

\* Every variable holds a value of the type the code gives it; no more
\* attempts are recorded than the effective cap allows a loop to record.
TypeOK ==
    /\ SinkTypeOK
    /\ KernelTypeOK
    /\ opts \in OptionSet
    /\ pc \in PCs
    /\ gate \in Gates
    /\ attempts \in Nat
    /\ bad \in BOOLEAN
    /\ runErr \in {"nil", "canceled", "deadline"}
    /\ worktree \in Resource
    /\ box \in Resource
    /\ row \in {"none", "running", "success", "failure", "cancelled"}
    /\ lost \in BOOLEAN
    /\ status \in {"", "success", "failure", "cancelled"}
    /\ passed \subseteq Gates
    /\ merged \in BOOLEAN
    /\ cause \in {"", "governance", "approval", "wait_canceled", "worktree",
                  "mcp", "auth", "sandbox", "exec"}

Init ==
    /\ SinkInit
    /\ opts \in OptionSet
    /\ KernelInit(opts.kernel)
    /\ pc = "execute"
    /\ gate = "verify" /\ attempts = 0 /\ bad = FALSE /\ passed = {}
    /\ runErr = "nil"
    /\ worktree = "none" /\ box = "none"
    /\ row = "none" /\ lost = FALSE
    /\ status = "" /\ merged = FALSE
    /\ cause = ""

-----------------------------------------------------------------------------
(* Options *)

\* RefineOptions.effective and active, and Run's lintActive.
EffectiveMax == IF opts.maxAttempts = 0 THEN 3 ELSE opts.maxAttempts
RefineActive == opts.enabled /\ opts.verifyCmd
LintActive   == opts.enabled /\ opts.lintCmd

\* The gates every attempt has to pass.
ActiveGates == {g \in Gates : (g = "verify" /\ RefineActive) \/ (g = "lint" /\ LintActive)}

\* dispatchKind.  ForcePlan is never needed: the selector answers "parallel"
\* only for a plan that has nodes.
dispatchKind ==
    CASE strategy = "refine"   -> IF RefineActive THEN "refine" ELSE "single"
      [] strategy = "parallel" ->
            IF roots > 1
            THEN IF opts.judge THEN "dag"
                 ELSE IF opts.agents > 1 THEN "parallel" ELSE "single"
            ELSE IF opts.agents > 1 \/ opts.parallelN > 1 THEN "parallel"
                 ELSE "single"
      [] OTHER -> "single"

\* A step of the attempt cycle, preceded by its command in reactive mode.
ToAgent == IF opts.reactive THEN "command_agent" ELSE "agent"
ToCheck == IF opts.reactive THEN "command_check" ELSE "check"

-----------------------------------------------------------------------------
(* Execute *)

RunKernel ==
    /\ pc = "execute"
    /\ Process(opts.reactive)
    /\ UNCHANGED runVars

\* runDirect and forwardToRun call Run with Kernel = nil; the other two kinds
\* hand the run over to ParallelRun and DAGRun.
Dispatch ==
    /\ pc = "execute"
    /\ stage \in {"off", "done"}
    /\ pc' = IF dispatchKind \in {"dag", "parallel"} THEN "delegated" ELSE "submit"
    /\ UNCHANGED <<opts, runErr, cause, execVars, resVars, rowVars, endVars>>
    /\ UNCHANGED <<sinkVars, kernelVars>>

-----------------------------------------------------------------------------
(* Run, up to the start of the agent *)

Submit ==
    /\ pc = "submit"
    /\ Publish("run.submitted")
    /\ pc' = "policy"
    /\ UNCHANGED <<opts, runErr, cause, execVars, resVars, rowVars, endVars, kernelVars>>

\* evaluatePolicy(ActionExecute) answers Allow (or there is no engine).
PolicyAllows ==
    /\ pc = "policy"
    /\ pc' = "worktree"
    /\ UNCHANGED <<opts, runErr, cause, execVars, resVars, rowVars, endVars>>
    /\ UNCHANGED <<sinkVars, kernelVars>>

PolicyDenies ==
    /\ pc = "policy"
    /\ Publish("governance.denied")
    /\ pc' = "record_failure"
    /\ cause' = "governance"
    /\ UNCHANGED <<opts, runErr, execVars, resVars, rowVars, endVars, kernelVars>>

PolicyReviews ==
    /\ pc = "policy"
    /\ Publish("governance.approval_required")
    /\ pc' = "approval"
    /\ UNCHANGED <<opts, runErr, cause, execVars, resVars, rowVars, endVars, kernelVars>>

Approved ==
    /\ pc = "approval"
    /\ Publish("governance.approved")
    /\ pc' = "worktree"
    /\ UNCHANGED <<opts, runErr, cause, execVars, resVars, rowVars, endVars, kernelVars>>

\* A nil approver, a rejection or the approval timeout; or, with a cause of
\* its own here, the wait's context is done.
NotApproved ==
    /\ pc = "approval"
    /\ pc' = "record_failure"
    /\ \/ cause' = "approval"
       \/ ctxDone /\ cause' = "wait_canceled"
    /\ UNCHANGED <<opts, runErr, execVars, resVars, rowVars, endVars>>
    /\ UNCHANGED <<sinkVars, kernelVars>>

\* git worktree add runs under the context: a kill can leave half of it.
CreateWorktree ==
    /\ pc = "worktree"
    /\ \/ /\ ~ctxDone
          /\ worktree' = "present"
          /\ pc' = "mcp"
          /\ cause' = cause
       \/ /\ worktree' \in {"none", "orphan"}
          /\ pc' = "record_failure"
          /\ cause' = "worktree"
    /\ UNCHANGED <<opts, runErr, box, execVars, rowVars, endVars>>
    /\ UNCHANGED <<sinkVars, kernelVars>>

\* No MCP servers are enabled.
SkipMCP ==
    /\ pc = "mcp"
    /\ pc' = "auth"
    /\ UNCHANGED <<opts, runErr, cause, execVars, resVars, rowVars, endVars>>
    /\ UNCHANGED <<sinkVars, kernelVars>>

InjectMCP ==
    /\ pc = "mcp"
    /\ Publish("mcp.injected")
    /\ pc' = "auth"
    /\ UNCHANGED <<opts, runErr, cause, execVars, resVars, rowVars, endVars, kernelVars>>

\* An error of the removal, or of the close, is only logged.
cleanupWorktree == worktree' \in {"gone", "stuck"}
closeSandbox    == box' \in {"gone", "stuck"}

InjectMCPFails ==
    /\ pc = "mcp"
    /\ cleanupWorktree
    /\ pc' = "record_failure"
    /\ cause' = "mcp"
    /\ UNCHANGED <<opts, runErr, box, execVars, rowVars, endVars>>
    /\ UNCHANGED <<sinkVars, kernelVars>>

ApplyAuth ==
    /\ pc = "auth"
    /\ pc' = "sandbox"
    /\ UNCHANGED <<opts, runErr, cause, execVars, resVars, rowVars, endVars>>
    /\ UNCHANGED <<sinkVars, kernelVars>>

\* INSERT of the row with the given status; an error is only logged.
CreateRun(st) ==
    \/ row' = st /\ lost' = lost
    \/ row' = row /\ lost' = TRUE

\* The one early return that publishes nothing.
ApplyAuthFails ==
    /\ pc = "auth"
    /\ cleanupWorktree
    /\ CreateRun("failure")
    /\ pc' = "over"
    /\ cause' = "auth"
    /\ UNCHANGED <<opts, runErr, box, execVars, endVars>>
    /\ UNCHANGED <<sinkVars, kernelVars>>

CreateSandbox ==
    /\ pc = "sandbox"
    /\ runErr = "nil"
    /\ box' = "present"
    /\ Publish("sandbox.created")
    /\ pc' = "executing"
    /\ UNCHANGED <<opts, runErr, cause, worktree, execVars, rowVars, endVars, kernelVars>>

\* Mutant: the failed sandbox leaves the worktree behind.
CreateSandboxFails_Leaks ==
    /\ pc = "sandbox"
    /\ pc' = "record_failure"
    /\ cause' = "sandbox"
    /\ UNCHANGED <<opts, runErr, resVars, execVars, rowVars, endVars>>
    /\ UNCHANGED <<sinkVars, kernelVars>>

\* docker run may fail, or be killed with runCtx, after the daemon has started
\* the container: nothing removes that one.
CreateSandboxFails ==
    /\ pc = "sandbox"
    /\ box' \in {"none", "orphan"}
    /\ cleanupWorktree
    /\ pc' = "record_failure"
    /\ cause' = "sandbox"
    /\ UNCHANGED <<opts, runErr, execVars, rowVars, endVars>>
    /\ UNCHANGED <<sinkVars, kernelVars>>

\* Both callers cleared opts.Kernel: what is left of step 6 is the direct
\* Brain.Enrich, of which only the prompt changes and nothing is published.
AnnounceExecuting ==
    /\ pc = "executing"
    /\ Publish("agent.executing")
    /\ pc' = "start"
    /\ UNCHANGED <<opts, runErr, cause, execVars, resVars, rowVars, endVars, kernelVars>>

\* box.Exec starts the agent, and the row appears with status running.
StartAgent ==
    /\ pc = "start"
    /\ runErr = "nil"
    /\ CreateRun("running")
    /\ attempts' = 1
    /\ pc' = ToAgent
    /\ UNCHANGED <<opts, runErr, cause, gate, bad, passed, resVars, endVars>>
    /\ UNCHANGED <<sinkVars, kernelVars>>

StartAgentFails ==
    /\ pc = "start"
    /\ closeSandbox
    /\ cleanupWorktree
    /\ pc' = "record_failure"
    /\ cause' = "exec"
    /\ UNCHANGED <<opts, runErr, execVars, rowVars, endVars>>
    /\ UNCHANGED <<sinkVars, kernelVars>>

\* markFailedEarly, then run.failed.
RecordFailure ==
    /\ pc = "record_failure"
    /\ CreateRun("failure")
    /\ pc' = "announce_failure"
    /\ UNCHANGED <<opts, runErr, cause, execVars, resVars, endVars>>
    /\ UNCHANGED <<sinkVars, kernelVars>>

\* Mutant: the early return forgets the event.
AnnounceFailure_Silent ==
    /\ pc = "announce_failure"
    /\ pc' = "over"
    /\ UNCHANGED <<opts, runErr, cause, execVars, resVars, rowVars, endVars>>
    /\ UNCHANGED <<sinkVars, kernelVars>>

AnnounceFailure ==
    /\ pc = "announce_failure"
    /\ Publish("run.failed")
    /\ pc' = "over"
    /\ UNCHANGED <<opts, runErr, cause, execVars, resVars, rowVars, endVars, kernelVars>>

-----------------------------------------------------------------------------
(* The attempt cycle *)

\* Reactive mode: the reactor publishes the command of the next step.
PublishCommand ==
    /\ \/ /\ pc = "command_agent"
          /\ Publish("execute.requested")
          /\ pc' = "agent"
       \/ /\ pc = "command_check"
          /\ Publish(IF gate = "verify" THEN "verify.requested" ELSE "lint.requested")
          /\ pc' = "check"
    /\ UNCHANGED <<opts, runErr, cause, execVars, resVars, rowVars, endVars, kernelVars>>

\* agentStep: the attempt's command has ended, with exit code 0 or not.  The
\* deadline, the absence of gates and a crash end the cycle.
AgentStep ==
    /\ pc = "agent"
    /\ Publish("agent.completed")
    /\ passed' = {}
    /\ bad' \in BOOLEAN
    /\ IF runErr = "deadline" \/ ActiveGates = {} \/ bad'
       THEN pc' = "final" /\ gate' = gate
       ELSE /\ pc' = ToCheck
            /\ gate' = IF RefineActive THEN "verify" ELSE "lint"
    /\ UNCHANGED <<opts, runErr, cause, attempts, resVars, rowVars, endVars, kernelVars>>

\* verifyStep and lintStep: announce the gate and start its command.
StartCheck ==
    /\ pc = "check"
    /\ Publish(IF gate = "verify" THEN "verify.started" ELSE "lint.started")
    /\ pc' \in IF runErr = "nil" THEN {"checking", "check_err"} ELSE {"check_err"}
    /\ UNCHANGED <<opts, runErr, cause, execVars, resVars, rowVars, endVars, kernelVars>>

\* The verifier could not run its command: a terminal failure, no refine.
CheckError ==
    /\ pc = "check_err"
    /\ Publish(IF gate = "verify" THEN "verify.failed" ELSE "lint.failed")
    /\ bad' = TRUE
    /\ pc' = "final"
    /\ UNCHANGED <<opts, runErr, cause, gate, attempts, passed, resVars, rowVars, endVars, kernelVars>>

CheckPasses ==
    /\ pc = "checking"
    /\ Publish(IF gate = "verify" THEN "verify.passed" ELSE "lint.passed")
    /\ passed' = passed \cup {gate}
    /\ IF gate = "verify" /\ LintActive
       THEN pc' = ToCheck /\ gate' = "lint"
       ELSE pc' = "final" /\ gate' = gate
    /\ UNCHANGED <<opts, runErr, cause, attempts, bad, resVars, rowVars, endVars, kernelVars>>

CheckFails ==
    /\ pc = "checking"
    /\ Publish(IF gate = "verify" THEN "verify.failed" ELSE "lint.failed")
    /\ pc' = "refine"
    /\ UNCHANGED <<opts, runErr, cause, execVars, resVars, rowVars, endVars, kernelVars>>

\* refineOrExhaust: the cap, the policy engine, then a new attempt.
Exhausted == attempts >= EffectiveMax

RefineExhausted ==
    /\ pc = "refine"
    /\ Exhausted
    /\ bad' = TRUE
    /\ pc' = "final"
    /\ UNCHANGED <<opts, runErr, cause, gate, attempts, passed, resVars, rowVars, endVars>>
    /\ UNCHANGED <<sinkVars, kernelVars>>

RefineDenied ==
    /\ pc = "refine"
    /\ ~Exhausted
    /\ Publish("governance.denied")
    /\ bad' = TRUE
    /\ pc' = "final"
    /\ UNCHANGED <<opts, runErr, cause, gate, attempts, passed, resVars, rowVars, endVars, kernelVars>>

RefineTriggered ==
    /\ pc = "refine"
    /\ ~Exhausted
    /\ attempts' = attempts + 1
    /\ Publish("refine.triggered")
    /\ pc' = "reexecuting"
    /\ UNCHANGED <<opts, runErr, cause, gate, bad, passed, resVars, rowVars, endVars, kernelVars>>

AnnounceReexecuting ==
    /\ pc = "reexecuting"
    /\ Publish("agent.executing")
    /\ pc' = "reexec"
    /\ UNCHANGED <<opts, runErr, cause, execVars, resVars, rowVars, endVars, kernelVars>>

\* Mutant: an exec error of the new attempt is not kept in execRes.
Reexec_ForgetsError ==
    /\ pc = "reexec"
    /\ \/ runErr = "nil" /\ pc' = ToAgent
       \/ pc' = "final"
    /\ UNCHANGED <<opts, runErr, cause, execVars, resVars, rowVars, endVars>>
    /\ UNCHANGED <<sinkVars, kernelVars>>

Reexec ==
    /\ pc = "reexec"
    /\ \/ /\ runErr = "nil"
          /\ pc' = ToAgent
          /\ bad' = bad
       \/ /\ pc' = "final"
          /\ bad' = TRUE
    /\ UNCHANGED <<opts, runErr, cause, gate, attempts, passed, resVars, rowVars, endVars>>
    /\ UNCHANGED <<sinkVars, kernelVars>>

-----------------------------------------------------------------------------
(* Finalization, once per run *)

\* cancel() releases runCtx; its error, if the deadline set one, stays.
DecideStatus ==
    /\ pc = "final"
    /\ status' = IF runErr = "deadline" THEN "cancelled"
                 ELSE IF bad THEN "failure" ELSE "success"
    /\ pc' = "merge"
    /\ UNCHANGED <<opts, runErr, cause, merged, execVars, resVars, rowVars>>
    /\ UNCHANGED <<sinkVars, kernelVars>>

\* Drop .mcp.json, commit, diff, and merge to HEAD on success.  The first three
\* are best-effort: after a CommitAll that failed the merge still succeeds, of
\* a branch without the agent's changes, so merged is "MergeToHead returned
\* nil" and no more.
ApplyStrategy ==
    /\ pc = "merge"
    /\ IF status = "success" /\ opts.merge
       THEN \/ merged' = TRUE /\ status' = status
            \/ merged' = merged /\ status' = "failure"
       ELSE UNCHANGED <<merged, status>>
    /\ pc' = "close"
    /\ UNCHANGED <<opts, runErr, cause, execVars, resVars, rowVars>>
    /\ UNCHANGED <<sinkVars, kernelVars>>

CloseSandbox ==
    /\ pc = "close"
    /\ closeSandbox
    /\ Publish("sandbox.destroyed")
    /\ pc' = "cleanup"
    /\ UNCHANGED <<opts, runErr, cause, worktree, execVars, rowVars, endVars, kernelVars>>

\* Mutant: the status written is not the one announced.
UpdateRun_AlwaysSuccess(st) ==
    \/ row' = (IF row = "none" THEN row ELSE "success") /\ lost' = lost
    \/ row' = row /\ lost' = TRUE

\* UPDATE of the row: of no row at all it changes nothing and succeeds.
UpdateRun(st) ==
    \/ row' = (IF row = "none" THEN row ELSE st) /\ lost' = lost
    \/ row' = row /\ lost' = TRUE

Cleanup ==
    /\ pc = "cleanup"
    /\ IF opts.keep THEN worktree' = worktree ELSE cleanupWorktree
    /\ UpdateRun(status)
    /\ pc' = "announce"
    /\ UNCHANGED <<opts, runErr, cause, box, execVars, endVars>>
    /\ UNCHANGED <<sinkVars, kernelVars>>

AnnounceOutcome ==
    /\ pc = "announce"
    /\ Publish(CASE status = "success"   -> "run.completed"
                 [] status = "cancelled" -> "run.cancelled"
                 [] OTHER                -> "run.failed")
    /\ pc' = "over"
    /\ UNCHANGED <<opts, runErr, cause, execVars, resVars, rowVars, endVars, kernelVars>>

-----------------------------------------------------------------------------
(* The environment *)

\* SIGINT, or the server's launch context cancelled at shutdown.
CancelContext ==
    /\ ~ctxDone
    /\ pc \notin {"over", "delegated"}
    /\ ctxDone' = TRUE
    /\ runErr' = IF runErr = "nil" THEN "canceled" ELSE runErr
    /\ UNCHANGED <<live, stored, terminal, rejected>>
    /\ UNCHANGED <<opts, pc, cause, execVars, resVars, rowVars, endVars, kernelVars>>

\* The pcs at which runCtx exists and has not been released by cancel().
InRunCtx == {"sandbox", "executing", "start", "command_agent", "agent",
             "command_check", "check", "checking", "check_err", "refine",
             "reexecuting", "reexec", "final"}

\* context.WithTimeout(ctx, opts.Timeout) expires.
Deadline ==
    /\ opts.timed
    /\ pc \in InRunCtx
    /\ runErr = "nil"
    /\ runErr' = "deadline"
    /\ UNCHANGED <<opts, pc, cause, execVars, resVars, rowVars, endVars>>
    /\ UNCHANGED <<sinkVars, kernelVars>>

Over ==
    /\ pc \in {"over", "delegated"}
    /\ UNCHANGED vars

-----------------------------------------------------------------------------

Prepare ==
    \/ RunKernel \/ Dispatch \/ Submit
    \/ PolicyAllows \/ PolicyDenies \/ PolicyReviews \/ Approved \/ NotApproved
    \/ CreateWorktree \/ SkipMCP \/ InjectMCP \/ InjectMCPFails
    \/ ApplyAuth \/ ApplyAuthFails \/ CreateSandbox \/ CreateSandboxFails
    \/ AnnounceExecuting \/ StartAgent \/ StartAgentFails
    \/ RecordFailure \/ AnnounceFailure

Cycle ==
    \/ PublishCommand \/ AgentStep \/ StartCheck \/ CheckError
    \/ CheckPasses \/ CheckFails
    \/ RefineExhausted \/ RefineDenied \/ RefineTriggered
    \/ AnnounceReexecuting \/ Reexec

Finalize ==
    DecideStatus \/ ApplyStrategy \/ CloseSandbox \/ Cleanup \/ AnnounceOutcome

Step == Prepare \/ Cycle \/ Finalize

Next == Step \/ CancelContext \/ Deadline \/ Over

\* Run is sequential code that never waits for ever on its own account: the
\* approval wait has a timeout and every other blocking call is an external
\* command, assumed to return.
Spec == Init /\ [][Next]_vars /\ WF_vars(Step)

-----------------------------------------------------------------------------
(* Properties *)

\* The run is over and Run, not ParallelRun or DAGRun, was in charge of it.
Ended == pc = "over"

\* Run's row and its terminal event keep RunContract: at most one outcome, the
\* row settled before the event, nothing afterwards.
RowContract == INSTANCE RunContract
KeepsContract == RowContract!Contract

\* Every run that ends has published exactly one of run.completed, run.failed
\* and run.cancelled, and (unless a store write failed) its row has settled.
\* Run's auth failure is the known exception: it settles the row only.
EndsAnnounced ==
    Ended => /\ cause # "auth" => Len(terminal) = 1
             /\ ~lost => row \in RowContract!Outcomes

\* A worktree is never taken away from under the sandbox it is mounted in.  A
\* subscriber that sees the terminal event, and a caller that gets Run's error,
\* find that whatever the run acquired it has also given back or, where the
\* removal itself failed, tried to: on every early return and in the finalizer.
\* The exceptions are a worktree that was to be kept, and what a failed
\* creation left without a handle.
NothingLeaks ==
    /\ worktree \in {"gone", "stuck"} => box # "present"
    /\ Ended \/ terminal # <<>> =>
        /\ box # "present"
        /\ box = "orphan" => cause = "sandbox"
        /\ worktree = "present" => opts.keep /\ cause = ""
        /\ worktree = "orphan" => cause = "worktree" /\ box = "none"

\* Only work that passed every active gate in the attempt being merged, whose
\* agent and gate commands all ran, and whose deadline did not fire, reaches
\* the user's branch; a merge conflict never counts as success.
MergeNeedsGates ==
    /\ merged => status = "success" /\ ActiveGates \subseteq passed /\ ~bad
    /\ status = "success" => runErr # "deadline" /\ cause = ""

\* A denied or unapproved run is rejected before it costs anything.
GateFailsClosed ==
    cause \in {"governance", "approval", "wait_canceled"} =>
        worktree = "none" /\ box = "none" /\ attempts = 0

\* The agent is never invoked more often than RefineOptions allows.
AttemptBudget == attempts <= EffectiveMax

\* What the run does to the repository stays within its gates and its budget.
PipelineInvariant == TypeOK /\ MergeNeedsGates /\ GateFailsClosed /\ AttemptBudget

\* Runs the phase machine can follow to the end: the kernel, if any, reached
\* run.enriched, and the attempt cap does not exceed the machine's own.
Followable == (opts.kernel => enriched) /\ EffectiveMax <= MaxAttempts

\* The phase the terminal event leads to.
OutcomePhase == [x \in {"run.completed", "run.failed", "run.cancelled"} |->
                    CASE x = "run.completed" -> "completed"
                      [] x = "run.failed"    -> "failed"
                      [] OTHER               -> "cancelled"]

\* The cached state of such a run ends in the phase its outcome names, with as
\* many attempts as the run made: no event on any path leaves it behind.
LiveFollowsRun ==
    Ended /\ Followable /\ cause # "auth" =>
        /\ live.phase = OutcomePhase[terminal[1]]
        /\ attempts > 0 => live.attempt = attempts

\* The persisted log of a single-attempt run without kernel or MCP replays
\* strictly to its outcome, unless the context was cancelled under way.
LogReplaysToOutcome ==
    Ended /\ cause # "auth" /\ ~ctxDone /\ rejected \cap UnlistedTypes = {}
          /\ ~opts.kernel /\ attempts <= 1 =>
        stored.ok /\ stored.st.phase = OutcomePhase[terminal[1]]

\* Every run ends: the refine loop, the gates and the error paths cannot keep
\* one going, whatever the external programs answer.
RunEnds == <>(pc \in {"over", "delegated"})
=============================================================================
