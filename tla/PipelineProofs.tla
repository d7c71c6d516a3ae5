--------------------------- MODULE PipelineProofs ---------------------------
(***************************************************************************)
(* Proofs about the run pipeline, for every set of options: whatever the   *)
(* external programs answer and whenever the contexts end, a run announces *)
(* one outcome, leaks nothing, merges only what passed its gates, keeps    *)
(* RunContract, and is followed by the phase machine.                      *)
(***************************************************************************)
EXTENDS RunPipeline, TLAPS

-----------------------------------------------------------------------------
(* The phase machine *)

\* The types of the events that have a row in the transition table.
RowTypes ==
    {"run.classified", "run.planned", "run.enriched", "sandbox.created", "agent.executing",
     "agent.completed", "verify.started", "verify.passed", "verify.failed",
     "refine.triggered", "lint.started", "lint.passed", "lint.failed", "run.completed",
     "governance.approval_required", "governance.approved", "run.cancelled", "run.failed"}

LEMMA RowsAreTyped ==
    ASSUME NEW t \in transitionTable
    PROVE  t[1] \in Phases /\ t[2] \in RowTypes /\ t[3] \in Phases
BY DEF transitionTable, Abortable, Phases, RowTypes

LEMMA RowTypesAreEvents == RowTypes \subseteq EventTypes
<1>1. /\ <<"submitted", "run.classified", "classified">> \in transitionTable
      /\ <<"classified", "run.planned", "planned">> \in transitionTable
      /\ <<"planned", "run.enriched", "enriched">> \in transitionTable
      /\ <<"submitted", "sandbox.created", "sandbox_ready">> \in transitionTable
      /\ <<"sandbox_ready", "agent.executing", "executing">> \in transitionTable
      /\ <<"executing", "agent.completed", "agent_completed">> \in transitionTable
  BY DEF transitionTable
<1>2. /\ <<"agent_completed", "verify.started", "verifying">> \in transitionTable
      /\ <<"verifying", "verify.passed", "agent_completed">> \in transitionTable
      /\ <<"verifying", "verify.failed", "refining">> \in transitionTable
      /\ <<"refining", "refine.triggered", "executing">> \in transitionTable
      /\ <<"agent_completed", "lint.started", "linting">> \in transitionTable
      /\ <<"linting", "lint.passed", "agent_completed">> \in transitionTable
      /\ <<"linting", "lint.failed", "refining">> \in transitionTable
  BY DEF transitionTable
<1>3. /\ <<"agent_completed", "run.completed", "completed">> \in transitionTable
      /\ <<"submitted", "governance.approval_required", "awaiting_approval">> \in transitionTable
      /\ <<"awaiting_approval", "governance.approved", "submitted">> \in transitionTable
      /\ <<"submitted", "run.cancelled", "cancelled">> \in transitionTable
      /\ <<"submitted", "run.failed", "failed">> \in transitionTable
  BY DEF transitionTable, Abortable
<1> DEFINE Second == {t[2] : t \in transitionTable}
<1>4. ASSUME NEW a, NEW b, NEW c, <<a, b, c>> \in transitionTable PROVE b \in Second
  BY <1>4
<1> HIDE DEF Second
<1>5. RowTypes \subseteq Second
  BY <1>1, <1>2, <1>3, <1>4 DEF RowTypes
<1> QED
  BY <1>5 DEF EventTypes, Second

\* Apply never leaves the type of the states.
LEMMA ApplyTyped ==
    ASSUME NEW s \in States, NEW ev
    PROVE  Apply(s, ev) \in States
<1>1. CASE ~Accepts(s, ev) \/ ev.type \in ObservationTypes
  BY <1>1 DEF Apply
<1>2. CASE Accepts(s, ev) /\ ev.type \notin ObservationTypes /\ ev.type = "refine.triggered"
  <2>1. s.attempt \in 1 .. 3 /\ {"failed", "executing"} \subseteq Phases
    BY DEF States, Phases, MaxAttempts
  <2>2. CASE AtCap(s)
    <3>1. Apply(s, ev) = [s EXCEPT !.phase = "failed"]
      BY <1>2, <2>2 DEF Apply
    <3> QED
      BY <2>1, <3>1 DEF States
  <2>3. CASE ~AtCap(s)
    <3>1. Apply(s, ev) = [s EXCEPT !.phase = "executing", !.attempt = @ + 1]
      BY <1>2, <2>3 DEF Apply
    <3>2. s.attempt + 1 \in 1 .. 3
      BY <2>1, <2>3 DEF AtCap, MaxAttempts
    <3> QED
      BY <2>1, <3>1, <3>2 DEF States, MaxAttempts
  <2> QED
    BY <2>2, <2>3
<1>3. CASE Accepts(s, ev) /\ ev.type \notin ObservationTypes /\ ev.type # "refine.triggered"
  <2> DEFINE q == CHOOSE p \in Phases : <<s.phase, ev.type, p>> \in transitionTable
  <2>1. q \in Phases
    BY <1>3 DEF Accepts, LookupTransition
  <2>2. Apply(s, ev) = [s EXCEPT !.phase = q]
    BY <1>3 DEF Apply
  <2> QED
    BY <2>1, <2>2 DEF States
<1> QED
  BY <1>1, <1>2, <1>3

LEMMA ReplayTyped ==
    ASSUME NEW rp \in Replays, NEW ev
    PROVE  ReplayStep(rp, ev) \in Replays
BY ApplyTyped DEF ReplayStep, Replays

\* One publication, seen from the types and from the terminal events.
LEMMA PublishTyped ==
    ASSUME SinkTypeOK, NEW type \in EventTypes, Publish(type)
    PROVE  /\ SinkTypeOK'
           /\ terminal' = IF IsTerminalEvent(type) THEN Append(terminal, type) ELSE terminal
           /\ ctxDone' = ctxDone
<1> DEFINE ev == [type |-> type, run |-> Self]
<1>1. live' \in States
  BY ApplyTyped DEF Publish, SinkTypeOK
<1>2. stored' \in Replays
  BY ReplayTyped DEF Publish, Persist, SinkTypeOK
<1>3. terminal' \in Seq({"run.completed", "run.failed", "run.cancelled"})
  BY DEF Publish, IsTerminalEvent, SinkTypeOK
<1>4. rejected' \subseteq EventTypes
  BY DEF Publish, SinkTypeOK
<1> QED
  BY <1>1, <1>2, <1>3, <1>4 DEF Publish, SinkTypeOK

-----------------------------------------------------------------------------
(* Where the run stands *)

Early     == {"execute", "submit", "policy", "approval", "worktree"}
Equipped  == {"mcp", "auth", "sandbox"}
Starting  == {"executing", "start"}
Gating    == {"command_check", "check", "checking", "check_err", "refine"}
Cycling   == {"command_agent", "agent", "reexecuting", "reexec", "final"} \cup Gating
Closing   == {"close", "cleanup", "announce"}
Failing   == {"record_failure", "announce_failure"}

Unstarted == Early \cup Equipped \cup Starting \cup {"record_failure", "delegated"}
Boxed     == Starting \cup Cycling \cup {"merge", "close"}

-----------------------------------------------------------------------------
(* The inductive invariant *)

\* What Run holds at each point is what the rest of it will give back.
Resources ==
    /\ pc \in Early \cup {"delegated"} => worktree = "none" /\ box = "none"
    /\ pc \in Equipped => worktree = "present" /\ box = "none"
    /\ pc \in Boxed => worktree = "present" /\ box = "present"
    /\ pc = "cleanup" => worktree = "present" /\ box \in {"gone", "stuck"}
    /\ pc = "announce" => box \in {"gone", "stuck"} /\ (worktree = "present" => opts.keep)
    /\ pc \in Failing => box # "present" /\ worktree # "present"
    /\ pc = "over" => box # "present" /\ (worktree = "present" => opts.keep /\ cause = "")
    /\ box = "orphan" => cause = "sandbox"
    /\ worktree = "orphan" => cause = "worktree" /\ box = "none" /\ pc \in Failing \cup {"over"}

\* Only the early returns have a cause, and only auth's is not on its way to
\* an announcement.
Causes ==
    /\ pc \notin Failing \cup {"over"} => cause = ""
    /\ pc \in Failing => cause \notin {"", "auth"}

\* The row appears with the agent and settles once.
Rows ==
    /\ pc \in Unstarted => row = "none" /\ ~lost
    /\ pc \in Cycling \cup {"merge", "close", "cleanup"} => row = "running" \/ (row = "none" /\ lost)
    /\ pc = "announce" => row = status \/ lost
    /\ pc = "announce_failure" => row = "failure" \/ lost
    /\ pc = "over" /\ ~lost => row \in RowContract!Outcomes

\* The terminal event is the last thing a run does.
Announced ==
    /\ pc # "over" => terminal = <<>>
    /\ pc = "over" => IF cause = "auth" THEN terminal = <<>> ELSE Len(terminal) = 1

\* The gates passed are those of the attempt that is being checked, in order.
Checked ==
    /\ pc \in Gating => /\ gate \in ActiveGates
                        /\ gate = "lint" /\ RefineActive => "verify" \in passed
    /\ pc = "final" /\ ~bad /\ runErr # "deadline" => ActiveGates \subseteq passed

\* What finalization decided still holds of the attempt it decided on.
Decided ==
    /\ (pc \notin Closing \cup {"merge", "over"} \/ cause # "") => status = ""
    /\ pc \in Closing \cup {"merge"} => status # ""
    /\ status = "success" => ~bad /\ runErr # "deadline" /\ ActiveGates \subseteq passed
    /\ merged => status = "success" /\ pc \in Closing \cup {"over"}

\* No agent was started on the way to a worktree.
Counted ==
    /\ pc \in Unstarted => attempts = 0
    /\ cause # "" => attempts = 0
    /\ cause \in {"governance", "approval", "wait_canceled"} => worktree = "none" /\ box = "none"

RunInvariant ==
    /\ Resources /\ Causes /\ Rows /\ Announced
    /\ Checked /\ Decided /\ Counted /\ AttemptBudget

-----------------------------------------------------------------------------
(* What a step publishes *)

\* The events of the pipeline that neither end the run nor count an attempt.
Progress ==
    {"run.submitted", "governance.denied", "governance.approval_required",
     "governance.approved", "mcp.injected", "sandbox.created", "agent.executing",
     "execute.requested", "verify.requested", "lint.requested", "agent.completed",
     "verify.started", "lint.started", "verify.failed", "lint.failed", "verify.passed",
     "lint.passed", "sandbox.destroyed"}

\* The events of the kernel.
Thoughts ==
    {"classify.requested", "architect.requested", "stepback.requested", "plan.requested",
     "strategy.requested", "modelroute.requested", "enrich.requested",
     "run.classified", "run.architected", "run.stepped_back", "run.planned",
     "run.strategy_selected", "run.model_routed", "brain.lesson_recalled", "run.enriched"}

Outcome == {"run.completed", "run.failed", "run.cancelled"}

LEMMA PublishedTypes ==
    /\ Progress \cup Thoughts \cup Outcome \cup {"refine.triggered"} \subseteq EventTypes
    /\ \A t \in Progress \cup Thoughts \cup {"refine.triggered"} : ~IsTerminalEvent(t)
    /\ \A t \in Outcome : IsTerminalEvent(t)
<1>1. Progress \cup Thoughts \cup Outcome \cup {"refine.triggered"}
        \subseteq ObservationTypes \cup UnlistedTypes \cup RowTypes
  BY DEF Progress, Thoughts, Outcome, ObservationTypes, UnlistedTypes, RowTypes
<1>2. ObservationTypes \cup UnlistedTypes \cup RowTypes \subseteq EventTypes
  BY RowTypesAreEvents DEF EventTypes
<1> QED
  BY <1>1, <1>2 DEF Progress, Thoughts, Outcome, IsTerminalEvent

\* The kernel publishes thoughts, one at a time.
LEMMA ProcessPublishes ==
    ASSUME KernelTypeOK, NEW r \in BOOLEAN, Process(r)
    PROVE  UNCHANGED sinkVars \/ \E t \in Thoughts : Publish(t)
<1>1. CASE SkipStage \/ StageDegrades(r)
  BY <1>1 DEF SkipStage, StageDegrades
<1>2. CASE CommandStage(r)
  BY <1>2 DEF CommandStage, Command, Thoughts
<1>3. CASE StageDone(r)
  <2>1. stage \in Stages /\ Publish(ResultEvent[stage])
    BY <1>3 DEF StageDone, WorkReady
  <2>2. ResultEvent[stage] \in Thoughts
    BY <2>1 DEF Stages, ResultEvent, Thoughts
  <2> QED
    BY <2>1, <2>2
<1> QED
  BY <1>1, <1>2, <1>3 DEF Process

LEMMA ProcessTyped ==
    ASSUME KernelTypeOK, NEW r \in BOOLEAN, Process(r)
    PROVE  KernelTypeOK'
<1>1. \A x \in Stages : After[x] \in Stages \cup {"done"}
  BY DEF Stages, After
<1>2. CASE SkipStage
  BY <1>1, <1>2 DEF SkipStage, KernelTypeOK
<1>3. CASE StageDegrades(r)
  BY <1>1, <1>3 DEF StageDegrades, WorkReady, KernelTypeOK
<1>4. CASE CommandStage(r)
  BY <1>4 DEF CommandStage, KernelTypeOK
<1>5. CASE StageDone(r)
  <2>1. stage' \in Stages \cup {"off", "done"} /\ commanded' = FALSE
    BY <1>1, <1>5 DEF StageDone, WorkReady
  <2>2. class' \in {"plain", "divergent", "high"}
    BY <1>5 DEF StageDone, KernelTypeOK
  <2>3. roots' \in 0 .. MaxRoots
    <3>1. roots' \in 1 .. MaxRoots \/ roots' = roots
      BY <1>5 DEF StageDone
    <3> QED
      <4>1. roots \in 0 .. 2
        BY DEF KernelTypeOK, MaxRoots
      <4> QED
        BY <3>1, <4>1 DEF MaxRoots
  <2>4. strategy' \in {"", "single", "refine", "parallel"} /\ enriched' \in BOOLEAN
    BY <1>5 DEF StageDone, KernelTypeOK, Select
  <2> QED
    BY <2>1, <2>2, <2>3, <2>4 DEF KernelTypeOK
<1> QED
  BY <1>2, <1>3, <1>4, <1>5 DEF Process

\* What a step of the pipeline does to the observers: nothing, or it is the
\* environment's, or one event, of which only the last one is an outcome.
Observed ==
    \/ UNCHANGED sinkVars
    \/ ctxDone' = TRUE /\ UNCHANGED <<live, stored, terminal, rejected>>
    \/ \E t \in Progress \cup Thoughts : Publish(t)
    \/ pc = "refine" /\ pc' = "reexecuting" /\ Publish("refine.triggered")
    \/ /\ pc \in {"announce", "announce_failure"} /\ pc' = "over"
       /\ \E t \in Outcome : Publish(t)

LEMMA StepObserved ==
    ASSUME TypeOK, [Next]_vars
    PROVE  Observed
<1>1. CASE Dispatch \/ PolicyAllows \/ NotApproved \/ CreateWorktree \/ SkipMCP \/
           InjectMCPFails \/ ApplyAuth \/ ApplyAuthFails \/ CreateSandboxFails \/
           StartAgent \/ StartAgentFails \/ RecordFailure \/ RefineExhausted \/
           Reexec \/ DecideStatus \/ ApplyStrategy \/ Cleanup \/ Deadline \/ Over
  BY <1>1 DEF Observed, vars, Dispatch, PolicyAllows, NotApproved, CreateWorktree, SkipMCP, InjectMCPFails, ApplyAuth,
              ApplyAuthFails, CreateSandboxFails, StartAgent, StartAgentFails,
              RecordFailure, RefineExhausted, Reexec, DecideStatus, ApplyStrategy,
              Cleanup, Deadline, Over
<1>2. CASE Submit \/ PolicyDenies \/ PolicyReviews \/ Approved \/ InjectMCP \/ CreateSandbox \/
           AnnounceExecuting \/ PublishCommand \/ AgentStep \/ StartCheck \/
           CheckError \/ CheckPasses \/ CheckFails \/ RefineDenied \/
           RefineTriggered \/ AnnounceReexecuting \/ CloseSandbox
  BY <1>2 DEF Observed, Progress,
              Submit, PolicyDenies, PolicyReviews, Approved, InjectMCP, CreateSandbox,
              AnnounceExecuting, PublishCommand, AgentStep, StartCheck, CheckError,
              CheckPasses, CheckFails, RefineDenied, RefineTriggered,
              AnnounceReexecuting, CloseSandbox
<1>3. CASE RunKernel
  <2>1. opts.reactive \in BOOLEAN
    BY OptionsAssumption DEF TypeOK, Options
  <2> QED
    BY <1>3, <2>1, ProcessPublishes DEF RunKernel, TypeOK, Observed
<1>4. CASE AnnounceFailure \/ AnnounceOutcome
  BY <1>4 DEF AnnounceFailure, AnnounceOutcome, Observed, Outcome
<1>5. CASE CancelContext
  BY <1>5 DEF CancelContext, Observed
<1>6. CASE UNCHANGED vars
  BY <1>6 DEF vars, Observed
<1> QED
  BY <1>1, <1>2, <1>3, <1>4, <1>5, <1>6 DEF Next, Step, Prepare, Cycle, Finalize

LEMMA ObservedTyped ==
    ASSUME SinkTypeOK, Observed
    PROVE  /\ SinkTypeOK'
           /\ \/ terminal' = terminal
              \/ /\ pc \in {"announce", "announce_failure"} /\ pc' = "over"
                 /\ \E t \in Outcome : terminal' = Append(terminal, t)
<1>1. CASE UNCHANGED sinkVars
  BY <1>1 DEF sinkVars, SinkTypeOK
<1>2. CASE ctxDone' = TRUE /\ UNCHANGED <<live, stored, terminal, rejected>>
  BY <1>2 DEF SinkTypeOK
<1>3. ASSUME NEW t \in Progress \cup Thoughts \cup {"refine.triggered"}, Publish(t)
      PROVE  SinkTypeOK' /\ terminal' = terminal
  BY <1>3, PublishedTypes, PublishTyped
<1>4. ASSUME NEW t \in Outcome, Publish(t)
      PROVE  SinkTypeOK' /\ terminal' = Append(terminal, t)
  BY <1>4, PublishedTypes, PublishTyped
<1> QED
  BY <1>1, <1>2, <1>3, <1>4 DEF Observed

LEMMA KernelStep ==
    ASSUME TypeOK, [Next]_vars
    PROVE  KernelTypeOK'
<1>1. CASE UNCHANGED kernelVars
  BY <1>1 DEF kernelVars, KernelTypeOK, TypeOK
<1>2. CASE RunKernel
  <2>1. opts.reactive \in BOOLEAN
    BY OptionsAssumption DEF TypeOK, Options
  <2> QED
    BY <1>2, <2>1, ProcessTyped DEF RunKernel, TypeOK
<1>3. CASE Next /\ ~RunKernel
  BY <1>1, <1>3 DEF Next, Step, Prepare, Cycle, Finalize, vars,
                    Dispatch, PolicyAllows, NotApproved, CreateWorktree, SkipMCP, InjectMCPFails, ApplyAuth,
                    ApplyAuthFails, CreateSandboxFails, StartAgent, StartAgentFails,
                    RecordFailure, RefineExhausted, Reexec, DecideStatus, ApplyStrategy,
                    Cleanup, Deadline, Over, Submit, PolicyDenies, PolicyReviews,
                    Approved, InjectMCP, CreateSandbox, AnnounceExecuting,
                    PublishCommand, AgentStep, StartCheck, CheckError, CheckPasses,
                    CheckFails, RefineDenied, RefineTriggered, AnnounceReexecuting,
                    CloseSandbox, AnnounceFailure, AnnounceOutcome, CancelContext
<1> QED
  BY <1>1, <1>2, <1>3 DEF vars

-----------------------------------------------------------------------------
(* Every step preserves the invariant *)

\* TypeOK of the variables of Run itself.
RunTypeOK ==
    /\ opts \in OptionSet
    /\ pc \in PCs
    /\ gate \in Gates
    /\ attempts \in Nat
    /\ bad \in BOOLEAN
    /\ runErr \in {"nil", "canceled", "deadline"}
    /\ worktree \in Resource
    /\ box \in Resource
    /\ row \in {"none", "running", "success", "failure", "cancelled"}
    /\ lost \in BOOLEAN
    /\ status \in {"", "success", "failure", "cancelled"}
    /\ passed \subseteq Gates
    /\ merged \in BOOLEAN
    /\ cause \in {"", "governance", "approval", "wait_canceled", "worktree",
                  "mcp", "auth", "sandbox", "exec"}

\* Nothing that is derived from the options changes under way.
OptionsSame ==
    /\ ActiveGates' = ActiveGates
    /\ RefineActive' <=> RefineActive
    /\ LintActive' <=> LintActive
    /\ EffectiveMax' = EffectiveMax

LEMMA SameOptions == opts' = opts => OptionsSame
BY DEF OptionsSame, ActiveGates, RefineActive, LintActive, EffectiveMax

LEMMA TerminalGrows ==
    ASSUME SinkTypeOK, Observed
    PROVE  \/ terminal' = terminal
           \/ /\ pc \in {"announce", "announce_failure"} /\ pc' = "over"
              /\ terminal = <<>> => Len(terminal') = 1
<1>1. ASSUME NEW t \in Outcome, terminal = <<>>, terminal' = Append(terminal, t)
      PROVE  Len(terminal') = 1
  BY <1>1 DEF SinkTypeOK
<1> QED
  BY <1>1, ObservedTyped

LEMMA OneMore ==
    ASSUME NEW a \in Nat, NEW m \in Nat, ~(a >= m)
    PROVE  a + 1 \in Nat /\ a + 1 <= m
OBVIOUS

LEMMA OutcomeAnnounced ==
    ASSUME SinkTypeOK, terminal = <<>>, NEW t \in Outcome, Publish(t)
    PROVE  Len(terminal') = 1
BY PublishedTypes, PublishTyped DEF SinkTypeOK

LEMMA OutcomesAre == RowContract!Outcomes = {"success", "failure", "cancelled"}
BY DEF RowContract!Outcomes, RowContract!Announcement

LEMMA GatesAre ==
    /\ ActiveGates \subseteq {"verify", "lint"}
    /\ "verify" \in ActiveGates <=> RefineActive
    /\ "lint" \in ActiveGates <=> LintActive
BY DEF ActiveGates, Gates

LEMMA SomeAttempt ==
    ASSUME opts \in OptionSet
    PROVE  EffectiveMax \in Nat /\ EffectiveMax >= 1
<1>1. opts.maxAttempts \in Nat
  BY OptionsAssumption DEF Options
<1> QED
  BY <1>1 DEF EffectiveMax

LEMMA PrepareStep ==
    ASSUME TypeOK, RunInvariant, Observed, Prepare
    PROVE  RunTypeOK' /\ RunInvariant'
<1>o. /\ opts' = opts => OptionsSame
      /\ \/ terminal' = terminal
         \/ /\ pc \in {"announce", "announce_failure"} /\ pc' = "over"
            /\ terminal = <<>> => Len(terminal') = 1
  BY SameOptions, TerminalGrows DEF TypeOK
<1>r. {"none", "present", "gone", "stuck", "orphan"} \subseteq Resource
  BY DEF Resource
<1> USE <1>o DEF TypeOK, RunTypeOK, RunInvariant, execVars, resVars, rowVars, endVars, runVars
<1> USE <1>r DEF cleanupWorktree, closeSandbox
<1> USE DEF Resources, Causes, Rows, Announced, Checked, Decided, Counted, AttemptBudget
<1> USE DEF Early, Equipped, Starting, Gating, Cycling, Closing, Failing, Unstarted, Boxed
<1> USE DEF OptionsSame, PCs, Gates
<1>1. CASE RunKernel
  BY <1>1 DEF RunKernel
<1>2. CASE Dispatch
  BY <1>2 DEF Dispatch
<1>3. CASE Submit
  BY <1>3 DEF Submit
<1>4. CASE PolicyAllows
  BY <1>4 DEF PolicyAllows
<1>5. CASE PolicyDenies
  BY <1>5 DEF PolicyDenies
<1>6. CASE PolicyReviews
  BY <1>6 DEF PolicyReviews
<1>7. CASE Approved
  BY <1>7 DEF Approved
<1>8. CASE NotApproved
  BY <1>8 DEF NotApproved
<1>9. CASE CreateWorktree
  BY <1>9 DEF CreateWorktree
<1>10. CASE SkipMCP
  BY <1>10 DEF SkipMCP
<1>11. CASE InjectMCP
  BY <1>11 DEF InjectMCP
<1>12. CASE InjectMCPFails
  BY <1>12 DEF InjectMCPFails
<1>13. CASE ApplyAuth
  BY <1>13 DEF ApplyAuth
<1>14. CASE ApplyAuthFails
  BY <1>14, OutcomesAre DEF ApplyAuthFails, CreateRun
<1>15. CASE CreateSandbox
  BY <1>15 DEF CreateSandbox
<1>16. CASE CreateSandboxFails
  BY <1>16 DEF CreateSandboxFails
<1>17. CASE AnnounceExecuting
  BY <1>17 DEF AnnounceExecuting
<1>18. CASE StartAgent
  BY <1>18, SomeAttempt DEF StartAgent, CreateRun, ToAgent
<1>19. CASE StartAgentFails
  BY <1>19 DEF StartAgentFails
<1>20. CASE RecordFailure
  BY <1>20 DEF RecordFailure, CreateRun
<1>21. CASE AnnounceFailure
  <2>1. Len(terminal') = 1
    BY <1>21, OutcomeAnnounced DEF AnnounceFailure, Outcome
  <2> QED
    <3>1. Announced'
      BY <1>21, <2>1 DEF AnnounceFailure
    <3>2. Rows'
      BY <1>21, OutcomesAre DEF AnnounceFailure
    <3>3. RunTypeOK'
      BY <1>21 DEF AnnounceFailure
    <3>4. Resources' /\ Causes'
      BY <1>21 DEF AnnounceFailure
    <3>5. Checked' /\ Decided' /\ Counted' /\ AttemptBudget'
      BY <1>21 DEF AnnounceFailure
    <3> QED
      BY <3>1, <3>2, <3>3, <3>4, <3>5
<1> QED
  BY <1>1, <1>2, <1>3, <1>4, <1>5, <1>6, <1>7, <1>8, <1>9, <1>10, <1>11, <1>12, <1>13, <1>14, <1>15, <1>16, <1>17, <1>18, <1>19, <1>20, <1>21 DEF Prepare

LEMMA CycleStep ==
    ASSUME TypeOK, RunInvariant, Observed, Cycle
    PROVE  RunTypeOK' /\ RunInvariant'
<1>o. /\ opts' = opts => OptionsSame
      /\ \/ terminal' = terminal
         \/ /\ pc \in {"announce", "announce_failure"} /\ pc' = "over"
            /\ terminal = <<>> => Len(terminal') = 1
  BY SameOptions, TerminalGrows DEF TypeOK
<1>r. {"none", "present", "gone", "stuck", "orphan"} \subseteq Resource
  BY DEF Resource
<1> USE <1>o DEF TypeOK, RunTypeOK, RunInvariant, execVars, resVars, rowVars, endVars, runVars
<1> USE <1>r DEF cleanupWorktree, closeSandbox
<1> USE DEF Resources, Causes, Rows, Announced, Checked, Decided, Counted, AttemptBudget
<1> USE DEF Early, Equipped, Starting, Gating, Cycling, Closing, Failing, Unstarted, Boxed
<1> USE DEF OptionsSame, PCs, Gates
<1>1. CASE PublishCommand
  BY <1>1 DEF PublishCommand
<1>2. CASE AgentStep
  <2>1. CASE runErr = "deadline" \/ ActiveGates = {} \/ bad'
    BY <1>2, <2>1, GatesAre DEF AgentStep
  <2>2. CASE ~(runErr = "deadline" \/ ActiveGates = {} \/ bad')
    <3>1. Checked'
      BY <1>2, <2>2, GatesAre DEF AgentStep, ToCheck
    <3>2. RunTypeOK' /\ Resources' /\ Causes' /\ Rows' /\ Announced'
      BY <1>2, <2>2 DEF AgentStep, ToCheck
    <3>3. Decided' /\ Counted' /\ AttemptBudget'
      BY <1>2, <2>2 DEF AgentStep, ToCheck
    <3> QED
      BY <3>1, <3>2, <3>3
  <2> QED
    BY <2>1, <2>2
<1>3. CASE StartCheck
  BY <1>3 DEF StartCheck
<1>4. CASE CheckError
  BY <1>4 DEF CheckError
<1>5. CASE CheckPasses
  BY <1>5, GatesAre DEF CheckPasses, ToCheck
<1>6. CASE CheckFails
  BY <1>6 DEF CheckFails
<1>7. CASE RefineExhausted
  BY <1>7 DEF RefineExhausted
<1>8. CASE RefineDenied
  BY <1>8 DEF RefineDenied
<1>9. CASE RefineTriggered
  <2>1. attempts' \in Nat /\ attempts' <= EffectiveMax
    <3>1. EffectiveMax \in Nat
      BY SomeAttempt
    <3>2. attempts \in Nat /\ attempts' = attempts + 1 /\ ~(attempts >= EffectiveMax)
      BY <1>9 DEF RefineTriggered, Exhausted
    <3> QED
      BY <3>1, <3>2, OneMore
  <2> QED
    BY <1>9, <2>1 DEF RefineTriggered
<1>10. CASE AnnounceReexecuting
  BY <1>10 DEF AnnounceReexecuting
<1>11. CASE Reexec
  BY <1>11 DEF Reexec, ToAgent
<1> QED
  BY <1>1, <1>2, <1>3, <1>4, <1>5, <1>6, <1>7, <1>8, <1>9, <1>10, <1>11 DEF Cycle

LEMMA FinalizeStep ==
    ASSUME TypeOK, RunInvariant, Observed, Finalize
    PROVE  RunTypeOK' /\ RunInvariant'
<1>o. /\ opts' = opts => OptionsSame
      /\ \/ terminal' = terminal
         \/ /\ pc \in {"announce", "announce_failure"} /\ pc' = "over"
            /\ terminal = <<>> => Len(terminal') = 1
  BY SameOptions, TerminalGrows DEF TypeOK
<1>r. {"none", "present", "gone", "stuck", "orphan"} \subseteq Resource
  BY DEF Resource
<1> USE <1>o DEF TypeOK, RunTypeOK, RunInvariant, execVars, resVars, rowVars, endVars, runVars
<1> USE <1>r DEF cleanupWorktree, closeSandbox
<1> USE DEF Resources, Causes, Rows, Announced, Checked, Decided, Counted, AttemptBudget
<1> USE DEF Early, Equipped, Starting, Gating, Cycling, Closing, Failing, Unstarted, Boxed
<1> USE DEF OptionsSame, PCs, Gates
<1>1. CASE DecideStatus
  BY <1>1 DEF DecideStatus
<1>2. CASE ApplyStrategy
  BY <1>2 DEF ApplyStrategy
<1>3. CASE CloseSandbox
  BY <1>3 DEF CloseSandbox
<1>4. CASE Cleanup
  <2>0. worktree' \in Resource
    BY <1>4 DEF Cleanup
  <2>r. /\ row' \in {"none", "running", "success", "failure", "cancelled"}
        /\ lost' \in BOOLEAN
        /\ row' = status' \/ lost'
    <3>1. row' = row \/ row' = status
      BY <1>4 DEF Cleanup, UpdateRun
    <3>2. status \in {"success", "failure", "cancelled"}
      BY <1>4 DEF Cleanup
    <3>3. lost' = lost \/ lost' = TRUE
      BY <1>4 DEF Cleanup, UpdateRun
    <3>4. row' = status' \/ lost'
      <4>1. pc = "cleanup" /\ UpdateRun(status) /\ status' = status
        BY <1>4 DEF Cleanup
      <4>2. row # "none" \/ lost
        BY <4>1
      <4> QED
        BY <4>1, <4>2, Zenon DEF UpdateRun
    <3> QED
      BY <3>1, <3>2, <3>3, <3>4
  <2>p. pc' = "announce" /\ UNCHANGED <<opts, runErr, cause, box, execVars, endVars>>
    BY <1>4 DEF Cleanup
  <2>1. RunTypeOK' /\ Rows'
    BY <2>0, <2>r, <2>p
  <2>2. Resources' /\ Causes' /\ Announced' /\ Checked' /\ Decided' /\ Counted' /\ AttemptBudget'
    BY <1>4 DEF Cleanup
  <2> QED
    BY <2>1, <2>2
<1>5. CASE AnnounceOutcome
  <2>1. Len(terminal') = 1
    BY <1>5, OutcomeAnnounced DEF AnnounceOutcome, Outcome
  <2> QED
    <3>1. Announced'
      BY <1>5, <2>1 DEF AnnounceOutcome
    <3>2. Rows'
      BY <1>5, OutcomesAre DEF AnnounceOutcome
    <3>3. RunTypeOK'
      BY <1>5 DEF AnnounceOutcome
    <3>4. Resources' /\ Causes'
      BY <1>5 DEF AnnounceOutcome
    <3>5. Checked' /\ Decided' /\ Counted' /\ AttemptBudget'
      BY <1>5 DEF AnnounceOutcome
    <3> QED
      BY <3>1, <3>2, <3>3, <3>4, <3>5
<1> QED
  BY <1>1, <1>2, <1>3, <1>4, <1>5 DEF Finalize

LEMMA EnvironmentStep ==
    ASSUME TypeOK, RunInvariant, CancelContext \/ Deadline \/ UNCHANGED vars
    PROVE  RunTypeOK' /\ RunInvariant'
<1>o. opts' = opts => OptionsSame
  BY SameOptions
<1>r. {"none", "present", "gone", "stuck", "orphan"} \subseteq Resource
  BY DEF Resource
<1> USE <1>o DEF TypeOK, RunTypeOK, RunInvariant, execVars, resVars, rowVars, endVars, runVars
<1> USE <1>r DEF cleanupWorktree, closeSandbox
<1> USE DEF Resources, Causes, Rows, Announced, Checked, Decided, Counted, AttemptBudget
<1> USE DEF OptionsSame, RowContract!Outcomes, RowContract!Announcement
<1>1. CASE CancelContext
  <2>1. RunTypeOK'
    BY <1>1 DEF CancelContext
  <2>2. Resources' /\ Causes'
    BY <1>1 DEF CancelContext
  <2>3. Rows'
    BY <1>1 DEF CancelContext
  <2>4. Announced'
    BY <1>1 DEF CancelContext
  <2>5. Checked'
    BY <1>1 DEF CancelContext
  <2>6. Decided'
    BY <1>1 DEF CancelContext
  <2>7. Counted' /\ AttemptBudget'
    BY <1>1 DEF CancelContext
  <2> QED
    BY <2>1, <2>2, <2>3, <2>4, <2>5, <2>6, <2>7
<1>2. CASE Deadline
  <2>1. RunTypeOK'
    BY <1>2 DEF Deadline, InRunCtx, sinkVars, Closing
  <2>2. Resources' /\ Causes'
    BY <1>2 DEF Deadline, InRunCtx, sinkVars, Closing
  <2>3. Rows'
    BY <1>2 DEF Deadline, InRunCtx, sinkVars, Closing
  <2>4. Announced'
    BY <1>2 DEF Deadline, InRunCtx, sinkVars, Closing
  <2>5. Checked'
    BY <1>2 DEF Deadline, InRunCtx, sinkVars, Closing
  <2>6. Decided'
    BY <1>2 DEF Deadline, InRunCtx, sinkVars, Closing
  <2>7. Counted' /\ AttemptBudget'
    BY <1>2 DEF Deadline, InRunCtx, sinkVars, Closing
  <2> QED
    BY <2>1, <2>2, <2>3, <2>4, <2>5, <2>6, <2>7
<1>3. CASE UNCHANGED vars
  <2>1. RunTypeOK'
    BY <1>3 DEF vars, sinkVars
  <2>2. Resources' /\ Causes'
    BY <1>3 DEF vars, sinkVars
  <2>3. Rows'
    BY <1>3 DEF vars, sinkVars
  <2>4. Announced'
    BY <1>3 DEF vars, sinkVars
  <2>5. Checked'
    BY <1>3 DEF vars, sinkVars
  <2>6. Decided'
    BY <1>3 DEF vars, sinkVars
  <2>7. Counted' /\ AttemptBudget'
    BY <1>3 DEF vars, sinkVars
  <2> QED
    BY <2>1, <2>2, <2>3, <2>4, <2>5, <2>6, <2>7
<1> QED
  BY <1>1, <1>2, <1>3

LEMMA InvariantStep ==
    ASSUME TypeOK, RunInvariant, [Next]_vars
    PROVE  TypeOK' /\ RunInvariant'
<1>1. Observed /\ SinkTypeOK' /\ KernelTypeOK'
  BY StepObserved, ObservedTyped, KernelStep DEF TypeOK
<1>2. RunTypeOK' /\ RunInvariant'
  BY <1>1, PrepareStep, CycleStep, FinalizeStep, EnvironmentStep DEF Next, Step, Over
<1> QED
  BY <1>1, <1>2 DEF TypeOK, RunTypeOK

LEMMA InvariantInit == Init => TypeOK /\ RunInvariant
<1> SUFFICES ASSUME Init PROVE TypeOK /\ RunInvariant
  OBVIOUS
<1>1. SinkTypeOK
  <2>1. NewExecutionState(Self) \in States
    BY SelfAssumption DEF NewExecutionState, States, Phases, MaxAttempts
  <2>2. NewReplay(Self) \in Replays
    BY <2>1 DEF NewReplay, Replays
  <2> QED
    <3>1. <<>> \in Seq({"run.completed", "run.failed", "run.cancelled"})
      OBVIOUS
    <3> QED
      BY <2>1, <2>2, <3>1, Zenon DEF Init, SinkInit, SinkTypeOK
<1>2. KernelTypeOK
  <2>1. roots \in 0 .. MaxRoots
    <3>1. roots = 0
      BY DEF Init, KernelInit
    <3> QED
      BY <3>1 DEF MaxRoots
  <2> QED
    BY <2>1 DEF Init, KernelInit, KernelTypeOK, Stages
<1>3. RunTypeOK
  BY DEF Init, RunTypeOK, PCs, Gates, Resource
<1>4. Resources /\ Causes /\ Rows /\ Announced
  BY DEF Init, SinkInit, Resources, Causes, Rows, Announced, Early, Equipped, Starting, Gating,
         Cycling, Failing, Unstarted, Boxed
<1>5. Checked /\ Decided /\ Counted
  BY DEF Init, Checked, Decided, Counted, Gating, Closing
<1>6. AttemptBudget
  <2>1. attempts = 0 /\ EffectiveMax \in Nat
    BY SomeAttempt DEF Init
  <2> QED
    BY <2>1 DEF AttemptBudget
<1> QED
  BY <1>1, <1>2, <1>3, <1>4, <1>5, <1>6 DEF TypeOK, RunTypeOK, RunInvariant

-----------------------------------------------------------------------------
(* What follows *)

\* Every step of Execute and Run preserves the invariant, whatever the options.
THEOREM RunInvariantHolds == Spec => [](TypeOK /\ RunInvariant)
BY InvariantInit, InvariantStep, PTL DEF Spec

\* Only work that passed every active gate of the attempt that is merged reaches
\* the user's branch, a denied or unapproved run costs nothing, and the agent is
\* invoked no more often than RefineOptions allows.
THEOREM PipelineStaysInBounds == Spec => []PipelineInvariant
<1>1. TypeOK /\ RunInvariant => PipelineInvariant
  BY DEF RunInvariant, Decided, Counted, PipelineInvariant, MergeNeedsGates, GateFailsClosed
<1> QED
  BY <1>1, RunInvariantHolds, PTL

\* Every early return and the finalizer give back the sandbox and the worktree,
\* in that order, or find that they cannot, before anybody can know that the
\* run has ended; only what a failed creation left is given back by nobody.
THEOREM NothingIsLeaked == Spec => []NothingLeaks
<1>1. TypeOK /\ RunInvariant => NothingLeaks
  <2>1. SUFFICES ASSUME TypeOK, RunInvariant
                 PROVE  NothingLeaks
    OBVIOUS
  <2>2. worktree \in {"gone", "stuck"} => box # "present"
    BY <2>1 DEF TypeOK, PCs, RunInvariant, Resources,
                Early, Equipped, Starting, Gating, Cycling, Closing, Failing, Boxed
  <2> QED
    BY <2>1, <2>2 DEF RunInvariant, Resources, Announced, NothingLeaks, Ended
<1> QED
  BY <1>1, RunInvariantHolds, PTL

\* A run that ends has published one outcome (but for the early return of an auth
\* failure) and settled its row, unless the store failed.
THEOREM EndIsAnnounced == Spec => []EndsAnnounced
<1>1. TypeOK /\ RunInvariant => EndsAnnounced
  BY DEF RunInvariant, Rows, Announced, EndsAnnounced, Ended
<1> QED
  BY <1>1, RunInvariantHolds, PTL

-----------------------------------------------------------------------------
(* The refinement of RunContract *)

\* The row and the terminal event move as the contract says.
LEMMA ContractStep ==
    ASSUME TypeOK, RunInvariant, [Next]_vars
    PROVE  [RowContract!ContractNext]_(RowContract!contractVars)
<1>1. \/ terminal' = terminal
      \/ pc \in {"announce", "announce_failure"} /\ pc' = "over"
  BY StepObserved, ObservedTyped DEF TypeOK
<1> USE DEF RowContract!ContractNext, RowContract!contractVars, RowContract!Outcomes,
            RowContract!Announcement
<1>2. CASE ApplyAuthFails \/ RecordFailure
  <2>1. row = "none" /\ terminal = <<>> /\ terminal' = terminal
    BY <1>1, <1>2 DEF ApplyAuthFails, RecordFailure, RunInvariant, Rows, Announced, Unstarted,
                      Equipped, sinkVars
  <2>2. CreateRun("failure")
    BY <1>2 DEF ApplyAuthFails, RecordFailure
  <2> QED
    BY <2>1, <2>2 DEF CreateRun, RowContract!Settle
<1>3. CASE StartAgent
  <2>1. row = "none" /\ terminal = <<>> /\ terminal' = terminal
    BY <1>1, <1>3 DEF StartAgent, RunInvariant, Rows, Announced, Unstarted, Starting, sinkVars
  <2> QED
    BY <1>3, <2>1 DEF StartAgent, CreateRun, RowContract!Begin
<1>4. CASE Cleanup
  <2>1. (row = "running" \/ (row = "none" /\ lost)) /\ terminal = <<>> /\ terminal' = terminal
    BY <1>1, <1>4 DEF Cleanup, RunInvariant, Rows, Announced, sinkVars
  <2>2. status \in {"success", "failure", "cancelled"}
    BY <1>4 DEF Cleanup, RunInvariant, Decided, Closing, TypeOK
  <2>3. UpdateRun(status)
    BY <1>4 DEF Cleanup
  <2>4. CASE row = "running"
    BY <2>1, <2>2, <2>3, <2>4 DEF UpdateRun, RowContract!Settle
  <2>5. CASE row = "none" /\ lost
    BY <2>1, <2>3, <2>5 DEF UpdateRun, TypeOK
  <2> QED
    BY <2>1, <2>4, <2>5
<1>5. CASE AnnounceFailure
  <2>1. (row = "failure" \/ lost) /\ terminal = <<>>
    BY <1>5 DEF AnnounceFailure, RunInvariant, Rows, Announced
  <2>2. terminal' = Append(terminal, "run.failed")
    BY <1>5, PublishTyped, PublishedTypes DEF AnnounceFailure, Outcome, TypeOK
  <2>3. terminal' = <<"run.failed">> /\ UNCHANGED <<row, lost>>
    BY <1>5, <2>1, <2>2 DEF AnnounceFailure, rowVars
  <2> QED
    BY <2>1, <2>3 DEF RowContract!Announce
<1>6. CASE AnnounceOutcome
  <2>1. (row = status \/ lost) /\ terminal = <<>>
    BY <1>6 DEF AnnounceOutcome, RunInvariant, Rows, Announced
  <2>2. status \in {"success", "failure", "cancelled"}
    BY <1>6 DEF AnnounceOutcome, RunInvariant, Decided, Closing, TypeOK
  <2> DEFINE t == CASE status = "success" -> "run.completed"
                    [] status = "cancelled" -> "run.cancelled"
                    [] OTHER -> "run.failed"
  <2>3. t \in Outcome /\ t = RowContract!Announcement[status]
    BY <2>2 DEF Outcome
  <2>4. Publish(t)
    BY <1>6 DEF AnnounceOutcome
  <2>5. terminal' = Append(terminal, t)
    BY <2>3, <2>4, PublishTyped, PublishedTypes DEF TypeOK
  <2>6. terminal' = <<t>> /\ UNCHANGED <<row, lost>>
    BY <1>6, <2>1, <2>5 DEF AnnounceOutcome, rowVars
  <2> QED
    BY <2>1, <2>2, <2>3, <2>6 DEF RowContract!Announce
<1>7. CASE UNCHANGED rowVars /\ ~AnnounceFailure /\ ~AnnounceOutcome
  <2>1. terminal' = terminal
    BY <1>1, <1>7 DEF Next, Step, Prepare, Cycle, Finalize, RunKernel, runVars, vars, sinkVars,
                      Dispatch, Submit, PolicyAllows, PolicyDenies, PolicyReviews, Approved, NotApproved,
                      CreateWorktree, SkipMCP, InjectMCP, InjectMCPFails, ApplyAuth, ApplyAuthFails,
                      CreateSandbox, CreateSandboxFails, AnnounceExecuting, StartAgent,
                      StartAgentFails, RecordFailure, PublishCommand, AgentStep, StartCheck,
                      CheckError, CheckPasses, CheckFails, RefineExhausted, RefineDenied,
                      RefineTriggered, AnnounceReexecuting, Reexec, DecideStatus, ApplyStrategy,
                      CloseSandbox, Cleanup, CancelContext, Deadline, Over
  <2> QED
    BY <1>7, <2>1 DEF rowVars
<1>8. UNCHANGED rowVars \/ ApplyAuthFails \/ RecordFailure \/ StartAgent \/ Cleanup
  BY DEF Next, Step, Prepare, Cycle, Finalize, RunKernel, runVars, vars,
         Dispatch, Submit, PolicyAllows, PolicyDenies, PolicyReviews, Approved, NotApproved,
         CreateWorktree, SkipMCP, InjectMCP, InjectMCPFails, ApplyAuth, CreateSandbox,
         CreateSandboxFails, AnnounceExecuting, StartAgentFails, PublishCommand, AgentStep,
         StartCheck, CheckError, CheckPasses, CheckFails, RefineExhausted, RefineDenied,
         RefineTriggered, AnnounceReexecuting, Reexec, DecideStatus, ApplyStrategy,
         CloseSandbox, CancelContext, Deadline, Over, AnnounceFailure, AnnounceOutcome
<1> QED
  BY <1>2, <1>3, <1>4, <1>5, <1>6, <1>7, <1>8

\* Run implements RunContract: at most one outcome, in the row before it is
\* announced, and nothing afterwards.
THEOREM RunKeepsContract == Spec => KeepsContract
<1>1. Init => RowContract!ContractInit
  BY DEF Init, SinkInit, RowContract!ContractInit
<1>2. TypeOK /\ RunInvariant /\ [Next]_vars
        => [RowContract!ContractNext]_(RowContract!contractVars)
  BY ContractStep
<1> QED
  BY <1>1, <1>2, RunInvariantHolds, PTL DEF Spec, KeepsContract, RowContract!Contract

-----------------------------------------------------------------------------
(* The phase machine follows the run *)

Ev(t) == [type |-> t, run |-> Self]

\* The table has at most one row for a phase and an event type.
LEMMA TableIsAFunction ==
    ASSUME NEW a, NEW t, NEW q, NEW r,
           <<a, t, q>> \in transitionTable, <<a, t, r>> \in transitionTable
    PROVE  q = r
BY DEF transitionTable, Abortable

LEMMA RowsAreLive ==
    ASSUME NEW a, NEW t, NEW q, <<a, t, q>> \in transitionTable
    PROVE  ~IsTerminal(a) /\ t \notin ObservationTypes /\ q \in Phases
<1>1. ~IsTerminal(a)
  BY DEF transitionTable, Abortable, IsTerminal
<1>2. t \in RowTypes /\ q \in Phases
  BY RowsAreTyped
<1> QED
  BY <1>1, <1>2 DEF RowTypes, ObservationTypes

\* An event with a row takes the state along it.
LEMMA RowApplies ==
    ASSUME NEW s \in States, s.runID = Self, NEW t, NEW q,
           <<s.phase, t, q>> \in transitionTable, t # "refine.triggered"
    PROVE  Accepts(s, Ev(t)) /\ Apply(s, Ev(t)) = [s EXCEPT !.phase = q]
<1>1. Accepts(s, Ev(t))
  BY RowsAreLive DEF Accepts, LookupTransition, Ev
<1>2. (CHOOSE p \in Phases : <<s.phase, t, p>> \in transitionTable) = q
  BY RowsAreLive, TableIsAFunction
<1> QED
  BY <1>1, <1>2, RowsAreLive DEF Apply, Ev

\* Observations change nothing, and are accepted until the end.
LEMMA ObservationApplies ==
    ASSUME NEW s \in States, s.runID = Self, NEW t \in ObservationTypes
    PROVE  /\ Apply(s, Ev(t)) = s
           /\ ~IsTerminal(s.phase) => Accepts(s, Ev(t))
BY DEF Apply, Accepts, Ev

\* An event without a row changes nothing.
LEMMA NoRowApplies ==
    ASSUME NEW s \in States, NEW t, \A q \in Phases : <<s.phase, t, q>> \notin transitionTable
    PROVE  Apply(s, Ev(t)) = s
BY DEF Apply, Accepts, LookupTransition, Ev

LEMMA UnlistedApplies ==
    ASSUME NEW s \in States, NEW t \in UnlistedTypes
    PROVE  Apply(s, Ev(t)) = s /\ ~Accepts(s, Ev(t))
<1>1. t \notin RowTypes /\ t \notin ObservationTypes
  BY DEF UnlistedTypes, RowTypes, ObservationTypes
<1>2. \A q \in Phases : <<s.phase, t, q>> \notin transitionTable
  BY <1>1, RowsAreTyped
<1> QED
  BY <1>1, <1>2 DEF Apply, Accepts, LookupTransition, Ev

\* Below the cap a refined run goes back to executing, one attempt later.
LEMMA RefineApplies ==
    ASSUME NEW s \in States, s.runID = Self, s.phase = "refining", s.attempt < MaxAttempts
    PROVE  Apply(s, Ev("refine.triggered"))
             = [s EXCEPT !.phase = "executing", !.attempt = @ + 1]
<1>1. <<s.phase, "refine.triggered", "executing">> \in transitionTable
  BY DEF transitionTable
<1>2. Accepts(s, Ev("refine.triggered")) /\ "refine.triggered" \notin ObservationTypes
  BY <1>1, RowsAreLive DEF Accepts, LookupTransition, Ev
<1>3. ~AtCap(s)
  BY DEF AtCap, States, MaxAttempts
<1> QED
  BY <1>2, <1>3 DEF Apply, Ev

\* Nothing changes the run id of a state.
LEMMA RunIDStays ==
    ASSUME NEW s \in States, NEW ev
    PROVE  Apply(s, ev).runID = s.runID
BY DEF Apply, States

\* One publication, seen from the phase machine.
LEMMA PublishApplies ==
    ASSUME NEW t, Publish(t)
    PROVE  /\ live' = Apply(live, Ev(t))
           /\ stored' = IF ctxDone THEN stored ELSE ReplayStep(stored, Ev(t))
           /\ rejected' = IF Accepts(live, Ev(t)) THEN rejected ELSE rejected \cup {t}
BY DEF Publish, Persist, Ev

\* While the kernel thinks, its results take the machine to a phase of their own.
KernelPhase ==
    /\ stage = "off" <=> ~opts.kernel
    /\ pc # "execute" => stage \in {"off", "done"}
    /\ enriched => stage = "done"
    /\ stage = "classify" => live.phase = "submitted"
    /\ stage \in {"architect", "stepback", "plan"} => live.phase = "classified"
    /\ stage \in {"strategy", "route", "recall", "enrich"} => live.phase \in {"classified", "planned"}

\* How many attempts there have been, on either side.
Tries ==
    /\ pc \in Unstarted \cup {"announce_failure"} => live.attempt = 1
    /\ pc \in Cycling => attempts > 0
    /\ pc \in {"reexecuting", "reexec"} => attempts > 1

Followed == (opts.kernel => enriched) /\ attempts <= MaxAttempts

Ready == IF opts.kernel THEN "enriched" ELSE "submitted"

\* The phase at each point of a run that is followed.
Shape ==
    /\ pc \in {"execute", "submit", "policy", "worktree"} \cup Equipped => live.phase = Ready
    /\ pc = "approval" => live.phase = IF opts.kernel THEN "enriched" ELSE "awaiting_approval"
    /\ pc = "executing" => live.phase = "sandbox_ready"
    /\ pc \in {"start", "command_agent", "agent", "reexecuting", "reexec"} => live.phase = "executing"
    /\ pc \in {"command_check", "check"} => live.phase = "agent_completed"
    /\ pc \in {"checking", "check_err"} => live.phase = IF gate = "verify" THEN "verifying" ELSE "linting"
    /\ pc = "refine" => live.phase = "refining"
    /\ pc \in {"final", "merge"} \cup Closing =>
          live.phase \in Abortable /\ (~bad => live.phase = "agent_completed")
    /\ pc \in Failing => live.phase \in Abortable
    /\ pc = "over" /\ cause # "auth" => live.phase = OutcomePhase[terminal[1]]
    /\ attempts > 0 => live.attempt = attempts

\* Runs whose whole log has been stored and can be replayed.
Replayed == ~ctxDone /\ ~opts.kernel /\ attempts <= 1 /\ rejected \cap UnlistedTypes = {}

StoredIsLive == stored.ok /\ stored.st = live

PhaseInvariant ==
    /\ live.runID = Self
    /\ KernelPhase /\ Tries
    /\ Followed => Shape
    /\ Replayed => StoredIsLive

\* Only refine.triggered counts an attempt.
LEMMA AttemptStays ==
    ASSUME NEW s \in States, NEW t, t # "refine.triggered"
    PROVE  Apply(s, Ev(t)).attempt = s.attempt
BY DEF Apply, States, Ev

LEMMA PublishedKeeps ==
    ASSUME SinkTypeOK, NEW t, Publish(t)
    PROVE  /\ live'.runID = live.runID
           /\ t # "refine.triggered" => live'.attempt = live.attempt
           /\ rejected \subseteq rejected'
           /\ ctxDone' = ctxDone
<1>1. live \in States
  BY DEF SinkTypeOK
<1>2. live' = Apply(live, Ev(t)) /\ rejected \subseteq rejected'
  BY PublishApplies
<1>3. ctxDone' = ctxDone
  BY DEF Publish
<1> QED
  BY <1>1, <1>2, <1>3, AttemptStays, RunIDStays

\* An event with a row moves the cached state and the replayed one alike.
LEMMA PublishedRow ==
    ASSUME SinkTypeOK, live.runID = Self, NEW t, NEW q, Publish(t),
           <<live.phase, t, q>> \in transitionTable, t # "refine.triggered"
    PROVE  /\ live'.phase = q
           /\ ~ctxDone /\ StoredIsLive => StoredIsLive'
<1>1. live \in States /\ stored \in Replays
  BY DEF SinkTypeOK
<1>2. Accepts(live, Ev(t)) /\ Apply(live, Ev(t)) = [live EXCEPT !.phase = q]
  BY <1>1, RowApplies
<1>3. live' = Apply(live, Ev(t)) /\ (~ctxDone => stored' = ReplayStep(stored, Ev(t)))
  BY PublishApplies
<1>4. live'.phase = q
  BY <1>1, <1>2, <1>3 DEF States
<1>5. ASSUME ~ctxDone, StoredIsLive PROVE StoredIsLive'
  BY <1>1, <1>2, <1>3, <1>5 DEF StoredIsLive, ReplayStep, Replays
<1> QED
  BY <1>4, <1>5

\* An observation moves neither.
LEMMA PublishedObservation ==
    ASSUME SinkTypeOK, live.runID = Self, NEW t \in ObservationTypes, Publish(t)
    PROVE  /\ live' = live
           /\ ~IsTerminal(live.phase) /\ ~ctxDone /\ StoredIsLive => StoredIsLive'
<1>1. live \in States /\ stored \in Replays
  BY DEF SinkTypeOK
<1>2. Apply(live, Ev(t)) = live /\ (~IsTerminal(live.phase) => Accepts(live, Ev(t)))
  BY <1>1, ObservationApplies
<1>3. live' = Apply(live, Ev(t)) /\ (~ctxDone => stored' = ReplayStep(stored, Ev(t)))
  BY PublishApplies
<1>4. ASSUME ~IsTerminal(live.phase), ~ctxDone, StoredIsLive PROVE StoredIsLive'
  BY <1>1, <1>2, <1>3, <1>4 DEF StoredIsLive, ReplayStep, Replays
<1> QED
  BY <1>2, <1>3, <1>4

\* An unlisted event moves the cached state no more, and is remembered.
LEMMA PublishedUnlisted ==
    ASSUME SinkTypeOK, NEW t \in UnlistedTypes, Publish(t)
    PROVE  live' = live /\ rejected' \cap UnlistedTypes # {}
<1>1. live \in States
  BY DEF SinkTypeOK
<1> QED
  BY <1>1, PublishApplies, UnlistedApplies

LEMMA PublishedOutOfPlace ==
    ASSUME SinkTypeOK, NEW t, Publish(t),
           \A q \in Phases : <<live.phase, t, q>> \notin transitionTable
    PROVE  live' = live
<1>1. live \in States
  BY DEF SinkTypeOK
<1> QED
  BY <1>1, PublishApplies, NoRowApplies

\* A run that is followed after a step of Run was followed before it.
LEMMA Backwards ==
    ASSUME TypeOK, RunInvariant, [Next]_vars, ~RunKernel
    PROVE  /\ Followed' => Followed
           /\ Replayed' => Replayed
           /\ opts' = opts /\ UNCHANGED kernelVars
<1>1. opts' = opts /\ UNCHANGED kernelVars
  BY DEF Next, Step, Prepare, Cycle, Finalize, vars,
         Dispatch, PolicyAllows, NotApproved, CreateWorktree, SkipMCP, InjectMCPFails, ApplyAuth,
         ApplyAuthFails, CreateSandboxFails, StartAgent, StartAgentFails,
         RecordFailure, RefineExhausted, Reexec, DecideStatus, ApplyStrategy,
         Cleanup, Deadline, Over, Submit, PolicyDenies, PolicyReviews,
         Approved, InjectMCP, CreateSandbox, AnnounceExecuting,
         PublishCommand, AgentStep, StartCheck, CheckError, CheckPasses,
         CheckFails, RefineDenied, RefineTriggered, AnnounceReexecuting,
         CloseSandbox, AnnounceFailure, AnnounceOutcome, CancelContext, runVars
<1>2. attempts' = attempts \/ (attempts = 0 /\ attempts' = 1) \/ attempts' = attempts + 1
  BY DEF Next, Step, Prepare, Cycle, Finalize, vars, runVars, execVars,
         Dispatch, PolicyAllows, NotApproved, CreateWorktree, SkipMCP, InjectMCPFails, ApplyAuth,
         ApplyAuthFails, CreateSandboxFails, StartAgent, StartAgentFails,
         RecordFailure, RefineExhausted, Reexec, DecideStatus, ApplyStrategy,
         Cleanup, Deadline, Over, Submit, PolicyDenies, PolicyReviews,
         Approved, InjectMCP, CreateSandbox, AnnounceExecuting,
         PublishCommand, AgentStep, StartCheck, CheckError, CheckPasses,
         CheckFails, RefineDenied, RefineTriggered, AnnounceReexecuting,
         CloseSandbox, AnnounceFailure, AnnounceOutcome, CancelContext,
         RunInvariant, Counted, Unstarted, Starting
<1>3. \A m \in {1, 3} : attempts' <= m => attempts <= m
  <2>1. attempts \in Nat
    BY DEF TypeOK
  <2> QED
    BY <1>2, <2>1
<1>4. rejected \subseteq rejected' /\ (ctxDone => ctxDone')
  <2>1. Observed /\ SinkTypeOK
    BY StepObserved DEF TypeOK
  <2> QED
    BY <2>1, PublishedKeeps DEF Observed, sinkVars
<1>5. Followed' => Followed
  BY <1>1, <1>3 DEF Followed, kernelVars, MaxAttempts
<1>6. Replayed' => Replayed
  BY <1>1, <1>3, <1>4 DEF Replayed
<1> QED
  BY <1>1, <1>5, <1>6

\* Only the step that triggers a refinement counts an attempt in the cache.
LEMMA CountsNothing ==
    ASSUME SinkTypeOK, Observed
    PROVE  /\ live'.runID = live.runID
           /\ live'.attempt = live.attempt \/ (pc = "refine" /\ pc' = "reexecuting")
<1>1. CASE UNCHANGED live
  BY <1>1
<1>2. ASSUME NEW t, Publish(t)
      PROVE  live'.runID = live.runID /\ (t # "refine.triggered" => live'.attempt = live.attempt)
  BY <1>2, PublishedKeeps
<1>3. "refine.triggered" \notin Progress \cup Thoughts \cup Outcome
  BY DEF Progress, Thoughts, Outcome
<1> QED
  BY <1>1, <1>2, <1>3 DEF Observed, sinkVars

\* The steps of Run, seen from the attempts of both sides.
LEMMA TriesStep ==
    ASSUME TypeOK, RunInvariant, PhaseInvariant, [Next]_vars, ~RunKernel
    PROVE  KernelPhase' /\ Tries'
<1>1. opts' = opts /\ UNCHANGED kernelVars
  BY Backwards
<1>2. pc # "execute" => pc' # "execute"
  BY DEF Next, Step, Prepare, Cycle, Finalize, vars, runVars, InRunCtx,
         Dispatch, PolicyAllows, NotApproved, CreateWorktree, SkipMCP, InjectMCPFails, ApplyAuth,
         ApplyAuthFails, CreateSandboxFails, StartAgent, StartAgentFails,
         RecordFailure, RefineExhausted, Reexec, DecideStatus, ApplyStrategy,
         Cleanup, Deadline, Over, Submit, PolicyDenies, PolicyReviews,
         Approved, InjectMCP, CreateSandbox, AnnounceExecuting,
         PublishCommand, AgentStep, StartCheck, CheckError, CheckPasses,
         CheckFails, RefineDenied, RefineTriggered, AnnounceReexecuting,
         CloseSandbox, AnnounceFailure, AnnounceOutcome, CancelContext, ToAgent, ToCheck
<1>3. CASE pc = "execute"
  <2>1. UNCHANGED live /\ (Dispatch \/ pc' = "execute") /\ UNCHANGED attempts
    BY <1>3 DEF Next, Step, Prepare, Cycle, Finalize, vars, runVars, InRunCtx, execVars, sinkVars,
         Dispatch, PolicyAllows, NotApproved, CreateWorktree, SkipMCP, InjectMCPFails, ApplyAuth,
         ApplyAuthFails, CreateSandboxFails, StartAgent, StartAgentFails,
         RecordFailure, RefineExhausted, Reexec, DecideStatus, ApplyStrategy,
         Cleanup, Deadline, Over, Submit, PolicyDenies, PolicyReviews,
         Approved, InjectMCP, CreateSandbox, AnnounceExecuting,
         PublishCommand, AgentStep, StartCheck, CheckError, CheckPasses,
         CheckFails, RefineDenied, RefineTriggered, AnnounceReexecuting,
         CloseSandbox, AnnounceFailure, AnnounceOutcome, CancelContext
  <2> QED
    BY <1>1, <1>3, <2>1 DEF PhaseInvariant, KernelPhase, Tries, Dispatch, kernelVars, Unstarted,
                            Early, Cycling, Gating, Equipped, Starting
<1>4. CASE pc # "execute"
  <2>1. KernelPhase'
    BY <1>1, <1>2, <1>4 DEF PhaseInvariant, KernelPhase, kernelVars
  <2>2. live'.attempt = live.attempt \/ (pc = "refine" /\ pc' = "reexecuting")
    BY StepObserved, CountsNothing DEF TypeOK
  <2>3. pc' \in Unstarted \cup {"announce_failure"} => pc \in Unstarted \cup {"announce_failure"}
    BY <1>4 DEF Next, Step, Prepare, Cycle, Finalize, vars, runVars, InRunCtx, ToAgent, ToCheck,
         Unstarted, Early, Equipped, Starting, Cycling, Gating,
         Dispatch, PolicyAllows, NotApproved, CreateWorktree, SkipMCP, InjectMCPFails, ApplyAuth,
         ApplyAuthFails, CreateSandboxFails, StartAgent, StartAgentFails,
         RecordFailure, RefineExhausted, Reexec, DecideStatus, ApplyStrategy,
         Cleanup, Deadline, Over, Submit, PolicyDenies, PolicyReviews,
         Approved, InjectMCP, CreateSandbox, AnnounceExecuting,
         PublishCommand, AgentStep, StartCheck, CheckError, CheckPasses,
         CheckFails, RefineDenied, RefineTriggered, AnnounceReexecuting,
         CloseSandbox, AnnounceFailure, AnnounceOutcome, CancelContext
  <2>4. pc' \in Cycling => attempts' > 0
    <3>1. CASE StartAgent \/ RefineTriggered
      <4>1. attempts \in Nat /\ (attempts' = 1 \/ attempts' = attempts + 1)
        BY <3>1 DEF StartAgent, RefineTriggered, TypeOK
      <4> QED
        BY <4>1
    <3>2. CASE ~StartAgent /\ ~RefineTriggered
      <4>1. UNCHANGED attempts /\ (pc' \in Cycling => pc \in Cycling)
        BY <1>4, <3>2 DEF Next, Step, Prepare, Cycle, Finalize, vars, runVars, execVars, InRunCtx, ToAgent, ToCheck,
             Cycling, Gating,
         Dispatch, PolicyAllows, NotApproved, CreateWorktree, SkipMCP, InjectMCPFails, ApplyAuth,
         ApplyAuthFails, CreateSandboxFails, StartAgent, StartAgentFails,
         RecordFailure, RefineExhausted, Reexec, DecideStatus, ApplyStrategy,
         Cleanup, Deadline, Over, Submit, PolicyDenies, PolicyReviews,
         Approved, InjectMCP, CreateSandbox, AnnounceExecuting,
         PublishCommand, AgentStep, StartCheck, CheckError, CheckPasses,
         CheckFails, RefineDenied, RefineTriggered, AnnounceReexecuting,
         CloseSandbox, AnnounceFailure, AnnounceOutcome, CancelContext
      <4> QED
        BY <4>1 DEF PhaseInvariant, Tries
    <3> QED
      BY <3>1, <3>2
  <2>5. pc' \in {"reexecuting", "reexec"} => attempts' > 1
    <3>1. CASE RefineTriggered
      <4>1. attempts \in Nat /\ attempts > 0 /\ attempts' = attempts + 1
        BY <3>1 DEF RefineTriggered, TypeOK, PhaseInvariant, Tries, Cycling, Gating
      <4> QED
        BY <4>1
    <3>2. CASE ~RefineTriggered
      <4>1. (UNCHANGED attempts /\ pc \in {"reexecuting", "reexec"}) \/ pc' \notin {"reexecuting", "reexec"}
        BY <1>4, <3>2 DEF Next, Step, Prepare, Cycle, Finalize, vars, runVars, execVars, InRunCtx, ToAgent, ToCheck,
         Dispatch, PolicyAllows, NotApproved, CreateWorktree, SkipMCP, InjectMCPFails, ApplyAuth,
         ApplyAuthFails, CreateSandboxFails, StartAgent, StartAgentFails,
         RecordFailure, RefineExhausted, Reexec, DecideStatus, ApplyStrategy,
         Cleanup, Deadline, Over, Submit, PolicyDenies, PolicyReviews,
         Approved, InjectMCP, CreateSandbox, AnnounceExecuting,
         PublishCommand, AgentStep, StartCheck, CheckError, CheckPasses,
         CheckFails, RefineDenied, RefineTriggered, AnnounceReexecuting,
         CloseSandbox, AnnounceFailure, AnnounceOutcome, CancelContext
      <4> QED
        BY <4>1 DEF PhaseInvariant, Tries
    <3> QED
      BY <3>1, <3>2
  <2> QED
    <3>1. pc = "refine" => pc \notin Unstarted \cup {"announce_failure"}
      BY DEF Unstarted, Early, Equipped, Starting
    <3> QED
      BY <2>1, <2>2, <2>3, <2>4, <2>5, <3>1 DEF PhaseInvariant, Tries
<1> QED
  BY <1>3, <1>4

\* The rows of the table that Run's events take.
LEMMA RowsTaken ==
    /\ \A p \in Abortable : /\ <<p, "run.failed", "failed">> \in transitionTable
                            /\ <<p, "run.cancelled", "cancelled">> \in transitionTable
    /\ <<"agent_completed", "run.completed", "completed">> \in transitionTable
    /\ <<"submitted", "governance.approval_required", "awaiting_approval">> \in transitionTable
    /\ <<"awaiting_approval", "governance.approved", "submitted">> \in transitionTable
    /\ <<"submitted", "sandbox.created", "sandbox_ready">> \in transitionTable
    /\ <<"enriched", "sandbox.created", "sandbox_ready">> \in transitionTable
    /\ <<"sandbox_ready", "agent.executing", "executing">> \in transitionTable
    /\ <<"executing", "agent.completed", "agent_completed">> \in transitionTable
BY DEF transitionTable

LEMMA GateRowsTaken ==
    /\ <<"agent_completed", "verify.started", "verifying">> \in transitionTable
    /\ <<"agent_completed", "lint.started", "linting">> \in transitionTable
    /\ <<"verifying", "verify.passed", "agent_completed">> \in transitionTable
    /\ <<"linting", "lint.passed", "agent_completed">> \in transitionTable
    /\ <<"verifying", "verify.failed", "refining">> \in transitionTable
    /\ <<"linting", "lint.failed", "refining">> \in transitionTable
BY DEF transitionTable

\* The events that find no row: approvals of an enriched run, and the second
\* announcement of an executing one.
LEMMA RowsMissing ==
    \A q \in Phases : /\ <<"enriched", "governance.approval_required", q>> \notin transitionTable
                      /\ <<"enriched", "governance.approved", q>> \notin transitionTable
                      /\ <<"executing", "agent.executing", q>> \notin transitionTable
BY DEF transitionTable

\* The phases Shape names, while the run goes on, are not terminal.
LEMMA AbortableIsLive == \A p \in Abortable : ~IsTerminal(p)
BY DEF Abortable, IsTerminal

\* A run that is followed stays in step with the phase machine, and with its
\* own log: up to the first attempt,
LEMMA FollowPrepare ==
    ASSUME TypeOK, RunInvariant, PhaseInvariant, Followed', Prepare, ~RunKernel
    PROVE  Shape' /\ (Replayed' => StoredIsLive')
<1>n. Next
  BY DEF Next, Step
<1>b. (Followed' => Followed) /\ (Replayed' => Replayed) /\ opts' = opts
  BY <1>n, Backwards
<1>1. Shape /\ live.runID = Self /\ SinkTypeOK /\ Tries /\ opts' = opts
  BY <1>b DEF PhaseInvariant, TypeOK
<1>2. Replayed' => StoredIsLive /\ ~ctxDone /\ ~opts.kernel /\ attempts <= 1
  BY <1>b DEF PhaseInvariant, Replayed
<1>3. Ready' = Ready
  BY <1>1 DEF Ready
<1> USE DEF execVars, resVars, rowVars, endVars, sinkVars, Equipped, Closing, Failing
<1>4. CASE Dispatch
  <2>1. Shape'
    BY <1>1, <1>3, <1>4 DEF Dispatch, Shape, Abortable, Ready
  <2> QED
    BY <1>2, <2>1, <1>4 DEF Dispatch, StoredIsLive
<1>5. CASE PolicyAllows
  <2>1. Shape'
    BY <1>1, <1>3, <1>5 DEF PolicyAllows, Shape, Abortable, Ready
  <2> QED
    BY <1>2, <2>1, <1>5 DEF PolicyAllows, StoredIsLive
<1>6. CASE NotApproved
  <2>1. Shape'
    BY <1>1, <1>3, <1>6 DEF NotApproved, Shape, Abortable, Ready
  <2> QED
    BY <1>2, <2>1, <1>6 DEF NotApproved, StoredIsLive
<1>7. CASE CreateWorktree
  <2>1. Shape'
    BY <1>1, <1>3, <1>7 DEF CreateWorktree, Shape, Abortable, Ready
  <2> QED
    BY <1>2, <2>1, <1>7 DEF CreateWorktree, StoredIsLive
<1>8. CASE SkipMCP
  <2>1. Shape'
    BY <1>1, <1>3, <1>8 DEF SkipMCP, Shape, Abortable, Ready
  <2> QED
    BY <1>2, <2>1, <1>8 DEF SkipMCP, StoredIsLive
<1>9. CASE InjectMCPFails
  <2>1. Shape'
    BY <1>1, <1>3, <1>9 DEF InjectMCPFails, Shape, Abortable, Ready
  <2> QED
    BY <1>2, <2>1, <1>9 DEF InjectMCPFails, StoredIsLive
<1>10. CASE ApplyAuth
  <2>1. Shape'
    BY <1>1, <1>3, <1>10 DEF ApplyAuth, Shape, Abortable, Ready
  <2> QED
    BY <1>2, <2>1, <1>10 DEF ApplyAuth, StoredIsLive
<1>11. CASE ApplyAuthFails
  <2>1. Shape'
    BY <1>1, <1>3, <1>11 DEF ApplyAuthFails, Shape, Abortable, Ready
  <2> QED
    BY <1>2, <2>1, <1>11 DEF ApplyAuthFails, StoredIsLive
<1>12. CASE CreateSandboxFails
  <2>1. Shape'
    BY <1>1, <1>3, <1>12 DEF CreateSandboxFails, Shape, Abortable, Ready
  <2> QED
    BY <1>2, <2>1, <1>12 DEF CreateSandboxFails, StoredIsLive
<1>13. CASE StartAgent
  <2>1. attempts' = 1 /\ live.attempt = 1
    BY <1>1, <1>13 DEF StartAgent, Tries, Unstarted, Starting
  <2>2. Shape'
    BY <1>1, <1>3, <1>13, <2>1 DEF StartAgent, Shape, ToAgent
  <2> QED
    BY <1>2, <2>2, <1>13 DEF StartAgent, StoredIsLive
<1>14. CASE StartAgentFails
  <2>1. Shape'
    BY <1>1, <1>3, <1>14 DEF StartAgentFails, Shape, Abortable
  <2> QED
    BY <1>2, <2>1, <1>14 DEF StartAgentFails, StoredIsLive
<1>15. CASE RecordFailure
  <2>1. Shape'
    BY <1>1, <1>3, <1>15 DEF RecordFailure, Shape, Abortable
  <2> QED
    BY <1>2, <2>1, <1>15 DEF RecordFailure, StoredIsLive
<1>16. CASE Submit
  <2>1. Publish("run.submitted") /\ "run.submitted" \in ObservationTypes
    BY <1>16 DEF Submit, ObservationTypes
  <2>2. ~IsTerminal(live.phase)
    BY <1>1, <1>16 DEF Submit, Shape, IsTerminal, Ready
  <2>3. live' = live /\ (Replayed' => StoredIsLive')
    BY <1>1, <1>2, <2>1, <2>2, PublishedObservation
  <2>4. Shape'
    BY <1>1, <1>3, <1>16, <2>3 DEF Submit, Shape
  <2> QED
    BY <2>3, <2>4
<1>17. CASE PolicyDenies
  <2>1. Publish("governance.denied") /\ "governance.denied" \in ObservationTypes
    BY <1>17 DEF PolicyDenies, ObservationTypes
  <2>2. ~IsTerminal(live.phase)
    BY <1>1, <1>17 DEF PolicyDenies, Shape, IsTerminal, Ready
  <2>3. live' = live /\ (Replayed' => StoredIsLive')
    BY <1>1, <1>2, <2>1, <2>2, PublishedObservation
  <2>4. Shape'
    BY <1>1, <1>3, <1>17, <2>3 DEF PolicyDenies, Shape, Abortable, Ready
  <2> QED
    BY <2>3, <2>4
<1>18. CASE PolicyReviews
  <2>1. Publish("governance.approval_required")
    BY <1>18 DEF PolicyReviews
  <2>2. CASE opts.kernel
    <3>1. live.phase = "enriched"
      BY <1>1, <1>18, <2>2 DEF PolicyReviews, Shape, Ready
    <3>2. live' = live
      BY <1>1, <2>1, <3>1, PublishedOutOfPlace, RowsMissing
    <3>3. Shape'
      BY <1>1, <1>3, <1>18, <2>2, <3>2 DEF PolicyReviews, Shape, Ready
    <3> QED
      BY <1>2, <2>2, <3>3
  <2>3. CASE ~opts.kernel
    <3>1. <<live.phase, "governance.approval_required", "awaiting_approval">> \in transitionTable
      BY <1>1, <1>18, <2>3, RowsTaken DEF PolicyReviews, Shape, Ready
    <3>2. live'.phase = "awaiting_approval" /\ live'.attempt = live.attempt
      BY <1>1, <2>1, <3>1, PublishedRow, PublishedKeeps
    <3>3. Replayed' => StoredIsLive'
      BY <1>1, <1>2, <2>1, <3>1, PublishedRow
    <3>4. Shape'
      BY <1>1, <1>3, <1>18, <2>3, <3>2 DEF PolicyReviews, Shape, Ready
    <3> QED
      BY <3>3, <3>4
  <2> QED
    BY <2>2, <2>3
<1>19. CASE Approved
  <2>1. Publish("governance.approved")
    BY <1>19 DEF Approved
  <2>2. CASE opts.kernel
    <3>1. live.phase = "enriched"
      BY <1>1, <1>19, <2>2 DEF Approved, Shape, Ready
    <3>2. live' = live
      BY <1>1, <2>1, <3>1, PublishedOutOfPlace, RowsMissing
    <3>3. Shape'
      BY <1>1, <1>3, <1>19, <2>2, <3>2 DEF Approved, Shape, Ready
    <3> QED
      BY <1>2, <2>2, <3>3
  <2>3. CASE ~opts.kernel
    <3>1. <<live.phase, "governance.approved", "submitted">> \in transitionTable
      BY <1>1, <1>19, <2>3, RowsTaken DEF Approved, Shape, Ready
    <3>2. live'.phase = "submitted" /\ live'.attempt = live.attempt
      BY <1>1, <2>1, <3>1, PublishedRow, PublishedKeeps
    <3>3. Replayed' => StoredIsLive'
      BY <1>1, <1>2, <2>1, <3>1, PublishedRow
    <3>4. Shape'
      BY <1>1, <1>3, <1>19, <2>3, <3>2 DEF Approved, Shape, Ready
    <3> QED
      BY <3>3, <3>4
  <2> QED
    BY <2>2, <2>3
<1>20. CASE InjectMCP
  <2>1. Publish("mcp.injected") /\ "mcp.injected" \in UnlistedTypes
    BY <1>20 DEF InjectMCP, UnlistedTypes
  <2>2. live' = live /\ ~Replayed'
    BY <1>1, <2>1, PublishedUnlisted DEF Replayed
  <2>3. Shape'
    BY <1>1, <1>3, <1>20, <2>2 DEF InjectMCP, Shape
  <2> QED
    BY <2>2, <2>3
<1>21. CASE CreateSandbox
  <2>1. Publish("sandbox.created") /\ "sandbox.created" # "refine.triggered"
    BY <1>21 DEF CreateSandbox
  <2>2. <<live.phase, "sandbox.created", "sandbox_ready">> \in transitionTable
    BY <1>1, <1>21, RowsTaken DEF CreateSandbox, Shape, Ready
  <2>3. live'.phase = "sandbox_ready" /\ live'.attempt = live.attempt
    BY <1>1, <2>1, <2>2, PublishedRow, PublishedKeeps
  <2>4. Replayed' => StoredIsLive'
    BY <1>1, <1>2, <2>1, <2>2, PublishedRow
  <2>5. Shape'
    BY <1>1, <1>3, <1>21, <2>3 DEF CreateSandbox, Shape
  <2> QED
    BY <2>4, <2>5
<1>22. CASE AnnounceExecuting
  <2>1. Publish("agent.executing") /\ "agent.executing" # "refine.triggered"
    BY <1>22 DEF AnnounceExecuting
  <2>2. <<live.phase, "agent.executing", "executing">> \in transitionTable
    BY <1>1, <1>22, RowsTaken DEF AnnounceExecuting, Shape
  <2>3. live'.phase = "executing" /\ live'.attempt = live.attempt
    BY <1>1, <2>1, <2>2, PublishedRow, PublishedKeeps
  <2>4. Replayed' => StoredIsLive'
    BY <1>1, <1>2, <2>1, <2>2, PublishedRow
  <2>5. Shape'
    BY <1>1, <1>3, <1>22, <2>3 DEF AnnounceExecuting, Shape
  <2> QED
    BY <2>4, <2>5
<1>23. CASE AnnounceFailure
  <2>1. Publish("run.failed")
    BY <1>23 DEF AnnounceFailure
  <2>2. <<live.phase, "run.failed", "failed">> \in transitionTable
    BY <1>1, <1>23, RowsTaken DEF AnnounceFailure, Shape
  <2>3. live'.phase = "failed" /\ live'.attempt = live.attempt
    BY <1>1, <2>1, <2>2, PublishedRow, PublishedKeeps
  <2>4. Replayed' => StoredIsLive'
    BY <1>1, <1>2, <2>1, <2>2, PublishedRow
  <2>5. terminal' = <<"run.failed">>
    <3>1. terminal = <<>>
      BY <1>23 DEF AnnounceFailure, RunInvariant, Announced
    <3>2. terminal' = Append(terminal, "run.failed")
      BY <1>1, <2>1, PublishTyped, PublishedTypes DEF Outcome
    <3> QED
      BY <3>1, <3>2
  <2>6. OutcomePhase'[terminal'[1]] = "failed"
    BY <2>5 DEF OutcomePhase
  <2>7. Shape'
    BY <1>1, <1>23, <2>3, <2>6 DEF AnnounceFailure, Shape
  <2> QED
    BY <2>4, <2>7
<1> QED
  BY <1>4, <1>5, <1>6, <1>7, <1>8, <1>9, <1>10, <1>11, <1>12, <1>13, <1>14, <1>15, <1>16, <1>17, <1>18, <1>19, <1>20, <1>21, <1>22, <1>23 DEF Prepare

\* through the attempts,
LEMMA FollowCycle ==
    ASSUME TypeOK, RunInvariant, PhaseInvariant, Followed', Cycle
    PROVE  Shape' /\ (Replayed' => StoredIsLive')
<1>n. Next /\ ~RunKernel
  BY DEF Next, Step, Cycle, RunKernel, PublishCommand, AgentStep, StartCheck, CheckError,
         CheckPasses, CheckFails, RefineExhausted, RefineDenied, RefineTriggered,
         AnnounceReexecuting, Reexec
<1>b. (Followed' => Followed) /\ (Replayed' => Replayed) /\ opts' = opts
  BY <1>n, Backwards
<1>1. Shape /\ live.runID = Self /\ SinkTypeOK /\ Tries /\ opts' = opts
  BY <1>b DEF PhaseInvariant, TypeOK
<1>2. Replayed' => StoredIsLive /\ ~ctxDone /\ ~opts.kernel /\ attempts <= 1
  BY <1>b DEF PhaseInvariant, Replayed
<1>3. Ready' = Ready
  BY <1>1 DEF Ready
<1> USE DEF execVars, resVars, rowVars, endVars, sinkVars, Equipped, Closing, Failing
<1>4. CASE PublishCommand
  <2>1. PICK t \in {"execute.requested", "verify.requested", "lint.requested"} : Publish(t)
    BY <1>4 DEF PublishCommand
  <2>2. t \in ObservationTypes /\ ~IsTerminal(live.phase)
    BY <1>1, <1>4 DEF PublishCommand, ObservationTypes, Shape, IsTerminal
  <2>3. live' = live /\ (Replayed' => StoredIsLive')
    BY <1>1, <1>2, <2>1, <2>2, PublishedObservation
  <2>4. Shape'
    BY <1>1, <1>4, <2>3 DEF PublishCommand, Shape
  <2> QED
    BY <2>3, <2>4
<1>5. CASE AgentStep
  <2>1. Publish("agent.completed") /\ "agent.completed" # "refine.triggered"
    BY <1>5 DEF AgentStep
  <2>2. <<live.phase, "agent.completed", "agent_completed">> \in transitionTable
    BY <1>1, <1>5, RowsTaken DEF AgentStep, Shape
  <2>3. live'.phase = "agent_completed" /\ live'.attempt = live.attempt
    BY <1>1, <2>1, <2>2, PublishedRow, PublishedKeeps
  <2>4. Replayed' => StoredIsLive'
    BY <1>1, <1>2, <2>1, <2>2, PublishedRow
  <2>5. Shape'
    BY <1>1, <1>3, <1>5, <2>3 DEF AgentStep, Shape, ToCheck, Abortable
  <2> QED
    BY <2>4, <2>5
<1>6. CASE StartCheck
  <2> DEFINE t == IF gate = "verify" THEN "verify.started" ELSE "lint.started"
  <2> DEFINE q == IF gate = "verify" THEN "verifying" ELSE "linting"
  <2>1. Publish(t) /\ t # "refine.triggered"
    BY <1>6 DEF StartCheck
  <2>2. <<live.phase, t, q>> \in transitionTable
    BY <1>1, <1>6, GateRowsTaken DEF StartCheck, Shape
  <2>3. live'.phase = q /\ live'.attempt = live.attempt
    BY <1>1, <2>1, <2>2, PublishedRow, PublishedKeeps
  <2>4. Replayed' => StoredIsLive'
    BY <1>1, <1>2, <2>1, <2>2, PublishedRow
  <2>5. Shape'
    BY <1>1, <1>6, <2>3 DEF StartCheck, Shape
  <2> QED
    BY <2>4, <2>5
<1>7. CASE CheckError
  <2> DEFINE t == IF gate = "verify" THEN "verify.failed" ELSE "lint.failed"
  <2> DEFINE q == "refining"
  <2>1. Publish(t) /\ t # "refine.triggered"
    BY <1>7 DEF CheckError
  <2>2. <<live.phase, t, q>> \in transitionTable
    BY <1>1, <1>7, GateRowsTaken DEF CheckError, Shape
  <2>3. live'.phase = q /\ live'.attempt = live.attempt
    BY <1>1, <2>1, <2>2, PublishedRow, PublishedKeeps
  <2>4. Replayed' => StoredIsLive'
    BY <1>1, <1>2, <2>1, <2>2, PublishedRow
  <2>5. Shape'
    BY <1>1, <1>7, <2>3 DEF CheckError, Shape, Abortable
  <2> QED
    BY <2>4, <2>5
<1>8. CASE CheckPasses
  <2> DEFINE t == IF gate = "verify" THEN "verify.passed" ELSE "lint.passed"
  <2> DEFINE q == "agent_completed"
  <2>1. Publish(t) /\ t # "refine.triggered"
    BY <1>8 DEF CheckPasses
  <2>2. <<live.phase, t, q>> \in transitionTable
    BY <1>1, <1>8, GateRowsTaken DEF CheckPasses, Shape
  <2>3. live'.phase = q /\ live'.attempt = live.attempt
    BY <1>1, <2>1, <2>2, PublishedRow, PublishedKeeps
  <2>4. Replayed' => StoredIsLive'
    BY <1>1, <1>2, <2>1, <2>2, PublishedRow
  <2>5. Shape'
    BY <1>1, <1>8, <2>3 DEF CheckPasses, Shape, ToCheck, Abortable
  <2> QED
    BY <2>4, <2>5
<1>9. CASE CheckFails
  <2> DEFINE t == IF gate = "verify" THEN "verify.failed" ELSE "lint.failed"
  <2> DEFINE q == "refining"
  <2>1. Publish(t) /\ t # "refine.triggered"
    BY <1>9 DEF CheckFails
  <2>2. <<live.phase, t, q>> \in transitionTable
    BY <1>1, <1>9, GateRowsTaken DEF CheckFails, Shape
  <2>3. live'.phase = q /\ live'.attempt = live.attempt
    BY <1>1, <2>1, <2>2, PublishedRow, PublishedKeeps
  <2>4. Replayed' => StoredIsLive'
    BY <1>1, <1>2, <2>1, <2>2, PublishedRow
  <2>5. Shape'
    BY <1>1, <1>9, <2>3 DEF CheckFails, Shape
  <2> QED
    BY <2>4, <2>5
<1>10. CASE RefineExhausted
  <2>1. Shape'
    BY <1>1, <1>3, <1>10 DEF RefineExhausted, Shape, Abortable
  <2> QED
    BY <1>2, <2>1, <1>10 DEF RefineExhausted, StoredIsLive
<1>11. CASE RefineDenied
  <2>1. Publish("governance.denied") /\ "governance.denied" \in ObservationTypes
    BY <1>11 DEF RefineDenied, ObservationTypes
  <2>2. ~IsTerminal(live.phase)
    BY <1>1, <1>11 DEF RefineDenied, Shape, IsTerminal
  <2>3. live' = live /\ (Replayed' => StoredIsLive')
    BY <1>1, <1>2, <2>1, <2>2, PublishedObservation
  <2>4. Shape'
    BY <1>1, <1>3, <1>11, <2>3 DEF RefineDenied, Shape, Abortable
  <2> QED
    BY <2>3, <2>4
<1>12. CASE RefineTriggered
  <2>1. Publish("refine.triggered") /\ live.phase = "refining" /\ attempts' = attempts + 1
    BY <1>1, <1>12 DEF RefineTriggered, Shape
  <2>2. attempts \in Nat /\ attempts > 0
    BY <1>1, <1>12 DEF RefineTriggered, Tries, TypeOK, Cycling, Gating
  <2>3. attempts + 1 <= MaxAttempts
    BY <2>1 DEF Followed
  <2>4. live.attempt = attempts /\ live \in States
    BY <1>1, <2>2 DEF Shape, SinkTypeOK
  <2>5. live.attempt < MaxAttempts
    BY <2>2, <2>3, <2>4 DEF MaxAttempts
  <2>6. live' = [live EXCEPT !.phase = "executing", !.attempt = @ + 1]
    BY <1>1, <2>1, <2>4, <2>5, PublishApplies, RefineApplies
  <2>7. live'.phase = "executing" /\ live'.attempt = attempts'
    BY <2>1, <2>4, <2>6 DEF States
  <2>8. Shape'
    BY <1>1, <1>12, <2>7 DEF RefineTriggered, Shape
  <2>9. ~Replayed'
    <3>1. ~(attempts' <= 1)
      BY <2>1, <2>2
    <3> QED
      BY <3>1 DEF Replayed
  <2> QED
    BY <2>8, <2>9
<1>13. CASE AnnounceReexecuting
  <2>1. Publish("agent.executing") /\ live.phase = "executing" /\ attempts > 1
    BY <1>1, <1>13 DEF AnnounceReexecuting, Shape, Tries
  <2>2. live' = live
    BY <1>1, <2>1, PublishedOutOfPlace, RowsMissing
  <2>3. Shape'
    BY <1>1, <1>13, <2>2 DEF AnnounceReexecuting, Shape
  <2>4. ~Replayed'
    <3>1. attempts \in Nat
      BY DEF TypeOK
    <3>2. ~(attempts <= 1)
      BY <2>1, <3>1
    <3> QED
      BY <1>2, <3>2
  <2> QED
    BY <2>3, <2>4
<1>14. CASE Reexec
  <2>1. Shape'
    BY <1>1, <1>3, <1>14 DEF Reexec, Shape, ToAgent, Abortable
  <2> QED
    BY <1>2, <2>1, <1>14 DEF Reexec, StoredIsLive
<1> QED
  BY <1>4, <1>5, <1>6, <1>7, <1>8, <1>9, <1>10, <1>11, <1>12, <1>13, <1>14 DEF Cycle

\* to the outcome,
LEMMA FollowFinalize ==
    ASSUME TypeOK, RunInvariant, PhaseInvariant, Followed', Finalize
    PROVE  Shape' /\ (Replayed' => StoredIsLive')
<1>n. Next /\ ~RunKernel
  BY DEF Next, Step, Finalize, RunKernel, DecideStatus, ApplyStrategy, CloseSandbox, Cleanup,
         AnnounceOutcome
<1>b. (Followed' => Followed) /\ (Replayed' => Replayed) /\ opts' = opts
  BY <1>n, Backwards
<1>1. Shape /\ live.runID = Self /\ SinkTypeOK /\ Tries /\ opts' = opts
  BY <1>b DEF PhaseInvariant, TypeOK
<1>2. Replayed' => StoredIsLive /\ ~ctxDone /\ ~opts.kernel /\ attempts <= 1
  BY <1>b DEF PhaseInvariant, Replayed
<1>3. Ready' = Ready
  BY <1>1 DEF Ready
<1> USE DEF execVars, resVars, rowVars, endVars, sinkVars, Equipped, Closing, Failing
<1>4. CASE DecideStatus
  <2>1. Shape'
    BY <1>1, <1>3, <1>4 DEF DecideStatus, Shape
  <2> QED
    BY <1>2, <2>1, <1>4 DEF DecideStatus, StoredIsLive
<1>5. CASE ApplyStrategy
  <2>1. Shape'
    BY <1>1, <1>3, <1>5 DEF ApplyStrategy, Shape
  <2> QED
    BY <1>2, <2>1, <1>5 DEF ApplyStrategy, StoredIsLive
<1>6. CASE Cleanup
  <2>1. Shape'
    BY <1>1, <1>3, <1>6 DEF Cleanup, Shape
  <2> QED
    BY <1>2, <2>1, <1>6 DEF Cleanup, StoredIsLive
<1>7. CASE CloseSandbox
  <2>1. Publish("sandbox.destroyed") /\ "sandbox.destroyed" \in ObservationTypes
    BY <1>7 DEF CloseSandbox, ObservationTypes
  <2>2. ~IsTerminal(live.phase)
    BY <1>1, <1>7 DEF CloseSandbox, Shape, IsTerminal, Abortable
  <2>3. live' = live /\ (Replayed' => StoredIsLive')
    BY <1>1, <1>2, <2>1, <2>2, PublishedObservation
  <2>4. Shape'
    BY <1>1, <1>3, <1>7, <2>3 DEF CloseSandbox, Shape
  <2> QED
    BY <2>3, <2>4
<1>8. CASE AnnounceOutcome
  <2> DEFINE t == CASE status = "success" -> "run.completed"
                    [] status = "cancelled" -> "run.cancelled"
                    [] OTHER -> "run.failed"
  <2> DEFINE q == CASE status = "success" -> "completed"
                    [] status = "cancelled" -> "cancelled"
                    [] OTHER -> "failed"
  <2>1. Publish(t) /\ t \in Outcome /\ t # "refine.triggered"
    BY <1>8 DEF AnnounceOutcome, Outcome
  <2>2. <<live.phase, t, q>> \in transitionTable
    <3>1. status = "success" => live.phase = "agent_completed"
      BY <1>1, <1>8 DEF AnnounceOutcome, Shape, RunInvariant, Decided
    <3>2. live.phase \in Abortable
      BY <1>1, <1>8 DEF AnnounceOutcome, Shape
    <3> QED
      BY <3>1, <3>2, RowsTaken
  <2>3. live'.phase = q /\ live'.attempt = live.attempt
    BY <1>1, <2>1, <2>2, PublishedRow, PublishedKeeps
  <2>4. Replayed' => StoredIsLive'
    BY <1>1, <1>2, <2>1, <2>2, PublishedRow
  <2>5. terminal' = <<t>>
    <3>1. terminal = <<>>
      BY <1>8 DEF AnnounceOutcome, RunInvariant, Announced
    <3>2. terminal' = Append(terminal, t)
      BY <1>1, <2>1, PublishTyped, PublishedTypes
    <3> QED
      BY <3>1, <3>2
  <2>6. OutcomePhase'[terminal'[1]] = q
    BY <2>5 DEF OutcomePhase
  <2>7. Shape'
    BY <1>1, <1>8, <2>3, <2>6 DEF AnnounceOutcome, Shape
  <2> QED
    BY <2>4, <2>7
<1> QED
  BY <1>4, <1>5, <1>6, <1>7, <1>8 DEF Finalize

\* and whatever the environment does.
LEMMA FollowEnvironment ==
    ASSUME TypeOK, RunInvariant, PhaseInvariant, Followed',
           CancelContext \/ Deadline \/ UNCHANGED vars
    PROVE  Shape' /\ (Replayed' => StoredIsLive')
<1>1. UNCHANGED <<opts, pc, gate, attempts, bad, cause, live, stored, terminal>> /\ UNCHANGED kernelVars
  BY DEF CancelContext, Deadline, vars, runVars, sinkVars, execVars
<1>2. Followed /\ Shape
  BY <1>1 DEF Followed, kernelVars, PhaseInvariant
<1>3. Shape'
  BY <1>1, <1>2 DEF Shape, Ready, OutcomePhase
<1>4. Replayed' => Replayed
  BY <1>1 DEF CancelContext, Deadline, vars, sinkVars, Replayed
<1> QED
  BY <1>1, <1>3, <1>4 DEF PhaseInvariant, StoredIsLive

\* The kernel's results lead to the phase in which Run may begin.
LEMMA FollowKernel ==
    ASSUME TypeOK, RunInvariant, PhaseInvariant, RunKernel
    PROVE  KernelPhase' /\ Tries' /\ (Followed' => Shape') /\ ~Replayed'
<1>1. pc = "execute" /\ UNCHANGED runVars /\ Process(opts.reactive) /\ stage \in Stages
  BY DEF RunKernel, Process, SkipStage, CommandStage, StageDone, StageDegrades, WorkReady,
         Command, Stages
<1>2. opts' = opts /\ pc' = pc /\ attempts' = attempts /\ attempts = 0 /\ opts.kernel
  BY <1>1 DEF runVars, execVars, RunInvariant, Counted, Unstarted, Early, PhaseInvariant,
              KernelPhase, Stages
<1>3. live'.attempt = live.attempt /\ live.attempt = 1
  BY <1>1, <1>2, CountsNothing, StepObserved
     DEF Next, Step, Prepare, TypeOK, PhaseInvariant, Tries, Unstarted, Early
<1>4. Tries'
  BY <1>1, <1>2, <1>3 DEF Tries, Unstarted, Early, Cycling, Gating, PhaseInvariant
<1>5. ~enriched /\ SinkTypeOK /\ live.runID = Self /\ KernelPhase
  BY <1>1 DEF PhaseInvariant, KernelPhase, TypeOK, KernelTypeOK, Stages
<1>6. KernelPhase' /\ (enriched' => live'.phase = "enriched")
  <2>1. CASE SkipStage \/ StageDegrades(opts.reactive)
    <3>1. live' = live /\ enriched' = enriched
      BY <2>1 DEF SkipStage, StageDegrades, sinkVars
    <3>2. stage # "classify" /\ (stage' = After[stage] \/ stage' = "done")
      BY <2>1 DEF SkipStage, StageDegrades
    <3> QED
      BY <1>1, <1>2, <1>5, <3>1, <3>2 DEF KernelPhase, After, Stages
  <2>2. CASE CommandStage(opts.reactive)
    <3>1. stage' = stage /\ enriched' = enriched /\ Publish(Command[stage]) /\ stage \in DOMAIN Command
      BY <2>2 DEF CommandStage
    <3>2. Command[stage] \in ObservationTypes \cup UnlistedTypes
      BY <3>1 DEF Command, ObservationTypes, UnlistedTypes
    <3>3. live' = live
      BY <1>5, <3>1, <3>2, PublishedObservation, PublishedUnlisted
    <3> QED
      BY <1>1, <1>2, <1>5, <3>1, <3>3 DEF KernelPhase
  <2>3. CASE StageDone(opts.reactive)
    <3>1. /\ stage' = After[stage] /\ Publish(ResultEvent[stage])
          /\ enriched' <=> (stage = "enrich" \/ enriched)
      BY <2>3 DEF StageDone
    <3>2. CASE stage \in {"architect", "stepback", "strategy", "route", "recall"}
      <4>1. ResultEvent[stage] \in ObservationTypes \cup UnlistedTypes
        BY <3>2 DEF ResultEvent, ObservationTypes, UnlistedTypes
      <4>2. live' = live
        BY <1>5, <3>1, <4>1, PublishedObservation, PublishedUnlisted
      <4> QED
        BY <1>1, <1>2, <1>5, <3>1, <3>2, <4>2 DEF KernelPhase, After
    <3>3. CASE stage = "classify"
      <4>1. <<live.phase, "run.classified", "classified">> \in transitionTable
        BY <1>5, <3>3 DEF KernelPhase, transitionTable
      <4>2. live'.phase = "classified"
        BY <1>5, <3>1, <3>3, <4>1, PublishedRow DEF ResultEvent
      <4> QED
        BY <1>1, <1>2, <1>5, <3>1, <3>3, <4>2 DEF KernelPhase, After
    <3>4. CASE stage = "plan"
      <4>1. <<live.phase, "run.planned", "planned">> \in transitionTable
        BY <1>5, <3>4 DEF KernelPhase, transitionTable
      <4>2. live'.phase = "planned"
        BY <1>5, <3>1, <3>4, <4>1, PublishedRow DEF ResultEvent
      <4> QED
        BY <1>1, <1>2, <1>5, <3>1, <3>4, <4>2 DEF KernelPhase, After
    <3>5. CASE stage = "enrich"
      <4>1. <<live.phase, "run.enriched", "enriched">> \in transitionTable
        BY <1>5, <3>5 DEF KernelPhase, transitionTable
      <4>2. live'.phase = "enriched"
        BY <1>5, <3>1, <3>5, <4>1, PublishedRow DEF ResultEvent
      <4> QED
        BY <1>1, <1>2, <1>5, <3>1, <3>5, <4>2 DEF KernelPhase, After
    <3> QED
      BY <1>1, <3>2, <3>3, <3>4, <3>5 DEF Stages
  <2> QED
    BY <1>1, <2>1, <2>2, <2>3 DEF Process
<1>7. Followed' => Shape'
  BY <1>1, <1>2, <1>6 DEF Followed, Shape, Ready, Equipped, Closing, Failing
<1>8. ~Replayed'
  BY <1>2 DEF Replayed
<1> QED
  BY <1>4, <1>6, <1>7, <1>8

LEMMA PhaseStep ==
    ASSUME TypeOK, RunInvariant, PhaseInvariant, [Next]_vars
    PROVE  PhaseInvariant'
<1>1. live'.runID = Self
  BY StepObserved, CountsNothing DEF TypeOK, PhaseInvariant
<1>2. CASE RunKernel
  BY <1>1, <1>2, FollowKernel DEF PhaseInvariant
<1>3. CASE ~RunKernel
  <2>1. KernelPhase' /\ Tries'
    BY <1>3, TriesStep
  <2>2. Followed' => Shape' /\ (Replayed' => StoredIsLive')
    BY <1>3, FollowPrepare, FollowCycle, FollowFinalize, FollowEnvironment DEF Next, Step, Over
  <2>3. Replayed' => Followed'
    <3>1. attempts' \in Nat
      BY InvariantStep DEF TypeOK
    <3>2. attempts' <= 1 => attempts' <= 3
      BY <3>1
    <3> QED
      BY <3>2 DEF Replayed, Followed, MaxAttempts
  <2> QED
    BY <1>1, <2>1, <2>2, <2>3 DEF PhaseInvariant
<1> QED
  BY <1>2, <1>3

LEMMA PhaseInit == Init => PhaseInvariant
<1> SUFFICES ASSUME Init PROVE PhaseInvariant
  OBVIOUS
<1>1. /\ live.runID = Self /\ live.phase = "submitted" /\ live.attempt = 1 /\ StoredIsLive
  BY DEF Init, SinkInit, NewExecutionState, NewReplay, StoredIsLive
<1>2. opts \in Options
  BY OptionsAssumption DEF Init
<1>3. KernelPhase /\ Tries
  BY <1>1, <1>2 DEF Init, KernelInit, KernelPhase, Tries, Cycling, Gating, Options
<1>4. Followed => Shape
  <2>1. pc = "execute" /\ attempts = 0 /\ ~enriched
    BY DEF Init, KernelInit
  <2>2. ~(attempts > 0)
    BY <2>1
  <2> QED
    BY <1>1, <2>1, <2>2 DEF Followed, Shape, Ready, Equipped, Closing, Failing
<1> QED
  BY <1>1, <1>3, <1>4 DEF PhaseInvariant

\* The cached state and the stored log are in step with every run that can be
\* followed, at every point of it.
THEOREM PhaseInvariantHolds == Spec => []PhaseInvariant
<1>1. TypeOK /\ RunInvariant /\ PhaseInvariant /\ [Next]_vars => PhaseInvariant'
  BY PhaseStep
<1> QED
  BY <1>1, PhaseInit, RunInvariantHolds, PTL DEF Spec

\* The cached state of a run that can be followed ends in the phase of the run's
\* outcome, with the run's number of attempts: no event on any path, refine loop
\* and error returns included, leaves the phase machine behind.
THEOREM CacheFollowsRun == Spec => []LiveFollowsRun
<1>1. ASSUME TypeOK, RunInvariant, PhaseInvariant PROVE LiveFollowsRun
  <2>1. Followable => Followed
    <3>1. attempts \in Nat /\ EffectiveMax \in Nat /\ attempts <= EffectiveMax
      BY <1>1, SomeAttempt DEF TypeOK, RunInvariant, AttemptBudget
    <3>2. EffectiveMax <= MaxAttempts => attempts <= MaxAttempts
      BY <3>1 DEF MaxAttempts
    <3> QED
      BY <3>2 DEF Followable, Followed
  <2> QED
    BY <1>1, <2>1 DEF PhaseInvariant, Shape, LiveFollowsRun, Ended
<1> QED
  BY <1>1, RunInvariantHolds, PhaseInvariantHolds, PTL

\* The persisted log of a single-attempt run replays strictly to its outcome.
THEOREM LogIsReplayable == Spec => []LogReplaysToOutcome
<1>1. ASSUME TypeOK, PhaseInvariant PROVE LogReplaysToOutcome
  <2> SUFFICES ASSUME Ended, cause # "auth", ~ctxDone, rejected \cap UnlistedTypes = {},
                      ~opts.kernel, attempts <= 1
               PROVE  stored.ok /\ stored.st.phase = OutcomePhase[terminal[1]]
    BY DEF LogReplaysToOutcome
  <2>1. attempts \in Nat
    BY <1>1 DEF TypeOK
  <2>2. attempts <= 3
    BY <2>1
  <2> QED
    BY <1>1, <2>2 DEF PhaseInvariant, Replayed, StoredIsLive, Followed, Shape, Ended, MaxAttempts
<1> QED
  BY <1>1, RunInvariantHolds, PhaseInvariantHolds, PTL
=============================================================================
