--------------------------- MODULE ExecutionState ---------------------------
(***************************************************************************)
(* internal/runtime: the closed phase machine of one run.                  *)
(*                                                                         *)
(* A state is the record [runID, phase, attempt]; MaxAttempts is the       *)
(* constant NewExecutionState stores in every state.  Timestamps, the      *)
(* duration, LastEventID, LastError and EventCount are observations that   *)
(* no branch of Apply reads and are left out.  An event is the pair        *)
(* [type, run]; types are the wire strings of internal/event/event.go.     *)
(***************************************************************************)
EXTENDS Naturals

CONSTANT RunIDs     \* the run ids that occur in the modelled system

Phases == {"submitted", "classified", "planned", "enriched", "sandbox_ready",
           "executing", "agent_completed", "verifying", "refining", "linting",
           "awaiting_approval", "reporting", "learning",
           "completed", "failed", "cancelled"}

IsTerminal(phase) == phase \in {"completed", "failed", "cancelled"}

\* Event types IsObservationOnly answers true for.
ObservationTypes ==
    {"run.submitted", "sandbox.destroyed", "agent.tool_called",
     "brain.lesson_recalled", "brain.lesson_extracted", "governance.denied",
     "budget.threshold_reached", "budget.exceeded",
     "run.scheduled", "run.dequeued", "run.strategy_selected",
     "dag.started", "dag.chain_started", "dag.node_started",
     "dag.node_completed", "dag.chain_completed", "dag.synthesis_started",
     "dag.synthesis_completed", "dag.completed",
     "report.generated", "review.generated", "run.architected",
     "security.reviewed", "perf.reviewed", "refactor.reviewed",
     "classify.requested", "architect.requested", "plan.requested",
     "strategy.requested", "enrich.requested",
     "execute.requested", "verify.requested", "lint.requested"}

\* Types with no row in the table that IsObservationOnly does not list either.
UnlistedTypes ==
    {"stepback.requested", "modelroute.requested",
     "run.stepped_back", "run.model_routed", "mcp.injected"}

\* Mutant: the explicit abort rows forget the refining phase.
Abortable_NotRefining ==
    {"submitted", "classified", "planned", "enriched", "sandbox_ready",
     "executing", "agent_completed", "verifying", "linting", "awaiting_approval"}

\* Mutant: the explicit abort rows forget the submitted phase.
Abortable_NotSubmitted ==
    {"classified", "planned", "enriched", "sandbox_ready", "executing",
     "agent_completed", "verifying", "linting", "refining", "awaiting_approval"}

\* Phases from which the table lists run.cancelled and run.failed.
Abortable ==
    {"submitted", "classified", "planned", "enriched", "sandbox_ready",
     "executing", "agent_completed", "verifying", "linting", "refining",
     "awaiting_approval"}

\* The closed set of legal moves, as triples <<from, event type, next>>.
transitionTable ==
    {<<"submitted",         "run.classified",   "classified">>,
     <<"classified",        "run.planned",      "planned">>,
     <<"classified",        "run.enriched",     "enriched">>,
     <<"planned",           "run.enriched",     "enriched">>,
     <<"enriched",          "sandbox.created",  "sandbox_ready">>,
     <<"sandbox_ready",     "agent.executing",  "executing">>,
     <<"submitted",         "sandbox.created",  "sandbox_ready">>,
     <<"executing",         "agent.completed",  "agent_completed">>,
     <<"agent_completed",   "verify.started",   "verifying">>,
     <<"verifying",         "verify.passed",    "agent_completed">>,
     <<"verifying",         "verify.failed",    "refining">>,
     <<"refining",          "refine.triggered", "executing">>,
     <<"agent_completed",   "lint.started",     "linting">>,
     <<"linting",           "lint.passed",      "agent_completed">>,
     <<"linting",           "lint.failed",      "refining">>,
     <<"agent_completed",   "run.completed",    "completed">>,
     <<"submitted",         "governance.approval_required",
                                                "awaiting_approval">>,
     <<"awaiting_approval", "governance.approved", "submitted">>}
      \cup {<<p, "run.cancelled", "cancelled">> : p \in Abortable}
      \cup {<<p, "run.failed", "failed">> : p \in Abortable}

EventTypes == ObservationTypes \cup UnlistedTypes \cup {t[2] : t \in transitionTable}

IsTerminalEvent(type) == type \in {"run.completed", "run.failed", "run.cancelled"}

-----------------------------------------------------------------------------

\* NewExecutionState stores this refine cap whatever RefineOptions says.
MaxAttempts == 3

States == [runID : RunIDs, phase : Phases, attempt : 1 .. MaxAttempts]

Events == [type : EventTypes, run : RunIDs]

NewExecutionState(r) == [runID |-> r, phase |-> "submitted", attempt |-> 1]

\* The destinations LookupTransition finds: at most one.
LookupTransition(from, type) == {p \in Phases : <<from, type, p>> \in transitionTable}

\* Apply(ev) returns nil: the state is not terminal, the run ids agree (an
\* event with no run id never reaches a run's state), and the event is
\* observation-only or has a row for the current phase.
Accepts(s, ev) ==
    /\ ~IsTerminal(s.phase)
    /\ ev.run = s.runID
    /\ \/ ev.type \in ObservationTypes
       \/ LookupTransition(s.phase, ev.type) # {}

AtCap(s) == s.attempt >= MaxAttempts

\* The state Apply leaves behind.  A rejected event (ErrTerminal,
\* ErrMismatchedRunID, ErrInvalidTransition) leaves it unmodified, and
\* refine.triggered at the attempt cap goes to failed instead of looping.
Apply(s, ev) ==
    IF ~Accepts(s, ev) \/ ev.type \in ObservationTypes THEN s
    ELSE IF ev.type = "refine.triggered"
         THEN IF AtCap(s)
              THEN [s EXCEPT !.phase = "failed"]
              ELSE [s EXCEPT !.phase = "executing", !.attempt = @ + 1]
         ELSE [s EXCEPT !.phase = CHOOSE p \in Phases :
                                     <<s.phase, ev.type, p>> \in transitionTable]

-----------------------------------------------------------------------------

\* Replay is strict: it stops at the first event Apply rejects and returns the
\* partial state and an error.  A replay in progress is [st, ok].
NewReplay(r) == [st |-> NewExecutionState(r), ok |-> TRUE]

ReplayStep(rp, ev) ==
    IF rp.ok /\ Accepts(rp.st, ev)
    THEN [rp EXCEPT !.st = Apply(@, ev)]
    ELSE [rp EXCEPT !.ok = FALSE]

Replays == [st : States, ok : BOOLEAN]
=============================================================================
