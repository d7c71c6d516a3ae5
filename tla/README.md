# A TLA+ verification of sandcode

sandcode runs coding agents in sandboxes: a run gets a git worktree and a
container, the agent works in it, gates (verify, lint) decide whether it has to
try again, and the result is merged or thrown away. Runs are started one at a
time, several agents in parallel, or as a graph of sub-tasks, from the command
line or through an HTTP server with a scheduler, access control, governance,
approvals, event streams, a state cache and metrics. This directory holds TLA+
models of these parts, the TLC runs that check them, and proofs.

`PROJECT.json` lists components, runs, mutants, the map from definitions to
source lines, findings, hazards and theorems.

## Inventory

| Component | State | Operations | Interacts with | What is hard | What makes it correct |
|---|---|---|---|---|---|
| Run pipeline (`orchestrator/execute.go`, `run.go`, `refine.go`) | row, worktree, sandbox, attempt count, last error | one run from submission to terminal event | everything below | some twenty points of failure, cancellation at each, clean-up that may fail, a loop of gates | one outcome, announced once and last; everything acquired is given back, or was tried; only gated work is merged; it ends |
| Phase machine (`runtime`) | phase, attempt | `Apply`, `Replay` | fed by the bus | its table and the publisher were written apart | follows every run to its outcome |
| Kernel (`kernel`, `strategy`, `reactor`) | stage | classify, step back, architect, plan, strategy, route, enrich | publishes before Run | every stage may fail or be absent | degrades without losing the run |
| Parallel runs (`parallel.go`) | slots, relay channel, group context, parent row | fan out, relay, judge, merge the winner | Run, judge, store | partial failure, cancellation of siblings, a bounded channel read late | every slot accounted for; HEAD gets the winner or nothing; all output arrives |
| DAG runs (`dag_*.go`) | chains, their worktrees and sandboxes, winner, synthesizer | decompose, run chains, judge, synthesise | planner, Run, judge | failures in any chain at any point, a barrier, use of a worktree after its chain ended | one verdict after all chains; clean-up called for each, whatever becomes of it; events per chain |
| Coordination (`coordinate.go`) | findings, report | run, then advisory passes | Run, reviewers | best-effort passes in a fixed order | report tells what happened |
| Planner (`planner`) | plan | validate, order, cut into chains | DAG | malformed graphs | every node once, after what it needs |
| Scheduler (`scheduler`) | heap, map, pool, condition variable | `Submit`, `Cancel`, `Status`, `Stop`, workers | called by the server, calls the launcher | wakeups, cancel against pop, drain | exclusive, bounded, final cancellation, no lost wakeup |
| Server admission and lifecycle (`server/server.go`, `runs.go`) | staged requests, `s.sched`, in-flight count | POST, DELETE, `launchFunc`, `serve` | scheduler, launcher | handlers against pool against shutdown | what got a 202 is served, nothing else is |
| Access (`rbac`, `server/auth.go`, middlewares) | keyring, grants | load, authenticate, authorise, filter tools | server, governance, MCP | a rule per route, three kinds of authentication | nobody acts beyond a grant |
| Governance, budget (`governance`, `budget`) | policies, audit rows, reports | evaluate, log, record, forget | Run, server, store | check then act, rows written one by one, answers with and without a reason | attempts are those allowed; the log does not mislead |
| Rate limiter (`ratelimit`) | buckets | `Allow`, sweep | server | rounding, idle eviction | bounded admission; `Retry-After` suffices |
| Bus, persistence (`event`) | subscriptions, log | `Publish`, `Subscribe`, `PersistTo` | all publishers and observers | stamps taken before the publication and used to sort the log; handlers collected early, called late; append may fail | publishers never wait; log replays |
| SSE (`server/sse.go`) | channel, seen set | open, replay, live tail | bus, store | the seam between replay and tail, overflow | no event twice, none lost silently, ends with the run |
| State cache (`server/state_cache.go`) | states, insertion order | `apply`, evict, `Forget` | bus | eviction of runs in flight, late events | bounded, consistent, exact |
| Metrics (`metrics`) | counters, histogram, start tracker | count, observe, render | bus, HTTP | several families per event, a page rendered meanwhile, a bounded tracker | pages add up; starts are not lost |
| Approval registry (`approval`) | waiters, channels | `RequestApproval`, `Resolve` | run, HTTP handler | decision against timeout | a decision ends its own wait only |
| Command line (`cmd/sandcode`) | flags, exit code | `run`, `serve` and tools | orchestrator, server | which of five paths the flags take, signals | exit code and report tell what happened |
| Store, git, sandbox, judge, agents | rows, worktrees, containers, answers | CRUD, merge, exec, rank | Run and the fan-outs | external failures | seen through their callers |
| Memory, brain, tracing, compliance, redaction | - | prompts, reports | Run | none of their own ordering | not modelled |

## Modules

| Module | Models |
|---|---|
| `ExecutionState` | `runtime`: phases, transition table, observation-only events, `Apply`, strict replay |
| `EventSink` | what the publication of one run's event does to the state cache and to the persisted log |
| `Kernel` | `Kernel.Process`: the stages, their gating, degradation and events, direct or reactive |
| `RunPipeline` | `Execute` and `Run`, over `Kernel` and `EventSink` |
| `RunContract` | abstract: a run's row begins, settles once, and only then is its one terminal event announced |
| `FanOut` | abstract: members known at the start settle once each, then one verdict follows from their outcomes |
| `ParallelRun` | `ParallelRun`, its slots and relay, and the await closure |
| `Planner` | `Validate`, `Roots`, `TopoSort`, the decomposition into chains, as functions |
| `DAGRun` | `DAGRun`, `runChain`, `runNode`, the coordinator and the synthesizer, over `Planner` |
| `Coordinate` | `Coordinate` with its advisory passes and report |
| `RunCommand` | `sandcode run`: flags, dispatch, signals and exit code, composing `ParallelRun`, `DAGRun` and `Coordinate` |
| `Scheduler` | the queue and pool; every critical section an action |
| `RunServer` | the HTTP handlers and `serve`, composed with `Scheduler` |
| `RateLimiter` | token buckets with a clock |
| `Access` | the RBAC file, keyring, authentication, capabilities per route, tool filters, approver identity |
| `Governance` | the engine, its four policies, audit rows, budget reports |
| `GovernedServer` | a request through the middlewares to a run's attempts, composing `RateLimiter`, `Access` and `Governance` |
| `ApprovalRegistry` | the rendezvous of a waiting run and whoever decides |
| `EventStream` | bus, store and SSE handler for one run |
| `StateCache`, `Metrics` | the two observers of all runs; the cache uses `ExecutionState` |
| `Observers` | both attached to the events of several runs |
| `PipelineProofs`, `RunServerProofs`, `ApprovalProofs`, `GovernedProofs`, `PlannerProofs`, `FanOutProofs`, `EventStreamProofs`, `ObserverProofs` | theorems, with their inductive invariants; `RunServerProofs` begins with those of `Scheduler`, `GovernedProofs` with those of `RateLimiter`; `FanOutProofs` is about `ParallelRun`, `DAGRun`, `Coordinate` and `RunCommand`, `ObserverProofs` about `StateCache` and `Metrics` |
| `MC*` | the instances, one per passing run |

Correspondence. An action is a critical section, or what a goroutine does
between two points where another can act. External programs (agent, git,
docker, verify command, language model) are choices over the outcomes the code
distinguishes. Contexts are flags that an action of the environment sets at any
time. A definition ending in `_Something` after a definition's name, commented
`Mutant:`, is a plausible wrong version of that definition; none is used by a
specification. `Scheduler` keeps an `*entry` as a record whose sequence number
stands for its address; the heap is the set of its entries, popped in the order
of `Less`. In `RunServer` a handler is named by the run id it made up. In
`ApprovalRegistry` a channel is named by the call that made it. In
`EventStream` events are numbered as `event.New` creates and stamps them, which
is before `Publish`; another publisher may overtake. `log` is what `LoadRun`
returns: a row goes to its place by `occurred_at`, behind those with the same
stamp (`rowid`). The wall clock is taken not to be set back; whether it moves on
matters only between events that overlap. The terminal event is any of the run's;
in the instances it is the last created. What has to be removed at the end of a
run or chain, a worktree or a container, is `present`, then `gone`, or `stuck`
when the removal failed and the code went on with a warning or without; a
creation that failed may leave an `orphan`, something made that nobody has a
handle on (`docker run` reporting an error after the daemon started the container). `RateLimiter` counts fractions
of a token as grains, so that its arithmetic is exact. A run inside `ParallelRun`, `DAGRun`,
`Coordinate` and `GovernedServer` is what `RunPipeline` shows a run to be: it
ends, with one status, and keeps its worktree or tries to remove it, as asked.

Compositions. `RunServer` extends `Scheduler`: a handler's `Submit` and the
pool's `LaunchFunc` are the scheduler's own actions. `RunCommand` runs one of
its three orchestrations, chosen by the flags, and waits for it.
`GovernedServer` has the limiter's steps as its own, which is what
`ServerImplementsLimiter` proves. `Observers` gives each published event to the
cache or to the metrics; they share no state, so one is attached at a time.

## Runs

| Run | Distinct states | Instance | Shows |
|---|---|---|---|
| `run_pipeline` | 1,587,004 | one run, 72 option records: gates absent, one or both, caps 1, 2, default, and 4 (beyond the phase machine's 3), kept worktree, deadline; with the kernel every dispatch hint; direct and reactive | `RunEnds`; one outcome announced (`EndsAnnounced`) after everything else (`KeepsContract`: it implements `RunContract`); `NothingLeaks`; only gated work is merged, a gate in doubt refuses, attempts stay in budget (`PipelineInvariant`); cache and log follow (`LiveFollowsRun`, `LogReplaysToOutcome`) |
| `scheduler` | 332,150 | two workers, three runs, two priorities, capacity two | the inductive `SchedulerInvariant`, `PositionOnlyYieldsToPriority` |
| `run_server` | 43,541 | two workers, capacity one, two requests, with a scheduler and without | `StagedRequests` (a request is staged exactly while someone will claim it), `LaunchedWasAccepted`, and the liveness of pool and server: `AdmittedSettles`, `StopDrains`, `AcceptedIsServed`, `ServeReturns` |
| `approval` | 15,192 | three calls, two for one run, two resolvers | the inductive `ApprovalInvariant`, `ResolveReaches` (no resolver blocks, a waiting call can be found), `WaitEnds` |
| `event_stream` | 1,008,052 | two publishers, two clients, a channel of one; three events and one stream, or two and two, creation, publication and append of events in any order | `NoEventTwice` (nor anything the store has up to the named event, unless its publication began after the client had subscribed), `StreamInvariant` (live events are missed only when counted as dropped, the seam loses only events that race with it, and nothing comes after an event created when its own publication was over), `StreamEnds`, `PublishEnds` |
| `observers` | 2,055,672 | three runs, room for two in cache and tracker, two buckets, a clock that may be set back | `CacheExact`, `EvictionSparesLive`, `MetricsTruthful`, `DropsOnlyWhenCrowded` |
| `orchestration` | 740,240 | every family of flags; up to three agents, a channel of one event per agent, limits below the number of agents; every graph of three nodes with at most two dependencies each, and malformed plans | `HeadGetsTheWinner`, `RelayLosesNothing`, `ChainsCoverPlan`, `SynthesisAfterBarrier`, `DAGSettled`, `CommandTruthful`, both refinements of `FanOut` (`ParallelIsFanOut`, `DAGIsFanOut`), `CommandEnds` |
| `governed_server` | 934,462 | every access file of four grants and seven key lists, every route, three tokens; two addresses, six ticks, buckets that refill in a ttl; two runs of up to three attempts under every list of up to two of eleven policies, rows that may fail | `RateBound`, `RetryAfterSuffices`, `ActsWithinGrant`, `GovernedAttempts`, `AuditTruthful` |

Why the bounds are enough. Runs share no state below the server, so one run is
enough for the pipeline. Two workers race for an entry, a third run overflows
the queue, and two priorities order as any number does; two requests let one be
queued while the other is popped, refused or cancelled, and the shutdown meets
both at every point. A channel of one event overflows at once. Streams meet
each other in the bus's list, publishers meet each other in the store: both
happen in `event_stream`, also in one behaviour, with two events then (`MaxLoad`). Three runs and
room for two make both evictions happen, and the third run shows which is
spared. Three slots let one fail, one be cancelled and one wait for a place; a
graph of three nodes has every shape that matters to the decomposition (chain,
diamond side, two roots, shared child, cycle through several nodes). Two policies
are enough because the engine combines them pairwise. The safety
properties, all of them, are also proved for all sizes (see Proofs).

Bounds that are not the code's: `MaxSubmits`, `NumEvents`, `MaxLoad`, `MaxTime`, `burst`
(events an agent prints), the number of attempts in `GovernedServer`.
`OutPerAgent` is 64 in the code, `sseChannelBuffer`, `Capacity` and
`StartCapacity` are larger there; the instances reach the limits that the code
reaches only under load.

Deadlock is checked in every passing run. Where a system is done, the model
says so with a step that changes nothing, guarded by the final state.

Fairness. Goroutines that can run do run (weak fairness of workers, handlers,
publishers, and of the steps of `Run`, `serve` and the command), as Go schedules
them. External programs end: the command's liveness says that `sandcode run`
does not add a wait of its own. A launch returns: `run_pipeline` shows that
`Run` ends when external programs do. `RunEnds` takes it that the caller reads
the channel of events to its end, as every caller in the repository does
(`run.go:660` sends without a way out). Approval waits have a timeout, so their
context ends. Nothing is assumed of clients: no request, cancellation, decision,
signal or read has to come (`StreamEnds` says of a client that reads, and only
of one, that its stream ends). The instance of `CommandEnds` has limits below
the number of agents only with agents that print no more than the channel
holds; what happens otherwise is `claim_limit`.

## Findings

Each `claim_*` run refutes one sentence of the repository, quoted in
`PROJECT.json`:

| Run | What happens |
|---|---|
| `claim_limit` | `--max-concurrency` below the number of agents: `ParallelRun` hands out its channel only after the last slot has started, and a slot that fills it never ends |
| `claim_synth` | a chain removes its worktree when it returns, unless it is kept; the synthesizer then runs in the winner's |
| `claim_budget` | nobody calls `RecordTokens` or `RecordCost`: the ceilings of `serve` are never reached |
| `claim_seam` | an event collected before a stream subscribed and stored after its snapshot reaches it neither way |

Other divergences between comments or docs and code, met while modelling. The
properties exempt them where they meet them:

* Run: an auth failure settles the row and publishes nothing (`run.go:511`). A
  refined run publishes `agent.executing` in phase `executing`, which has no row
  for it, so the strict replay of its log stops there: `LogReplaysToOutcome` is
  about single attempts. `mcp.injected` and the step-back and routing events are
  called observation-only in `event.go` and are rejected by `Apply`.
  `governance.approval_required` has a row from `submitted` only. Without
  `run.enriched` or beyond the fixed cap of three attempts a completed run is
  not shown as completed: `LiveFollowsRun` is about the others (`Followable`).
  A failed removal of a worktree or container is only logged (`run.go:335`,
  `:342`), and a container whose creation reported an error is not looked for
  (`docker.go:85`): `NothingLeaks` says that what there was a handle on was
  given back or tried. A cancelled run's terminal event is appended with the cancelled context, and
  may be lost; cancelling a run that waits for approval publishes `run.failed`.
* Parallel: `mergeWinner` does not look at the winner's status, and the judge's
  winner is not validated; `parallel.go:96` speaks of one budget for all
  children, but the guard counts per run id; `parallel.go:159` says clean-up
  removes branches, and `Remove` keeps them, so a second `--dag --parallel N`
  with its fixed run ids collides with the branches of the first.
* DAG: `dag.go:41` promises "identical semantics" and ignores governance,
  timeout, budget and store; `dag_run.go:31` says that the failure of a chain or
  of the synthesizer is reflected in `DAGResult.Error`, but the synthesizer's
  error is dropped (`dag_run.go:143`) and the run reported as a success
  (`DAGIsFanOut` leaves the verdict of such a run open); the errors of closing a chain's sandbox and removing
  its worktree are dropped without a word (`dag_chain.go:102`, `:171`); no `run.completed` or `run.failed` is
  published for its run id, and no `dag.completed` when the single node of a
  plan cannot be run; `Refine.MaxAttempts` of zero means no refining there, not
  three (`refine.go:49`); a hand-off summarises the node that ran before, not
  the dependency; chain work is never committed by the code (`dag_chain.go:236`
  lists a commit among the steps that end a chain, `:111` says there is none).
* Coordination and command line: `coordinate.go:249` says the report is always
  returned, and `Coordinate` drops it when it cannot be written, as it cannot
  when the worktree is gone; `--dag-from-file` without `--dag` and `--report`
  beside `--learn` are ignored.
* Governance and access: a Review verdict at the refine gate goes on without
  anybody's approval (`run.go:695`); an approval row can stand in the log without
  the review row before it; `DiffSize` never triggers, because no caller passes a
  size; `--rate-burst` far above `--rate-limit` gives evicted clients full
  buckets early (`RateBound` assumes `RefillsWithinTTL`); `?result=approved`
  is not accepted by the audit filter; a grant's `endpoints` are not enforced.
* Server: the purge after a timed-out drain drops the request of a run already
  popped (`server.go:340`); without a scheduler `serve` waits for a stuck
  launcher for ever (`server.go:501`); a handler that outlives a timed-out
  `Shutdown` may find `s.sched` nil; `run.dequeued` may precede `run.scheduled`,
  which already puts a run into the state cache; the zero `Priority` is low, not
  normal; strict priorities can starve low ones; a second `Stop` returns while
  the first drains; a stream opened after its run ended, or whose
  full channel dropped the terminal event, stays open.
* Events: `store.go:19` says that `LoadRun` returns events in the order they were
  appended, "occurred_at ASC" with ties by `rowid`; these are two orders, since
  `event.New` stamps an event before `Publish` appends it: an event stamped first
  and stored second is returned before events that an earlier load has shown.
* Approval: `Resolve` may return true for a wait that has timed out; a returning
  call may delete the registration of a newer call for the same run (the
  orchestrator makes one call per run, and `WaiterReachable` is about those).

## Proofs

Each theorem holds for every value of the constants that the named assumption
allows; TLC evaluates the assumptions on the instances. A safety property is
seldom inductive alone, so each module has an inductive invariant; every
step's preservation is proved action by action, and the properties follow
from it.

`PipelineProofs`, from `OptionsAssumption` (any set of option records).
`RunInvariant` ties where `Run` stands to what it holds (`Resources`), to its
row and its one announcement (`Rows`, `Announced`), to the gates passed by the
attempt that is being judged (`Checked`, `Decided`), and to the attempt count and
early returns (`Counted`, `AttemptBudget`, `Causes`). It gives
`PipelineInvariant`, `NothingLeaks`, `EndsAnnounced`, and the refinement of
`RunContract` (`KeepsContract`): the row settles in one step, later the event
is announced, every other step stutters. A second invariant, `PhaseInvariant`,
says in which phase the cached state is at each point of a run that the phase
machine can follow (`Shape`) and that a log that can be replayed gives the
same state (`StoredIsLive`); `LiveFollowsRun` and `LogReplaysToOutcome` are its
end points.

`RunServerProofs` begins with the scheduler alone and proves, from `SchedulerAssumption` (finitely many workers,
priorities are numbers, a positive capacity), that `SchedulerInvariant` is
inductive, and from it the exclusion of workers, the bound of the queue, final
cancellation, the complete drain, and `PositionOnlyYieldsToPriority`.
`MaxSubmits` is arbitrary, so it is no restriction. None of the properties is
inductive alone. That a finishing worker's unconditional delete removes its own
entry needs that the map has one entry per run id (`MapKeyedByRun`), that busy
workers hold distinct entries of the map and every running entry of the map has
a worker (`Holding`), and that an entry is queued exactly when it is in the map
and not running (`StatusInvariant`); that a cancelled run is never launched
needs that sequence numbers are unique (`Numbered`) and cancelled entries are
gone from map and pool (`CancelledGone`); the drain needs that a stopped queue
stays empty (`Stopping`). `NoLostWakeup` - while a worker sleeps there are at
least as many workers awake and ready as entries queued - is inductive by
counting: `Signal` moves one sleeper to the ready ones for each entry added, a
worker parks only when the queue is empty, and a pop takes one of each.

The server rests on that, and on `ConfigsAssumption`. Every step of the
server is a step of the scheduler or leaves it alone
(`ServerImplementsScheduler`), so `SchedulerInvariant` holds of the server and
is part of `ServerInvariant`. The rest says that a run is submitted once, by
the handler that accepts it (`SubmittedOnce`), that what was launched waits
nowhere (`LaunchIsFinal`), that what was accepted is somewhere
(`AcceptedIsKnown`), what the handlers in progress still hold (`HandlersHold`,
`HandlersEnd`), that launches with and without a scheduler do not mix
(`OneWay`), and how the stages of the shutdown follow each other
(`ServeFollows`). `StagedRequests` and `LaunchedWasAccepted` follow.

`ApprovalProofs` proves, from `ApprovalAssumption` (each call has a run; names
are distinct), that `ApprovalInvariant` is inductive. A decision in a channel
comes from the resolver that found that channel's call (`InTheRightChannel`);
what is registered has been found by nobody (`Registered`); so a call is found
at most once (`FoundOnce`), the buffer of capacity one suffices, and a decision
ends only its own wait. `ResolveGetsThrough` adds that a waiting call alone with
its run is registered or has been found.

`GovernedProofs` begins with the limiter by itself. From `LimiterAssumption`
(natural numbers), what a key is admitted in any window is bounded by a full
bucket and the inflow since (`RateBound`), and waiting for `retryAfter`
suffices. The bound is inductive only as a statement about what has been spent
and what the bucket would now hold together; the sweep preserves it because a
bucket idle for a ttl in which it refills is full (`SweepIsFair`). The promise
needs that the promised moment lies where the bucket, left alone, holds a token
(`PromiseKept`), and that rounding up loses nothing (`RoundedUpSuffices`).
Every step of the server is a step of the limiter or leaves it alone
(`ServerImplementsLimiter`), so both results hold of the server. From
`GovernedAssumption` (requests come from known addresses; keys and policies are
lists; policies have names and one of five answers: allow without or with a reason,
review, deny, an error): `EvaluateIsStrongest`, for a
policy list of any length, by taking a shortest prefix that would refute it;
and `GInvariant`, whose parts are, per run, that creator, approver, principal
and tools are those the access file allows (`Within`), that the decision a run
waits on is that of the attempt it is about to make (`Allowed`), that rows
written and rows still to be written belong together, no explanation is
stronger than the decision it explains, and nothing but explanations follows a
denial (`Audited`), and that the budget guard knows
exactly the runs at work (`Guarded`). `ActsWithinGrant`, `GovernedAttempts` and
`AuditTruthful` follow.

`PlannerProofs`, from `PlannerAssumption` (ids are numbers, 0 stands for the
empty one), is about the algorithms and plans of every size. The provers cannot
use the library's induction principles, which take a predicate as a parameter;
`CountUp` takes a set of numbers instead, and follows from the well-foundedness
of the numbers. A recursive function is a choice among the solutions of its
equation, so each is first shown to have one: the loops by counting, the visit
of `findCycle` by the number of white nodes (`VisitExists`), the walk of
`decomposeChains` by the nodes above in a numbering of the plan (`WalkExists`).
Then:

* `FindCycleIsExact`. A visit without a hit leaves the finished nodes numbered
  above their dependencies (`Ranked`, extended by `BlackenRanked` when a node
  turns black), so the plan is acyclic; and if there is such a numbering, a visit
  never meets a gray node, for the gray ones all lie above it (`Quiet`).
* `ValidateIsExact` adds the other checks; `AcceptedPlanIsRooted` finds a root
  as the lowest node.
* `ChainsAreExact`. The walk from a node is a `Tree`: it lists the node and all
  that descends from it, once, each behind what it depends on. The trees of
  different children are apart because every node has one dependency
  (`TreesApart`), and so are those of different roots.
* `TopoSortOrders`. A round of Kahn's algorithm keeps `Kahn`: the degree of a
  node is the number of its dependencies not yet listed, and exactly those of
  degree 0 are listed or ready. While a node is left there is a ready one, since
  the lowest unlisted node waits for nothing.

`FanOutProofs`, from `ParallelAssumption`, for any number of agents, buffer and
options: `ParallelRun` implements `FanOut`, because slots, results and the
parent's status move together (`FanOutInvariant`: `ResultsStored`,
`SlotsFollow`, `VerdictFollows`); HEAD gets at most the judge's winner, after
every slot has ended and before the winner's worktree is given up
(`HeadInvariant`); the relay loses nothing (`RelayInvariant`: what an agent
printed is in its channel or with the caller, and no channel has anything left
once the await is over). From `DAGAssumption`, for any plans and number of
chains: `DAGInvariant` says where the chains are when the coordinator is
somewhere (`ChainsFollow`) and what each chain holds and has announced
(`ChainSound`), which gives `SynthesisAfterBarrier` and `DAGSettled`; `DAGRun`
implements `FanOut`, where `AcceptedPlanIsRooted` provides a member to begin
with; and the chains it runs are those of an accepted plan (`SpecsFollow`), so
that the planner's theorems give `ChainsCoverPlan`.

The command, from these and from `CoordinateAssumption` and `CommandAssumption`
(any non-empty set of flags): `CommandInvariant` has the invariants of the three
machines and of the coordinated run (`CoordinateInvariant`: what was announced is
of passes already passed, in their order, and with a bus it is what was given),
and says where the command stands for its flags (`CommandWhere`), that machines
it does not reach rest (`OthersRest`), and that a successful exit has its reason
in the machine that ran (`OutcomeTold`). `CommandTruthful` follows, and the
properties and refinements of both fan-outs hold under the command with the
options it builds (`CommandKeepsTheFanOuts`, `CommandImplementsFanOuts`).

`EventStreamProofs`, from `StreamAssumption`, for any publishers, clients,
events and channel; `MaxLoad` is arbitrary there. `StreamInd` says that
publishers work on distinct events whose stamps never fall (`Publishing`), that
the store has each at most once, never before one whose publication was over
when it was created (`Stored`), and that the bus lists
the open streams (`Membership`). Of each client it says: what comes to it is on
one way only (`OneWay`); the event it named, and those it came too late for,
do not come live, and nothing stored up to the named one is replayed (`Past`);
what the replay and the channel share is marked as seen (`Replayed`); what it
may miss raced with its subscription (`Late`); everything else has come, will
come or was counted as dropped (`Seam`); and replay, channel and output are
each in turn, and one after the other (`Snapshot`, `Channel`, `SentInTurn`).
An insertion in the middle of the log keeps the relative order of what is
there, so a replay cut off earlier stays a part of it (`InsertMoves`,
`OrderKept`). `NoEventTwice` and `StreamInvariant` follow; the exceptions they
make, an event stamped before the named one and published after the
subscription, do happen in the run.

`ObserverProofs`, from `CapacityAssumption` and `MetricsAssumption`, for any
runs. `CacheInvariant`: the eviction queue lists the cached runs once each, a
snapshot that never left is what the run's events imply, and a run that is
neither cached nor gone has published nothing; with what `evictIfFull`
chooses (`EvictChoice`) it gives `CacheExact` and `EvictionSparesLive`.
`TrackerInvariant`: the tracker's list is its map and holds starts of runs
under way only, of which there are finitely many; so a full tracker means more
runs under way than it can hold, which is `DropsOnlyWhenCrowded`. The metrics
proper: every event is delivered once, so a run is timed at most once
(`JobsInvariant`); the line of a bound counts the runs timed up to it, because an
observation raises the running totals from its own bucket on, by induction over
the list of bounds (`ObservedOnce`, `DurationsInvariant`); a result is counted
before its duration is observed (`CountsInvariant`), and a page reads the
histogram before the counter, so it cannot show more durations than results
(`PageInvariant`). `MetricsTruthful` follows.

Only model-checked is liveness (`RunEnds`, `AdmittedSettles`, `StopDrains`,
`AcceptedIsServed`, `ServeReturns`, `WaitEnds`, `StreamEnds`, `PublishEnds`,
`CommandEnds`): the prover does not handle fairness and `ENABLED`. The `claim_*`
runs are counterexamples and need no proof.

## Not modelled

* Prompts, their construction, and the parsing of language-model answers:
  what the code distinguishes in an answer is a choice of the models.
* The SQL of the run store and of the audit log, whose statements insert, update
  and select by key: a write happens or fails. (The order in which the event
  store returns rows is modelled.) Schemas and the scanning of rows.
* Docker and git themselves, and the agents' command lines: outside the
  repository, seen through their callers.
* `LocalBus.Close`, the reactor's queue and the terminal approver: seen through
  their users.
* Memory and brain (text similarity), Langfuse tracing, logging, redaction and
  compliance reports: they read, and change nothing the modelled parts read.
* The commands other than `run` and `serve`: they print or copy files.

## What could come next

Several callers of `Stop`; the reactor's queue; the order in which the pool's
events leave after its mutex is released.
