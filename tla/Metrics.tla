------------------------------ MODULE Metrics ------------------------------
(***************************************************************************)
(* internal/metrics: the subscriber that turns bus events into counters    *)
(* and a histogram of run durations, the tracker of the runs' starts it    *)
(* needs for that, and GET /metrics, which renders the families one after  *)
(* the other while events go on being counted.                             *)
(*                                                                         *)
(* Every family and every child has a lock of its own, so an event is      *)
(* counted in several steps.  A family is a function from label values to  *)
(* numbers; a child that nobody asked for yet reads 0 here and has no line *)
(* in the page.                                                            *)
(***************************************************************************)
EXTENDS ExecutionState, Integers, Sequences, FiniteSets, SequencesExt

CONSTANTS StartCapacity,  \* startTracker.capacity
          Bounds,         \* upper bounds of the histogram's buckets, increasing
          StartStamps, EndStamps  \* timestamps of events

ASSUME MetricsAssumption ==
    /\ StartCapacity \in Nat \ {0}
    /\ Bounds \in Seq(Int)
    /\ \A i \in 1..(Len(Bounds) - 1) : Bounds[i] < Bounds[i + 1]
    /\ StartStamps \subseteq Int /\ EndStamps \subseteq Int

VARIABLES
    eventsTotal,  \* sandcode_events_total{type}
    runsTotal,    \* sandcode_runs_total{result}
    otherTotals,  \* the other counter families, by <<family, label>>
    runDuration,  \* sandcode_run_duration_seconds{result}
    starts,       \* startTracker.starts
    startOrder,   \* startTracker.order
    observing,    \* how far observe is with each run's event
    page,         \* what a scrape has rendered
    \* history
    timed,        \* the duration observed for each run; -1 for none
    crowded       \* runs whose start was dropped for want of room

metricVars == <<eventsTotal, runsTotal, otherTotals, runDuration, starts, startOrder,
                observing, page, timed, crowded>>

Results == {"completed", "failed", "cancelled"}

\* The event type that ends a run with each result.
EndOf == [completed |-> "run.completed", failed |-> "run.failed", cancelled |-> "run.cancelled"]
ResultOf(type) == CHOOSE x \in Results : EndOf[x] = type

\* The counter observe increments beside eventsTotal, for the other types.
Tally == [t \in {"verify.passed", "verify.failed", "refine.triggered", "governance.approved",
                 "governance.denied", "governance.approval_required",
                 "budget.threshold_reached", "budget.exceeded", "sandbox.created",
                 "sandbox.destroyed", "agent.tool_called"} |->
            CASE t = "verify.passed" -> <<"verify", "passed">>
              [] t = "verify.failed" -> <<"verify", "failed">>
              [] t = "refine.triggered" -> <<"refines", "">>
              [] t = "governance.approved" -> <<"governance", "approved">>
              [] t = "governance.denied" -> <<"governance", "denied">>
              [] t = "governance.approval_required" -> <<"governance", "required">>
              [] t = "budget.threshold_reached" -> <<"budget", "threshold">>
              [] t = "budget.exceeded" -> <<"budget", "exceeded">>
              [] t = "sandbox.created" -> <<"sandboxes", "created">>
              [] t = "sandbox.destroyed" -> <<"sandboxes", "destroyed">>
              [] t = "agent.tool_called" -> <<"agent_tools", "">>]

NoChild == [counts |-> [i \in DOMAIN Bounds |-> 0], sum |-> 0, count |-> 0]
NoPage == [at |-> 0, result |-> "completed", cum |-> [i \in DOMAIN Bounds |-> 0],
           count |-> 0, runs |-> 0]
Idle == [at |-> "idle", type |-> "", stamp |-> 0]

\* NewSubscriber on a fresh registry.
MetricsInit ==
    /\ eventsTotal = [t \in {} |-> 0]
    /\ runsTotal = [x \in Results |-> 0]
    /\ otherTotals = [c \in {} |-> 0]
    /\ runDuration = [x \in Results |-> NoChild]
    /\ starts = [r \in {} |-> 0]
    /\ startOrder = <<>>
    /\ observing = [r \in RunIDs |-> Idle]
    /\ page = NoPage
    /\ timed = [r \in RunIDs |-> -1]
    /\ crowded = {}

-----------------------------------------------------------------------------
(* Counters *)

\* Counter.Inc of a family whose children are made on first use.
Inc(family, label) ==
    [l \in DOMAIN family \cup {label} |->
        (IF l \in DOMAIN family THEN family[l] ELSE 0) + (IF l = label THEN 1 ELSE 0)]

\* histogramChild.Observe: the first bucket whose bound is not below v; what is
\* beyond the last one is in the count only.
Observe(child, v) ==
    [counts |-> [i \in DOMAIN Bounds |->
        child.counts[i] + (IF v <= Bounds[i] /\ \A j \in 1..(i - 1) : Bounds[j] < v
                           THEN 1 ELSE 0)],
     sum |-> child.sum + v, count |-> child.count + 1]

\* Snapshot's running totals.
Cumulative(child) ==
    LET cum[i \in 0..Len(Bounds)] == IF i = 0 THEN 0 ELSE cum[i - 1] + child.counts[i]
    IN  [i \in DOMAIN Bounds |-> cum[i]]

-----------------------------------------------------------------------------
(* startTracker *)

\* set: with a new run too many the oldest is dropped.
SetStart(r, ts) ==
    LET new == r \notin DOMAIN starts
        ord == IF new THEN Append(startOrder, r) ELSE startOrder
        full == new /\ Len(ord) > StartCapacity
        kept == (DOMAIN starts \cup {r}) \ (IF full THEN {Head(ord)} ELSE {})
    IN /\ starts' = [q \in kept \cup {r} |-> IF q = r THEN ts ELSE starts[q]]
       /\ startOrder' = IF full THEN Tail(ord) ELSE ord
       /\ crowded' = IF full THEN crowded \cup {Head(ord)} ELSE crowded

\* Mutant: the id stays in the insertion order.
TakeStart_KeepsOrder(r) ==
    /\ starts' = [q \in DOMAIN starts \ {r} |-> starts[q]]
    /\ UNCHANGED startOrder

\* take of a start that is there.
TakeStart(r) ==
    /\ starts' = [q \in DOMAIN starts \ {r} |-> starts[q]]
    /\ startOrder' = RemoveFirst(startOrder, r)

-----------------------------------------------------------------------------
(* observe, step by step *)

\* observe begins: eventsTotal.Inc and, for the types that only count, the
\* other counter (no page shows both together with anything else).
BeginObserve(r, type, stamp) ==
    /\ eventsTotal' = Inc(eventsTotal, type)
    /\ otherTotals' = IF type \in DOMAIN Tally THEN Inc(otherTotals, Tally[type]) ELSE otherTotals
    /\ observing' = [observing EXCEPT ![r] =
          CASE type = "run.submitted" -> [at |-> "start", type |-> type, stamp |-> stamp]
            [] type \in Range(EndOf) -> [at |-> "result", type |-> type, stamp |-> stamp]
            [] OTHER -> Idle]
    /\ UNCHANGED <<runsTotal, runDuration, starts, startOrder, page, timed, crowded>>

RecordStart(r) ==
    /\ observing[r].at = "start"
    /\ SetStart(r, observing[r].stamp)
    /\ observing' = [observing EXCEPT ![r] = Idle]
    /\ UNCHANGED <<eventsTotal, runsTotal, otherTotals, runDuration, page, timed>>

CountResult(r) ==
    /\ observing[r].at = "result"
    /\ runsTotal' = [runsTotal EXCEPT ![ResultOf(observing[r].type)] = @ + 1]
    /\ observing' = [observing EXCEPT ![r].at = "take"]
    /\ UNCHANGED <<eventsTotal, otherTotals, runDuration, starts, startOrder, page, timed, crowded>>

\* recordDuration up to its early return: no start, or one that lies later.
TakeForDuration(r) ==
    /\ observing[r].at = "take"
    /\ IF r \in DOMAIN starts
       THEN /\ TakeStart(r)
            /\ observing' = [observing EXCEPT ![r] =
                  IF observing[r].stamp < starts[r] THEN Idle
                  ELSE [at |-> "observe", type |-> observing[r].type,
                        stamp |-> observing[r].stamp - starts[r]]]
       ELSE /\ observing' = [observing EXCEPT ![r] = Idle]
            /\ UNCHANGED <<starts, startOrder>>
    /\ UNCHANGED <<eventsTotal, runsTotal, otherTotals, runDuration, page, timed, crowded>>

ObserveDuration(r) ==
    /\ observing[r].at = "observe"
    /\ runDuration' = [runDuration EXCEPT ![ResultOf(observing[r].type)] =
                          Observe(@, observing[r].stamp)]
    /\ timed' = [timed EXCEPT ![r] = observing[r].stamp]
    /\ observing' = [observing EXCEPT ![r] = Idle]
    /\ UNCHANGED <<eventsTotal, runsTotal, otherTotals, starts, startOrder, page, crowded>>

ObserveStep(r) == RecordStart(r) \/ CountResult(r) \/ TakeForDuration(r) \/ ObserveDuration(r)

-----------------------------------------------------------------------------
(* Render, as far as one result's lines go. *)

\* Mutant: the order in which NewSubscriber registers them.
FamilyOrder_Registered == <<"sandcode_runs_total", "sandcode_run_duration_seconds">>

\* Families are written in the order of their names.
FamilyOrder == <<"sandcode_run_duration_seconds", "sandcode_runs_total">>

\* The next family: Histogram.write takes one Snapshot of the child, and
\* Counter.write reads its child.
WriteFamily(x) ==
    /\ page.at < Len(FamilyOrder)
    /\ page.at > 0 => x = page.result
    /\ page' = IF FamilyOrder[page.at + 1] = "sandcode_runs_total"
               THEN [page EXCEPT !.at = @ + 1, !.result = x, !.runs = runsTotal[x]]
               ELSE [page EXCEPT !.at = @ + 1, !.result = x,
                                 !.cum = Cumulative(runDuration[x]), !.count = runDuration[x].count]

SendPage == page.at = Len(FamilyOrder) /\ page' = NoPage

Scrape ==
    /\ (\E x \in Results : WriteFamily(x)) \/ SendPage
    /\ UNCHANGED <<eventsTotal, runsTotal, otherTotals, runDuration, starts, startOrder,
                   observing, timed, crowded>>

-----------------------------------------------------------------------------
(* Properties *)

\* A page tells no lie about a result although it is put together while events
\* are counted: bucket lines do not decrease, none exceeds the +Inf line, which
\* is the count, and no more runs were timed than ended.
ScrapeConsistent ==
    page.at = Len(FamilyOrder) =>
       /\ \A i \in DOMAIN Bounds :
             page.cum[i] <= page.count /\ \A j \in 1..i : page.cum[j] <= page.cum[i]
       /\ page.count <= page.runs

\* The histogram is what the observed durations make it, bound by bound.
DurationsAddUp ==
    \A i \in DOMAIN Bounds :
       Cumulative(runDuration["completed"])[i] + Cumulative(runDuration["failed"])[i]
             + Cumulative(runDuration["cancelled"])[i]
          = Cardinality({r \in RunIDs : timed[r] >= 0 /\ timed[r] <= Bounds[i]})

\* The families hold what was observed, and every page of them adds up.
MetricsTruthful == DurationsAddUp /\ ScrapeConsistent
=============================================================================
