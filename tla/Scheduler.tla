----------------------------- MODULE Scheduler -----------------------------
(***************************************************************************)
(* internal/scheduler: a bounded priority queue feeding a fixed pool of    *)
(* worker goroutines.                                                      *)
(*                                                                         *)
(* Every critical section under s.mu is one action; what the code does     *)
(* after releasing the mutex (emitting, launching) is another.  An *entry  *)
(* is a record; its submitSeq makes it unique, as its address does in the  *)
(* code, and its running flag is membership in `running'.  The map         *)
(* s.runs is the set of entries it holds, keyed by run id; the heap is the *)
(* set of entries it holds, popped in the order of Less.                   *)
(*                                                                         *)
(* Submit, Cancel and Status are called by any number of goroutines: an    *)
(* emission that a caller still has to make after unlocking waits in       *)
(* `outbox', in no order.                                                  *)
(***************************************************************************)
EXTENDS Naturals, FiniteSets

CONSTANTS
    RunIDs,         \* run ids callers submit
    Workers,        \* the PoolSize worker goroutines
    Priorities,     \* the Priority values in use
    QueueCap,       \* Config.QueueCap
    MaxSubmits,     \* bound on the number of admissions
    NoEntry         \* a worker's entry while it has none

Entries == [run : RunIDs, prio : Priorities, seq : 1 .. MaxSubmits]

ASSUME SchedulerAssumption ==
    /\ IsFiniteSet(Workers)
    /\ Priorities \subseteq Nat
    /\ QueueCap \in Nat \ {0}
    /\ MaxSubmits \in Nat
    /\ NoEntry \notin Entries

VARIABLES
    queue,      \* entries in the heap
    runs,       \* entries in the map
    running,    \* entries whose running flag is set
    seq,        \* s.seq
    stopped,    \* s.stopped
    wpc,        \* where each worker stands
    held,       \* the entry a worker popped and has not finished
    outbox,     \* emissions owed by Submit and Cancel callers
    stopper,    \* where the Stop call stands
    purged,     \* entries Stop popped and has not announced yet
    \* history
    published,  \* <<entry, event type>> pairs emitted so far
    launches,   \* how often each entry's launch was invoked
    cancelled   \* entries taken out of the queue by Cancel or Stop

lockVars == <<queue, runs, running, seq, stopped>>
vars == <<lockVars, wpc, held, outbox, stopper, purged, published, launches, cancelled>>

EmitTypes == {"run.scheduled", "run.dequeued", "run.cancelled"}

WorkerStates == {"ready", "waiting", "dequeued", "launching", "running",
                 "finishing", "exited"}

TypeOK ==
    /\ queue \subseteq Entries
    /\ runs \subseteq Entries
    /\ running \subseteq Entries
    /\ seq \in 0 .. MaxSubmits
    /\ stopped \in BOOLEAN
    /\ wpc \in [Workers -> WorkerStates]
    /\ held \in [Workers -> Entries \cup {NoEntry}]
    /\ outbox \subseteq Entries \X EmitTypes
    /\ stopper \in {"idle", "emitting", "returned", "timedout"}
    /\ purged \subseteq Entries
    /\ published \subseteq Entries \X EmitTypes
    /\ launches \in [1 .. MaxSubmits -> Nat]
    /\ cancelled \subseteq Entries

\* After New and Start: PoolSize workers about to take the mutex.
Init ==
    /\ queue = {} /\ runs = {} /\ running = {}
    /\ seq = 0
    /\ stopped = FALSE
    /\ wpc = [w \in Workers |-> "ready"]
    /\ held = [w \in Workers |-> NoEntry]
    /\ outbox = {}
    /\ stopper = "idle" /\ purged = {}
    /\ published = {}
    /\ launches = [n \in 1 .. MaxSubmits |-> 0]
    /\ cancelled = {}

-----------------------------------------------------------------------------

\* Mutant: last in, first out within a priority.
Less_LIFO(a, b) == a.prio > b.prio \/ (a.prio = b.prio /\ a.seq > b.seq)

\* pq.Less: higher priority first, arrival order within a priority.
Less(a, b) == a.prio > b.prio \/ (a.prio = b.prio /\ a.seq < b.seq)

\* pq.positionOf, what Status reports for a queued run.
PositionOf(e) == Cardinality({f \in queue : Less(f, e)})

\* The entry heap.Pop returns.
IsTop(e) == e \in queue /\ \A f \in queue : ~Less(f, e)

Waiting == {w \in Workers : wpc[w] = "waiting"}
Ready   == {w \in Workers : wpc[w] = "ready"}

\* Workers between popping an entry and deleting it from the map.
Busy == {w \in Workers : wpc[w] \in {"dequeued", "launching", "running", "finishing"}}

\* Mutant: the Signal is forgotten.
Signal_Lost == wpc' = wpc

\* sync.Cond.Signal: one waiter, if there is one, contends for the mutex again.
Signal ==
    \/ Waiting = {} /\ wpc' = wpc
    \/ \E w \in Waiting : wpc' = [wpc EXCEPT ![w] = "ready"]

\* s.runs[runID] exists.
Duplicate(r) == \E e \in runs : e.run = r

QueueFull == Cardinality(queue) >= QueueCap

\* An admission: ErrStopped, ErrDuplicate and ErrQueueFull change nothing.
Submit(r, p) ==
    LET e == [run |-> r, prio |-> p, seq |-> seq + 1]
    IN  /\ ~stopped
        /\ ~Duplicate(r)
        /\ ~QueueFull
        /\ seq < MaxSubmits
        /\ seq' = seq + 1
        /\ runs' = runs \cup {e}
        /\ queue' = queue \cup {e}
        /\ Signal
        /\ outbox' = outbox \cup {<<e, "run.scheduled">>}
        /\ UNCHANGED <<running, stopped, held, stopper, purged, published,
                       launches, cancelled>>

\* Mutant: Cancel does not look at the running flag.
Cancellable_AnyState(e) == e \in runs

Cancellable(e) == e \in runs /\ e \notin running

\* Cancel of a queued run; of an unknown or running one it returns false.
Cancel(r) ==
    \E e \in runs :
        /\ e.run = r
        /\ Cancellable(e)
        /\ queue' = {f \in queue : f.run # r}
        /\ runs' = {f \in runs : f.run # r}
        /\ outbox' = outbox \cup {<<e, "run.cancelled">>}
        /\ cancelled' = cancelled \cup {e}
        /\ UNCHANGED <<running, seq, stopped, wpc, held, stopper, purged,
                       published, launches>>

\* A Submit or Cancel caller publishes, after releasing the mutex.
Emit ==
    \E m \in outbox :
        /\ outbox' = outbox \ {m}
        /\ published' = published \cup {m}
        /\ UNCHANGED <<lockVars, wpc, held, stopper, purged, launches, cancelled>>

-----------------------------------------------------------------------------
(* worker *)

\* The queue is empty: cond.Wait releases the mutex and parks.
Park(w) ==
    /\ wpc[w] = "ready"
    /\ queue = {} /\ ~stopped
    /\ wpc' = [wpc EXCEPT ![w] = "waiting"]
    /\ UNCHANGED <<lockVars, held, outbox, stopper, purged, published, launches, cancelled>>

Exit(w) ==
    /\ wpc[w] = "ready"
    /\ queue = {} /\ stopped
    /\ wpc' = [wpc EXCEPT ![w] = "exited"]
    /\ UNCHANGED <<lockVars, held, outbox, stopper, purged, published, launches, cancelled>>

\* Mutant: the popped entry is not marked running.
MarkRunning_Forgotten(e) == running' = running

MarkRunning(e) == running' = running \cup {e}

Pop(w) ==
    \E e \in queue :
        /\ wpc[w] = "ready"
        /\ IsTop(e)
        /\ queue' = queue \ {e}
        /\ MarkRunning(e)
        /\ held' = [held EXCEPT ![w] = e]
        /\ wpc' = [wpc EXCEPT ![w] = "dequeued"]
        /\ UNCHANGED <<runs, seq, stopped, outbox, stopper, purged, published,
                       launches, cancelled>>

EmitDequeued(w) ==
    /\ wpc[w] = "dequeued"
    /\ published' = published \cup {<<held[w], "run.dequeued">>}
    /\ wpc' = [wpc EXCEPT ![w] = "launching"]
    /\ UNCHANGED <<lockVars, held, outbox, stopper, purged, launches, cancelled>>

\* runOne calls launch ...
Launch(w) ==
    /\ wpc[w] = "launching"
    /\ launches' = [launches EXCEPT ![held[w].seq] = @ + 1]
    /\ wpc' = [wpc EXCEPT ![w] = "running"]
    /\ UNCHANGED <<lockVars, held, outbox, stopper, purged, published, cancelled>>

\* ... which returns, or panics and is recovered.
LaunchReturns(w) ==
    /\ wpc[w] = "running"
    /\ wpc' = [wpc EXCEPT ![w] = "finishing"]
    /\ UNCHANGED <<lockVars, held, outbox, stopper, purged, published, launches, cancelled>>

\* Mutant: the finished run is not deleted from the map.
Finish_KeepsEntry(w) ==
    /\ wpc[w] = "finishing"
    /\ held' = [held EXCEPT ![w] = NoEntry]
    /\ wpc' = [wpc EXCEPT ![w] = "ready"]
    /\ UNCHANGED <<lockVars, outbox, stopper, purged, published, launches, cancelled>>

\* delete(s.runs, e.runID), and back to the top of the loop.
Finish(w) ==
    /\ wpc[w] = "finishing"
    /\ runs' = {f \in runs : f.run # held[w].run}
    /\ held' = [held EXCEPT ![w] = NoEntry]
    /\ wpc' = [wpc EXCEPT ![w] = "ready"]
    /\ UNCHANGED <<queue, running, seq, stopped, outbox, stopper, purged,
                   published, launches, cancelled>>

WorkerStep(w) ==
    \/ Park(w) \/ Exit(w) \/ Pop(w) \/ EmitDequeued(w)
    \/ Launch(w) \/ LaunchReturns(w) \/ Finish(w)

-----------------------------------------------------------------------------
(* Stop *)

\* Mutant: the idle workers are not woken.
Broadcast_Lost == wpc' = wpc

\* sync.Cond.Broadcast.
Broadcast == wpc' = [w \in Workers |-> IF wpc[w] = "waiting" THEN "ready" ELSE wpc[w]]

\* The first Stop: drain the heap, drop the drained runs from the map, wake all.
Stop ==
    /\ ~stopped
    /\ stopped' = TRUE
    /\ queue' = {}
    /\ runs' = {f \in runs : \A e \in queue : f.run # e.run}
    /\ purged' = queue
    /\ cancelled' = cancelled \cup queue
    /\ Broadcast
    /\ stopper' = "emitting"
    /\ UNCHANGED <<running, seq, held, outbox, published, launches>>

\* Announce the drained runs in the order they were popped.
StopEmit ==
    /\ stopper = "emitting"
    /\ \E e \in purged :
          /\ \A f \in purged : ~Less(f, e)
          /\ purged' = purged \ {e}
          /\ published' = published \cup {<<e, "run.cancelled">>}
    /\ UNCHANGED <<lockVars, wpc, held, outbox, stopper, launches, cancelled>>

\* s.pool.Wait() returns.
PoolDone == \A w \in Workers : wpc[w] = "exited"

StopReturns ==
    /\ stopper = "emitting" /\ purged = {}
    /\ PoolDone
    /\ stopper' = "returned"
    /\ UNCHANGED <<lockVars, wpc, held, outbox, purged, published, launches, cancelled>>

\* The drain context ends first; the workers go on.
StopTimesOut ==
    /\ stopper = "emitting" /\ purged = {}
    /\ stopper' = "timedout"
    /\ UNCHANGED <<lockVars, wpc, held, outbox, purged, published, launches, cancelled>>

-----------------------------------------------------------------------------

\* Everything has ended: no more steps are owed.
Quiet ==
    /\ PoolDone /\ outbox = {} /\ stopper \in {"returned", "timedout"}
    /\ UNCHANGED vars

Next ==
    \/ \E r \in RunIDs, p \in Priorities : Submit(r, p)
    \/ \E r \in RunIDs : Cancel(r)
    \/ Emit
    \/ \E w \in Workers : WorkerStep(w)
    \/ Stop \/ StopEmit \/ StopReturns \/ StopTimesOut
    \/ Quiet

\* Goroutines that can run do run, and a launch returns: the orchestrator
\* ends every run.  Nobody has to call Submit, Cancel or Stop.
Fairness ==
    /\ \A w \in Workers : WF_vars(WorkerStep(w))
    /\ WF_vars(Emit)
    /\ WF_vars(StopEmit \/ StopReturns)

Spec == Init /\ [][Next]_vars /\ Fairness

-----------------------------------------------------------------------------
(* Properties *)

\* pool.go: "a runs[] entry with running==false is always in the heap", so
\* Status never reports position -1; and the heap holds nothing else.
StatusInvariant == \A e \in Entries : (e \in queue) <=> (e \in runs /\ e \notin running)

\* The map never has two entries under one id, and every entry it still has is
\* queued or held by exactly one worker: the unconditional delete at the end of
\* a worker's turn removes that worker's own entry, never a newer one.
WorkerOwnsEntry ==
    /\ \A e \in runs, f \in runs : e.run = f.run => e = f
    /\ \A w \in Busy : held[w] \in runs
    /\ \A e \in runs \cap running : \E w \in Busy : held[w] = e

\* Two pool goroutines never work on the same run.
OneWorkerPerRun ==
    \A v \in Busy, w \in Busy : held[v].run = held[w].run => v = w

\* A run whose Cancel returned true, or that Stop purged, is never launched; a
\* launched one is launched once.
CancelledNeverLaunched ==
    /\ \A e \in cancelled : launches[e.seq] = 0 /\ \A w \in Busy : held[w] # e
    /\ \A n \in 1 .. MaxSubmits : launches[n] <= 1

\* The queue holds at most QueueCap entries.
QueueBounded == Cardinality(queue) <= QueueCap

\* No wakeup is lost: while some worker sleeps, enough workers are awake and
\* about to look at the queue to take everything in it.
NoLostWakeup == Waiting # {} => Cardinality(queue) <= Cardinality(Ready)

\* When Stop returns nil nothing is left: no worker, no queued or running run.
DrainComplete ==
    stopper = "returned" => queue = {} /\ runs = {} /\ Busy = {} /\ Waiting = {}

\* The position Status reports to a queued run's owner grows only when a run
\* of strictly higher priority is admitted.
PositionOnlyYieldsToPriority ==
    [][\A e \in queue \cap queue' :
          PositionOf(e)' > PositionOf(e) =>
              \E f \in queue' \ queue : f.prio > e.prio]_vars

\* Every admitted run is eventually launched or cancelled, and when its launch
\* has returned its id is free again.
AdmittedSettles ==
    \A n \in 1 .. MaxSubmits :
        (\E e \in queue : e.seq = n) ~>
            (/\ \A e \in runs : e.seq # n
             /\ launches[n] = 1 \/ \E e \in cancelled : e.seq = n)

\* Once Stop is called the whole pool winds down.
StopDrains == stopped ~> PoolDone

-----------------------------------------------------------------------------
(* The inductive invariant behind the safety properties *)

\* Sequence numbers are handed out once: no two entries share one, and numbers
\* not handed out yet have not been launched.
Numbered ==
    /\ \A e \in queue \cup running \cup cancelled : e.seq <= seq
    /\ \A e \in queue \cup running \cup cancelled,
          f \in queue \cup running \cup cancelled : e.seq = f.seq => e = f
    /\ \A n \in 1 .. MaxSubmits : n > seq => launches[n] = 0

MapKeyedByRun == \A e \in runs, f \in runs : e.run = f.run => e = f

\* A busy worker's entry is in the map, flagged running, and its alone; every
\* running entry of the map has such a worker.
Holding ==
    /\ \A w \in Busy : held[w] \in runs /\ held[w] \in running
    /\ \A v \in Busy, w \in Busy : held[v] = held[w] => v = w
    /\ \A e \in runs \cap running : \E w \in Busy : held[w] = e

CancelledGone == \A e \in cancelled : e \notin runs /\ e \notin running

\* What has not been launched: the queue, the cancelled, and the entries whose
\* worker is about to.
LaunchCount ==
    /\ \A e \in queue \cup cancelled : launches[e.seq] = 0
    /\ \A w \in Workers :
          wpc[w] \in {"dequeued", "launching"} => launches[held[w].seq] = 0
    /\ \A n \in 1 .. MaxSubmits : launches[n] <= 1

Stopping ==
    /\ stopped => queue = {}
    /\ stopper # "idle" => stopped
    /\ stopper = "returned" => PoolDone

\* The part without counting, and the part that counts.
Core == /\ TypeOK /\ Numbered /\ StatusInvariant /\ MapKeyedByRun /\ Holding
        /\ CancelledGone /\ LaunchCount /\ Stopping

Counts == IsFiniteSet(queue) /\ QueueBounded /\ NoLostWakeup

\* What every step of the scheduler preserves; it implies the safety
\* properties above.
SchedulerInvariant == Core /\ Counts
=============================================================================
