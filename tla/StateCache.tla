----------------------------- MODULE StateCache -----------------------------
(***************************************************************************)
(* internal/server.StateCache: the bounded projection of the event bus     *)
(* that GET /v1/runs and GET /v1/runs/{id} answer from.                    *)
(*                                                                         *)
(* Every event with a run id goes through apply, which makes an entry for  *)
(* a run it does not know, evicts one if there are too many, and applies   *)
(* the event; the runs' events interleave freely.  A run's events are a    *)
(* queued, then a plain, execution with the lesson that is extracted after *)
(* the run completed; it may fail or be cancelled on the way.              *)
(***************************************************************************)
EXTENDS ExecutionState, Sequences, SequencesExt

CONSTANT Capacity

ASSUME CapacityAssumption == Capacity \in Nat \ {0}

VARIABLES
    states,     \* c.states
    order,      \* c.order
    pos,        \* how many events each run has published
    \* history
    truth,      \* each run's ExecutionState after all its events
    gone        \* runs evicted or forgotten at least once

vars == <<states, order, pos, truth, gone>>

\* What a queued run that completes publishes.
Script == <<"run.scheduled", "run.dequeued", "run.submitted", "sandbox.created",
            "agent.executing", "agent.completed", "run.completed",
            "brain.lesson_extracted">>

Init ==
    /\ states = [r \in {} |-> NewExecutionState(r)]
    /\ order = <<>>
    /\ pos = [r \in RunIDs |-> 0]
    /\ truth = [r \in RunIDs |-> NewExecutionState(r)]
    /\ gone = {}

\* Mutant: ended runs are not preferred.
Evict_Oldest(sts, ord) == Head(ord)

\* evictIfFull's choice: the oldest terminal entry, else the oldest.
Evict(sts, ord) ==
    LET ended == {i \in DOMAIN ord : IsTerminal(sts[ord[i]].phase)}
    IN  ord[IF ended = {} THEN 1 ELSE Min(ended)]

OverCapacity(sts) == Cardinality(DOMAIN sts) > Capacity

\* st.Apply(ev): what it rejects, the events of an ended run among them, is
\* swallowed.
ApplyTo(sts, r, type) == [sts EXCEPT ![r] = Apply(@, [type |-> type, run |-> r])]

\* apply(ev)
CacheApply(r, type) ==
    LET known == r \in DOMAIN states
        sts == [q \in DOMAIN states \cup {r} |->
                   IF q \in DOMAIN states THEN states[q] ELSE NewExecutionState(q)]
        ord == IF known THEN order ELSE Append(order, r)
    IN  IF ~known /\ OverCapacity(sts)
        THEN LET v == Evict(sts, ord)
             IN  /\ states' = ApplyTo(Restrict(sts, DOMAIN sts \ {v}), r, type)
                 /\ order' = RemoveFirst(ord, v)
                 /\ gone' = gone \cup {v}
        ELSE /\ states' = ApplyTo(sts, r, type)
             /\ order' = ord
             /\ gone' = gone

\* What a run may publish next: its next event; that it is cancelled in the
\* queue; that setting up or starting the agent failed; or another outcome.
Emits(r) ==
    LET p == pos[r]
    IN {Script[i] : i \in {p + 1} \cap DOMAIN Script}
       \cup (IF p \in {1, 6} THEN {"run.cancelled"} ELSE {})
       \cup (IF p \in 3 .. 6 THEN {"run.failed"} ELSE {})

\* Its history goes on.
Advance(r, type) ==
    /\ truth' = [truth EXCEPT ![r] = Apply(@, [type |-> type, run |-> r])]
    /\ pos' = [pos EXCEPT ![r] = IF type = Script[@ + 1] THEN @ + 1 ELSE Len(Script)]

\* The handler Attach subscribes.
Publish(r, type) ==
    /\ type \in Emits(r)
    /\ CacheApply(r, type)
    /\ Advance(r, type)

\* Mutant: the id stays in the insertion order.
Forget_KeepsOrder(r) ==
    /\ r \in DOMAIN states
    /\ states' = Restrict(states, DOMAIN states \ {r})
    /\ gone' = gone \cup {r}
    /\ UNCHANGED <<order, pos, truth>>

Forget(r) ==
    /\ r \in DOMAIN states
    /\ states' = Restrict(states, DOMAIN states \ {r})
    /\ order' = RemoveFirst(order, r)
    /\ gone' = gone \cup {r}
    /\ UNCHANGED <<pos, truth>>

\* All runs are over.
Quiet == (\A r \in RunIDs : pos[r] = Len(Script)) /\ UNCHANGED vars

Next == \/ \E r \in RunIDs : (\E type \in Emits(r) : Publish(r, type)) \/ Forget(r)
        \/ Quiet

Spec == Init /\ [][Next]_vars

-----------------------------------------------------------------------------
(* Properties *)

\* The eviction queue lists exactly the cached runs, each once: an id left
\* behind in it would make a later eviction remove a live run, or nothing.  And
\* it is "bounded enough that runaway clients cannot OOM us".
OrderListsStates ==
    IsInjective(order) /\ Range(order) = DOMAIN states /\ Len(order) <= Capacity

\* An event drops a run in flight only when no cached run has ended, and then
\* the oldest.
EvictionSparesLive ==
    [][\A r \in DOMAIN states \ DOMAIN states' :
          \/ IsTerminal(states[r].phase)
          \/ pos' = pos
          \/ r = Head(order) /\ \A q \in DOMAIN states : ~IsTerminal(states[q].phase)]_vars

\* The snapshot of a run that never left the cache is what its whole event
\* history implies.  (A run that did leave comes back, with its next event, as
\* if it had just been submitted.)
SnapshotIsExact == \A r \in DOMAIN states \ gone : states[r] = truth[r]

\* The cache tells the truth about what it holds, and holds what it can evict.
CacheExact == SnapshotIsExact /\ OrderListsStates
=============================================================================
