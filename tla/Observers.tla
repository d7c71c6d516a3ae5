----------------------------- MODULE Observers -----------------------------
(***************************************************************************)
(* The two subscribers of serve's event bus, attached to it alone or       *)
(* together.  Publish calls them one after the other on the publisher's    *)
(* goroutine: a run's next event waits until they have returned, other     *)
(* runs' events do not.                                                    *)
(***************************************************************************)
EXTENDS StateCache, Metrics

CONSTANT Attachments    \* the sets of subscribers to consider

ASSUME AttachmentsAssumption == Attachments \subseteq SUBSET {"cache", "metrics"}

VARIABLE attached

ovars == <<vars, metricVars, attached>>

ObserversInit == Init /\ MetricsInit /\ attached \in Attachments

\* A run publishes an event: the cache applies it and the subscriber begins.
Deliver(r, type) ==
    /\ observing[r].at = "idle"
    /\ type \in Emits(r)
    /\ IF "cache" \in attached THEN Publish(r, type)
       ELSE Advance(r, type) /\ UNCHANGED <<states, order, gone>>
    /\ IF "metrics" \in attached
       THEN \E ts \in (IF type = "run.submitted" THEN StartStamps
                       ELSE IF IsTerminalEvent(type) THEN EndStamps ELSE {0}) :
               BeginObserve(r, type, ts)
       ELSE UNCHANGED metricVars

AllQuiet == (\A r \in RunIDs : pos[r] = Len(Script) /\ observing[r].at = "idle")
            /\ UNCHANGED <<vars, metricVars>>

ObserversNext ==
    /\ \/ \E r \in RunIDs :
             \/ \E type \in Emits(r) : Deliver(r, type)
             \/ Forget(r) /\ UNCHANGED metricVars
             \/ ObserveStep(r) /\ UNCHANGED vars
       \/ "metrics" \in attached /\ Scrape /\ UNCHANGED vars
       \/ AllQuiet
    /\ UNCHANGED attached

ObserversSpec == ObserversInit /\ [][ObserversNext]_ovars

-----------------------------------------------------------------------------
(* Properties *)

\* It was submitted and its end has not reached the tracker.
UnderWay(r) == pos[r] \in 3..6 \/ observing[r].at \in {"result", "take"}

\* "a defensive size cap (capacity) drops the oldest entry when exceeded": the
\* start of a run is dropped, and its duration lost, only while more runs are
\* under way than the tracker holds, whatever ended before.
DropsOnlyWhenCrowded ==
    [][crowded' # crowded =>
          Cardinality({r \in RunIDs : UnderWay(r)}) > StartCapacity]_ovars
=============================================================================
