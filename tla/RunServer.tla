----------------------------- MODULE RunServer -----------------------------
(***************************************************************************)
(* internal/server: how POST and DELETE /v1/runs, the scheduler and the    *)
(* serve lifecycle share the staged requests.                              *)
(*                                                                         *)
(* handleCreateRun stages a request in s.pending, submits the run id, and  *)
(* un-stages it when the submission is refused; launchFunc, on a pool      *)
(* goroutine, takes the request out and calls the Launcher; handleCancelRun*)
(* takes it out after a successful Cancel; stopScheduler throws the rest   *)
(* away and clears s.sched.  Without SchedulerConfig a request is launched *)
(* at once on a goroutine that s.inFlight counts.                          *)
(*                                                                         *)
(* NewRunID never repeats an id, so there is one create request per id and *)
(* a handler is named by it.  The fields s.sched and s.pending are shared; *)
(* s.sched is read without a lock.                                         *)
(***************************************************************************)
EXTENDS Scheduler

CONSTANT Configs        \* the values of SchedulerConfig # nil to consider

ASSUME ConfigsAssumption == Configs \subseteq BOOLEAN

VARIABLES
    creating,   \* where each run's handleCreateRun stands
    deleting,   \* runs whose DELETE handler still has to un-stage
    pending,    \* keys of s.pending
    schedSet,   \* s.sched # nil
    inFlight,   \* runs launched by launchAsync that have not returned
    serving,    \* where serve stands
    handlers,   \* which HTTP handlers can run: "open", "lingering", "closed"
    launched,   \* runs handed to the Launcher
    missed      \* runs whose launchFunc found no staged request

handlerVars == <<creating, deleting>>
serverVars  == <<creating, deleting, pending, schedSet, inFlight, serving,
                 handlers, launched, missed>>

CreateStates == {"idle", "staging", "staged", "refused", "async",
                 "accepted", "rejected", "panicked"}

ServeStates == {"listening", "shutdown", "drain", "stopping", "purge", "unset",
                "wait", "cancelled", "returned"}

\* The shapes of the Go fields; a launch is recorded once.
ServerTypeOK ==
    /\ creating \in [RunIDs -> CreateStates]
    /\ deleting \subseteq RunIDs
    /\ pending \subseteq RunIDs
    /\ schedSet \in BOOLEAN
    /\ inFlight \subseteq launched
    /\ serving \in ServeStates
    /\ handlers \in {"open", "lingering", "closed"}
    /\ launched \subseteq RunIDs
    /\ missed \subseteq RunIDs

\* serve has run startScheduler and srv.Serve is accepting.  Without a scheduler
\* nothing is ever submitted to the pool, which sleeps.
ServerInit ==
    /\ Init
    /\ creating = [r \in RunIDs |-> "idle"]
    /\ deleting = {} /\ pending = {} /\ inFlight = {}
    /\ schedSet \in Configs
    /\ serving = "listening" /\ handlers = "open"
    /\ launched = {} /\ missed = {}

Runs(es) == {e.run : e \in es}

-----------------------------------------------------------------------------
(* handleCreateRun *)

\* The request passed validation: the handler tests s.sched.
BeginCreate(r) ==
    /\ creating[r] = "idle"
    /\ handlers # "closed"
    /\ creating' = [creating EXCEPT ![r] = IF schedSet THEN "staging" ELSE "async"]
    /\ UNCHANGED <<deleting, pending, schedSet, inFlight, serving, handlers, launched, missed>>
    /\ UNCHANGED vars

\* Mutant: the request is staged only after the submission.
PutPending_Late(r) ==
    /\ creating[r] = "staging"
    /\ creating' = [creating EXCEPT ![r] = "staged"]
    /\ UNCHANGED <<deleting, pending, schedSet, inFlight, serving, handlers, launched, missed>>
    /\ UNCHANGED vars

PutPending(r) ==
    /\ creating[r] = "staging"
    /\ pending' = pending \cup {r}
    /\ creating' = [creating EXCEPT ![r] = "staged"]
    /\ UNCHANGED <<deleting, schedSet, inFlight, serving, handlers, launched, missed>>
    /\ UNCHANGED vars

\* s.sched.Submit admits the run: 202.
Admit(r) ==
    /\ creating[r] = "staged" /\ schedSet
    /\ \E p \in Priorities : Submit(r, p)
    /\ creating' = [creating EXCEPT ![r] = "accepted"]
    /\ UNCHANGED <<deleting, pending, schedSet, inFlight, serving, handlers, launched, missed>>

\* ErrQueueFull or ErrStopped.
Refuse(r) ==
    /\ creating[r] = "staged" /\ schedSet
    /\ stopped \/ QueueFull
    /\ creating' = [creating EXCEPT ![r] = "refused"]
    /\ UNCHANGED <<deleting, pending, schedSet, inFlight, serving, handlers, launched, missed>>
    /\ UNCHANGED vars

\* s.sched was cleared after the test: a method call on a nil interface, which
\* net/http recovers.
NilScheduler(r) ==
    /\ creating[r] = "staged" /\ ~schedSet
    /\ creating' = [creating EXCEPT ![r] = "panicked"]
    /\ UNCHANGED <<deleting, pending, schedSet, inFlight, serving, handlers, launched, missed>>
    /\ UNCHANGED vars

\* takePending of a refused request, then 429 or 503.
Unstage(r) ==
    /\ creating[r] = "refused"
    /\ pending' = pending \ {r}
    /\ creating' = [creating EXCEPT ![r] = "rejected"]
    /\ UNCHANGED <<deleting, schedSet, inFlight, serving, handlers, launched, missed>>
    /\ UNCHANGED vars

\* launchAsync: inFlight.Add, and a goroutine that calls the Launcher.
LaunchAsync(r) ==
    /\ creating[r] = "async"
    /\ inFlight' = inFlight \cup {r}
    /\ launched' = launched \cup {r}
    /\ creating' = [creating EXCEPT ![r] = "accepted"]
    /\ UNCHANGED <<deleting, pending, schedSet, serving, handlers, missed>>
    /\ UNCHANGED vars

\* Mutant: a launch that fails skips inFlight.Done.
AsyncReturns_NoDone(r) ==
    /\ r \in inFlight
    /\ UNCHANGED <<serverVars, vars>>

\* The Launcher returned, with or without an error: inFlight.Done.
AsyncReturns(r) ==
    /\ r \in inFlight
    /\ inFlight' = inFlight \ {r}
    /\ UNCHANGED <<creating, deleting, pending, schedSet, serving, handlers, launched, missed>>
    /\ UNCHANGED vars

Create(r) ==
    \/ PutPending(r) \/ Admit(r) \/ Refuse(r) \/ NilScheduler(r)
    \/ Unstage(r) \/ LaunchAsync(r)

-----------------------------------------------------------------------------
(* handleCancelRun *)

\* The scheduler dropped the queued run: 204.  A 409 changes nothing.
CancelRun(r) ==
    /\ handlers # "closed" /\ schedSet
    /\ Cancel(r)
    /\ deleting' = deleting \cup {r}
    /\ UNCHANGED <<creating, pending, schedSet, inFlight, serving, handlers, launched, missed>>

CancelUnstage(r) ==
    /\ r \in deleting
    /\ pending' = pending \ {r}
    /\ deleting' = deleting \ {r}
    /\ UNCHANGED <<creating, schedSet, inFlight, serving, handlers, launched, missed>>
    /\ UNCHANGED vars

-----------------------------------------------------------------------------
(* The pool *)

\* runOne calls launchFunc: takePending, and the Launcher if there was one.
LaunchFunc(w) ==
    LET r == held[w].run
    IN  /\ Launch(w)
        /\ pending' = pending \ {r}
        /\ IF r \in pending
           THEN launched' = launched \cup {r} /\ missed' = missed
           ELSE missed' = missed \cup {r} /\ launched' = launched
        /\ UNCHANGED <<creating, deleting, schedSet, inFlight, serving, handlers>>

\* The steps of the pool that do not concern the server.
PoolStep(w) ==
    /\ Park(w) \/ Exit(w) \/ Pop(w) \/ EmitDequeued(w) \/ LaunchReturns(w) \/ Finish(w)
    /\ UNCHANGED serverVars

BusStep == Emit /\ UNCHANGED serverVars

-----------------------------------------------------------------------------
(* serve *)

\* A handler has begun and not responded.
InHandler == deleting # {} \/ \E r \in RunIDs :
                 creating[r] \in {"staging", "staged", "refused", "async"}

\* The serve context is done; Shutdown closes the listener.
ServeCtxDone ==
    /\ serving = "listening"
    /\ serving' = "shutdown"
    /\ UNCHANGED <<handlerVars, pending, schedSet, inFlight, handlers, launched, missed>>
    /\ UNCHANGED vars

\* srv.Shutdown waited for every handler, or gave up after ShutdownTimeout with
\* one still running (perhaps one that has not finished reading its body).
ShutdownReturns ==
    /\ serving = "shutdown"
    /\ \/ ~InHandler /\ handlers' = "closed"
       \/ handlers' = "lingering"
    /\ serving' = "drain"
    /\ UNCHANGED <<handlerVars, pending, schedSet, inFlight, launched, missed>>
    /\ UNCHANGED vars

\* srv.Serve fails: nobody calls Shutdown, open connections are still served.
ServeFails ==
    /\ serving = "listening"
    /\ handlers' = "lingering"
    /\ serving' = "drain"
    /\ UNCHANGED <<handlerVars, pending, schedSet, inFlight, launched, missed>>
    /\ UNCHANGED vars

\* awaitDrain: Stop the scheduler ...
BeginStop ==
    /\ serving = "drain" /\ schedSet
    /\ Stop
    /\ serving' = "stopping"
    /\ UNCHANGED <<handlerVars, pending, schedSet, inFlight, handlers, launched, missed>>

StoppingEmits == StopEmit /\ UNCHANGED serverVars

\* ... until the pool is done or LaunchDrainTimeout passes.
StopEnds ==
    /\ serving = "stopping"
    /\ StopReturns \/ StopTimesOut
    /\ serving' = "purge"
    /\ UNCHANGED <<handlerVars, pending, schedSet, inFlight, handlers, launched, missed>>

PurgePending ==
    /\ serving = "purge"
    /\ pending' = {}
    /\ serving' = "unset"
    /\ UNCHANGED <<handlerVars, schedSet, inFlight, handlers, launched, missed>>
    /\ UNCHANGED vars

\* s.sched = nil; the launch context is cancelled if the drain timed out.
ClearScheduler ==
    /\ serving = "unset"
    /\ schedSet' = FALSE
    /\ serving' = "returned"
    /\ UNCHANGED <<handlerVars, pending, inFlight, handlers, launched, missed>>
    /\ UNCHANGED vars

\* No scheduler: wait for s.inFlight.
BeginWait ==
    /\ serving = "drain" /\ ~schedSet
    /\ serving' = "wait"
    /\ UNCHANGED <<handlerVars, pending, schedSet, inFlight, handlers, launched, missed>>
    /\ UNCHANGED vars

\* LaunchDrainTimeout: cancel the launch context and go on waiting.
WaitTimesOut ==
    /\ serving = "wait"
    /\ serving' = "cancelled"
    /\ UNCHANGED <<handlerVars, pending, schedSet, inFlight, handlers, launched, missed>>
    /\ UNCHANGED vars

\* s.inFlight.Wait() returns.
InFlightDone == inFlight = {}

WaitEnds ==
    /\ serving \in {"wait", "cancelled"}
    /\ InFlightDone
    /\ serving' = "returned"
    /\ UNCHANGED <<handlerVars, pending, schedSet, inFlight, handlers, launched, missed>>
    /\ UNCHANGED vars

Lifecycle ==
    \/ ShutdownReturns \/ BeginStop \/ StoppingEmits \/ StopEnds
    \/ PurgePending \/ ClearScheduler \/ BeginWait \/ WaitEnds

-----------------------------------------------------------------------------

\* Nothing is left to do.
ServerQuiet ==
    /\ serving = "returned" /\ ~InHandler /\ inFlight = {}
    /\ Busy = {} /\ outbox = {}
    /\ UNCHANGED <<vars, serverVars>>

ServerNext ==
    \/ \E r \in RunIDs : BeginCreate(r) \/ Create(r) \/ AsyncReturns(r)
                         \/ CancelRun(r) \/ CancelUnstage(r)
    \/ \E w \in Workers : PoolStep(w) \/ LaunchFunc(w)
    \/ BusStep
    \/ ServeCtxDone \/ ServeFails \/ WaitTimesOut \/ Lifecycle
    \/ ServerQuiet

\* Handlers, pool goroutines and serve run when they can, and launches return;
\* requests and the end of the serve context need not come.
ServerFairness ==
    /\ \A r \in RunIDs : /\ WF_<<vars, serverVars>>(Create(r))
                         /\ WF_<<vars, serverVars>>(CancelUnstage(r))
                         /\ WF_<<vars, serverVars>>(AsyncReturns(r))
    /\ \A w \in Workers : WF_<<vars, serverVars>>(PoolStep(w) \/ LaunchFunc(w))
    /\ WF_<<vars, serverVars>>(Lifecycle)

ServerSpec == ServerInit /\ [][ServerNext]_<<vars, serverVars>> /\ ServerFairness

-----------------------------------------------------------------------------
(* Properties *)

\* Entries some worker has popped and not launched yet.
Popped == {held[w] : w \in {v \in Workers : wpc[v] \in {"dequeued", "launching"}}}

\* launchFunc finds the request of every run the pool gets to: the handler
\* stages before it submits, and nobody takes it back while the run is queued
\* or popped.  The one exception is a purge after a drain that timed out.
RequestsStaged ==
    stopper # "timedout" => missed = {} /\ Runs(queue \cup Popped) \subseteq pending

\* Every staged request has somebody who will still take it out: its handler,
\* the pool, a DELETE handler, or the purge.  (Handlers that outlive a failed
\* shutdown are the subject of a run of their own.)
PendingIsClaimed ==
    handlers # "lingering" =>
        \A r \in pending :
            \/ creating[r] \in {"staged", "refused"}
            \/ r \in deleting \cup Runs(queue \cup Popped)
            \/ serving \in {"stopping", "purge"} /\ r \in Runs(cancelled)

\* No run is both launched and cancelled, and none is launched that was not
\* accepted: in particular not one that got a 429 or a 503.
LaunchedWasAccepted ==
    /\ launched \cap Runs(cancelled) = {}
    /\ \A r \in launched : creating[r] = "accepted"

\* After an orderly shutdown that drained in time serve leaves nothing behind:
\* no staged request, no launch still going on, no accepted run that was
\* neither launched nor cancelled.
ReturnsClean ==
    serving = "returned" /\ handlers = "closed" /\ stopper # "timedout" =>
        /\ pending = {} /\ inFlight = {} /\ Busy = {}
        /\ \A r \in RunIDs : creating[r] = "accepted" =>
              r \in launched \cup Runs(cancelled)

\* The staged requests and the runs that need one belong together, to the end.
StagedRequests == ServerTypeOK /\ RequestsStaged /\ PendingIsClaimed /\ ReturnsClean

\* Every run that got its 202 is launched or cancelled, or lost its request to
\* the purge of a timed-out drain.
AcceptedIsServed ==
    \A r \in RunIDs : creating[r] = "accepted" ~>
        r \in launched \cup Runs(cancelled) \cup missed

\* A serve whose context ends returns.
ServeReturns == serving = "shutdown" ~> serving = "returned"
=============================================================================
