-------------------------- MODULE RunServerProofs --------------------------
(***************************************************************************)
(* Proofs about the scheduler and about the server around it.              *)
(*                                                                         *)
(* The scheduler's safety properties hold for every pool size, queue       *)
(* capacity, set of run ids and priorities, and number of submissions.     *)
(*                                                                         *)
(* The server around the scheduler keeps its staged requests and the runs  *)
(* that need them together, for every number of clients, workers and runs. *)
(* Every step of it is one of the scheduler's or leaves the scheduler      *)
(* alone, so what is proved of the scheduler holds here, and carries the   *)
(* server's own invariant.                                                 *)
(***************************************************************************)
EXTENDS RunServer, FiniteSetTheorems, TLAPS

-----------------------------------------------------------------------------
(* The scheduler *)

\* The initial state of New and Start satisfies the invariant without counts.
LEMMA InitCore ==
  ASSUME Init
  PROVE  Core
<1>1. TypeOK
  <2>1. stopped \in BOOLEAN
    BY Zenon DEF Init
  <2>2. /\ wpc \in [Workers -> WorkerStates]
        /\ held \in [Workers -> Entries \cup {NoEntry}]
        /\ launches \in [1 .. MaxSubmits -> Nat]
        /\ seq \in 0 .. MaxSubmits
    BY SchedulerAssumption DEF Init, WorkerStates
  <2>3. /\ stopper \in {"idle", "emitting", "returned", "timedout"}
        /\ queue = {} /\ runs = {} /\ running = {} /\ cancelled = {}
        /\ outbox = {} /\ purged = {} /\ published = {}
    BY DEF Init
  <2> QED
    BY <2>1, <2>2, <2>3 DEF TypeOK
<1>2. Busy = {}
  BY DEF Init, Busy
<1>3. Numbered /\ StatusInvariant /\ MapKeyedByRun /\ CancelledGone
  BY DEF Init, Numbered, StatusInvariant, MapKeyedByRun, CancelledGone
<1>4. Holding
  BY <1>2 DEF Init, Holding
<1>5. LaunchCount
  BY DEF Init, LaunchCount
<1>6. Stopping
  BY DEF Init, Stopping
<1> QED
  BY <1>1, <1>3, <1>4, <1>5, <1>6 DEF Core

\* Submit keeps it: the admitted entry has a fresh number and a fresh run id.
LEMMA SubmitCore ==
  ASSUME Core, NEW r \in RunIDs, NEW p \in Priorities, Submit(r, p)
  PROVE  Core'
<1> DEFINE e == [run |-> r, prio |-> p, seq |-> seq + 1]
<1> USE SchedulerAssumption
<1>1. /\ TypeOK /\ Numbered /\ StatusInvariant /\ MapKeyedByRun /\ Holding
      /\ CancelledGone /\ LaunchCount /\ Stopping
  BY DEF Core
<1>2. e \in Entries /\ e.seq = seq + 1 /\ e.run = r
  BY <1>1 DEF Submit, TypeOK, Entries
<1>3. /\ queue' = queue \cup {e} /\ runs' = runs \cup {e} /\ seq' = seq + 1
      /\ outbox' = outbox \cup {<<e, "run.scheduled">>}
      /\ UNCHANGED <<running, stopped, held, stopper, purged, published,
                     launches, cancelled>>
  BY DEF Submit
<1>4. wpc' \in [Workers -> WorkerStates] /\ Busy' = Busy
      /\ \A w \in Workers : wpc[w] \in {"dequeued", "launching"}
                            <=> wpc'[w] \in {"dequeued", "launching"}
  <2>1. CASE wpc' = wpc
    BY <2>1, <1>1 DEF TypeOK, Busy
  <2>2. ASSUME NEW w \in Waiting, wpc' = [wpc EXCEPT ![w] = "ready"]
        PROVE  /\ wpc' \in [Workers -> WorkerStates]
               /\ Busy' = Busy
               /\ \A v \in Workers : wpc[v] \in {"dequeued", "launching"}
                                     <=> wpc'[v] \in {"dequeued", "launching"}
    BY <2>2, <1>1 DEF TypeOK, Busy, Waiting, WorkerStates
  <2> QED
    BY <2>1, <2>2 DEF Submit, Signal
<1>5. \A f \in queue \cup running \cup cancelled : f.seq # e.seq /\ f.seq \in Nat
  BY <1>1, <1>2 DEF Numbered, TypeOK, Entries
<1>6. e \notin running /\ e \notin cancelled /\ e \notin queue
  BY <1>5
<1>7. ~stopped /\ \A f \in runs : f.run # r
  BY DEF Submit, Duplicate
<1>8. TypeOK'
  BY <1>1, <1>2, <1>3, <1>4 DEF TypeOK, EmitTypes, Submit
<1>9. Numbered'
  BY <1>1, <1>2, <1>3, <1>5 DEF Numbered, TypeOK, Entries
<1>10. StatusInvariant'
  BY <1>1, <1>3, <1>6 DEF StatusInvariant
<1>11. MapKeyedByRun'
  BY <1>1, <1>2, <1>3, <1>7 DEF MapKeyedByRun
<1>12. Holding'
  BY <1>1, <1>3, <1>4, <1>6 DEF Holding
<1>13. CancelledGone'
  BY <1>1, <1>3, <1>6 DEF CancelledGone
<1>14. LaunchCount'
  <2>1. launches[e.seq] = 0
    BY <1>1, <1>2 DEF Numbered, Submit, TypeOK, Entries
  <2> QED
    BY <1>1, <1>3, <1>4, <2>1 DEF LaunchCount
<1>15. Stopping'
  BY <1>1, <1>3, <1>7 DEF Stopping
<1> QED
  BY <1>8, <1>9, <1>10, <1>11, <1>12, <1>13, <1>14, <1>15 DEF Core

\* Cancel keeps it: the entry it takes out was queued, not running.
LEMMA CancelCore ==
  ASSUME Core, NEW r \in RunIDs, Cancel(r)
  PROVE  Core'
<1> USE SchedulerAssumption
<1>1. /\ TypeOK /\ Numbered /\ StatusInvariant /\ MapKeyedByRun /\ Holding
      /\ CancelledGone /\ LaunchCount /\ Stopping
  BY DEF Core
<1>2. PICK e \in runs :
        /\ e.run = r
        /\ e \notin running
        /\ queue' = {f \in queue : f.run # r}
        /\ runs' = {f \in runs : f.run # r}
        /\ outbox' = outbox \cup {<<e, "run.cancelled">>}
        /\ cancelled' = cancelled \cup {e}
        /\ UNCHANGED <<running, seq, stopped, wpc, held, stopper, purged,
                       published, launches>>
  BY DEF Cancel, Cancellable
<1>3. e \in Entries /\ e \in queue
  BY <1>1, <1>2 DEF TypeOK, StatusInvariant
<1>4. queue' = queue \ {e} /\ runs' = runs \ {e}
  <2>1. \A f \in runs : f.run = r <=> f = e
    BY <1>1, <1>2 DEF MapKeyedByRun
  <2>2. \A f \in queue : f \in runs
    BY <1>1 DEF StatusInvariant, TypeOK
  <2> QED
    BY <1>2, <2>1, <2>2
<1>5. Busy' = Busy
  BY <1>2 DEF Busy
<1>6. TypeOK'
  BY <1>1, <1>2, <1>3, <1>4 DEF TypeOK, EmitTypes
<1>7. Numbered'
  BY <1>1, <1>2, <1>3, <1>4 DEF Numbered
<1>8. StatusInvariant'
  BY <1>1, <1>2, <1>4 DEF StatusInvariant
<1>9. MapKeyedByRun'
  BY <1>1, <1>4 DEF MapKeyedByRun
<1>10. Holding'
  BY <1>1, <1>2, <1>4, <1>5 DEF Holding
<1>11. CancelledGone'
  BY <1>1, <1>2, <1>4 DEF CancelledGone
<1>12. LaunchCount'
  BY <1>1, <1>2, <1>3, <1>4 DEF LaunchCount
<1>13. Stopping'
  BY <1>1, <1>2, <1>4 DEF Stopping, PoolDone
<1> QED
  BY <1>6, <1>7, <1>8, <1>9, <1>10, <1>11, <1>12, <1>13 DEF Core

\* Emissions and stuttering touch nothing the invariant speaks of except types.
LEMMA QuietCore ==
  ASSUME Core,
         UNCHANGED <<lockVars, wpc, held, stopper, launches, cancelled>>,
         purged' \subseteq Entries,
         outbox' \subseteq Entries \X EmitTypes,
         published' \subseteq Entries \X EmitTypes
  PROVE  Core'
<1> USE SchedulerAssumption
<1>1. /\ TypeOK /\ Numbered /\ StatusInvariant /\ MapKeyedByRun /\ Holding
      /\ CancelledGone /\ LaunchCount /\ Stopping
  BY DEF Core
<1>2. /\ UNCHANGED <<queue, runs, running, seq, stopped>>
      /\ UNCHANGED <<wpc, held, stopper, launches, cancelled>>
  BY DEF lockVars
<1>3. TypeOK'
  BY <1>1, <1>2 DEF TypeOK
<1>4. Numbered' /\ StatusInvariant' /\ MapKeyedByRun' /\ CancelledGone'
  BY <1>1, <1>2 DEF Numbered, StatusInvariant, MapKeyedByRun, CancelledGone
<1>5. Busy' = Busy
  BY <1>2 DEF Busy
<1>6. Holding' /\ LaunchCount'
  BY <1>1, <1>2, <1>5 DEF Holding, LaunchCount
<1>7. Stopping'
  BY <1>1, <1>2 DEF Stopping, PoolDone
<1> QED
  BY <1>3, <1>4, <1>6, <1>7 DEF Core

\* A worker that only moves between states of the same kind, idle or busy, and
\* that had launched its entry unless it is about to, keeps the invariant.
LEMMA MoveCore ==
  ASSUME Core, NEW w \in Workers, NEW s \in WorkerStates,
         wpc' = [wpc EXCEPT ![w] = s],
         wpc[w] # "exited",
         w \in Busy <=> s \in {"dequeued", "launching", "running", "finishing"},
         s \in {"dequeued", "launching"} => wpc[w] \in {"dequeued", "launching"},
         UNCHANGED <<lockVars, held, outbox, stopper, purged, launches, cancelled>>,
         published' \subseteq Entries \X EmitTypes
  PROVE  Core'
<1> USE SchedulerAssumption
<1>1. /\ TypeOK /\ Numbered /\ StatusInvariant /\ MapKeyedByRun /\ Holding
      /\ CancelledGone /\ LaunchCount /\ Stopping
  BY DEF Core
<1>2. /\ UNCHANGED <<queue, runs, running, seq, stopped>>
      /\ UNCHANGED <<held, outbox, stopper, purged, launches, cancelled>>
  BY DEF lockVars
<1>3. \A v \in Workers : wpc'[v] = IF v = w THEN s ELSE wpc[v]
  BY <1>1 DEF TypeOK
<1>4. Busy' = Busy
  BY <1>3 DEF Busy
<1>5. wpc' \in [Workers -> WorkerStates]
  BY <1>1 DEF TypeOK
<1>6. TypeOK'
  BY <1>1, <1>2, <1>5 DEF TypeOK
<1>7. Numbered' /\ StatusInvariant' /\ MapKeyedByRun' /\ CancelledGone'
  BY <1>1, <1>2 DEF Numbered, StatusInvariant, MapKeyedByRun, CancelledGone
<1>8. Holding'
  BY <1>1, <1>2, <1>4 DEF Holding
<1>9. LaunchCount'
  BY <1>1, <1>2, <1>3 DEF LaunchCount
<1>10. Stopping'
  BY <1>1, <1>2 DEF Stopping, PoolDone
<1> QED
  BY <1>6, <1>7, <1>8, <1>9, <1>10 DEF Core

\* Pop keeps it: the popped entry passes from the queue to exactly one worker.
LEMMA PopCore ==
  ASSUME Core, NEW w \in Workers, Pop(w)
  PROVE  Core'
<1> USE SchedulerAssumption
<1>1. /\ TypeOK /\ Numbered /\ StatusInvariant /\ MapKeyedByRun /\ Holding
      /\ CancelledGone /\ LaunchCount /\ Stopping
  BY DEF Core
<1>2. PICK e \in queue :
        /\ wpc[w] = "ready"
        /\ queue' = queue \ {e}
        /\ running' = running \cup {e}
        /\ held' = [held EXCEPT ![w] = e]
        /\ wpc' = [wpc EXCEPT ![w] = "dequeued"]
        /\ UNCHANGED <<runs, seq, stopped, outbox, stopper, purged, published,
                       launches, cancelled>>
  BY DEF Pop, MarkRunning
<1>3. e \in Entries /\ e \in runs /\ e \notin running /\ e \notin cancelled
  BY <1>1 DEF TypeOK, StatusInvariant, CancelledGone
<1>4. /\ wpc'[w] = "dequeued" /\ held'[w] = e
      /\ \A v \in Workers : v # w => wpc'[v] = wpc[v] /\ held'[v] = held[v]
  <2>1. held'[w] = e /\ \A v \in Workers : v # w => held'[v] = held[v]
    BY <1>1, <1>2, <1>3 DEF TypeOK
  <2>2. wpc'[w] = "dequeued" /\ \A v \in Workers : v # w => wpc'[v] = wpc[v]
    BY <1>1, <1>2 DEF TypeOK
  <2> QED
    BY <2>1, <2>2
<1>5. w \notin Busy /\ Busy' = Busy \cup {w}
  BY <1>2, <1>4 DEF Busy
<1>6. TypeOK'
  <2>1. /\ wpc' \in [Workers -> WorkerStates]
        /\ held' \in [Workers -> Entries \cup {NoEntry}]
    BY <1>1, <1>2, <1>3 DEF TypeOK, WorkerStates
  <2> QED
    BY <1>1, <1>2, <1>3, <2>1 DEF TypeOK
<1>7. Numbered'
  BY <1>1, <1>2 DEF Numbered
<1>8. StatusInvariant'
  BY <1>1, <1>2 DEF StatusInvariant
<1>9. MapKeyedByRun'
  BY <1>1, <1>2 DEF MapKeyedByRun
<1>10. Holding'
  <2>1. \A v \in Busy : v \in Workers /\ v # w /\ held[v] \in running /\ held[v] # e
    BY <1>1, <1>3, <1>5 DEF Holding, Busy
  <2>2. \A v \in Busy' : held'[v] \in runs' /\ held'[v] \in running'
    BY <1>1, <1>2, <1>3, <1>4, <1>5, <2>1 DEF Holding
  <2>3. \A u \in Busy', v \in Busy' : held'[u] = held'[v] => u = v
    BY <1>1, <1>4, <1>5, <2>1 DEF Holding
  <2>4. \A f \in runs' \cap running' : \E v \in Busy' : held'[v] = f
    BY <1>1, <1>2, <1>4, <1>5, <2>1 DEF Holding
  <2> QED
    BY <2>2, <2>3, <2>4 DEF Holding
<1>11. CancelledGone'
  BY <1>1, <1>2, <1>3 DEF CancelledGone
<1>12. LaunchCount'
  BY <1>1, <1>2, <1>4 DEF LaunchCount
<1>13. Stopping'
  BY <1>1, <1>2 DEF Stopping, PoolDone
<1> QED
  BY <1>6, <1>7, <1>8, <1>9, <1>10, <1>11, <1>12, <1>13 DEF Core

\* Launch keeps it: the entry had not been launched, and nobody else holds it.
LEMMA LaunchCore ==
  ASSUME Core, NEW w \in Workers, Launch(w)
  PROVE  Core'
<1> USE SchedulerAssumption
<1>1. /\ TypeOK /\ Numbered /\ StatusInvariant /\ MapKeyedByRun /\ Holding
      /\ CancelledGone /\ LaunchCount /\ Stopping
  BY DEF Core
<1>2. /\ wpc[w] = "launching"
      /\ launches' = [launches EXCEPT ![held[w].seq] = @ + 1]
      /\ wpc' = [wpc EXCEPT ![w] = "running"]
      /\ UNCHANGED <<queue, runs, running, seq, stopped>>
      /\ UNCHANGED <<held, outbox, stopper, purged, published, cancelled>>
  BY DEF Launch, lockVars
<1>3. w \in Busy
  BY <1>2 DEF Busy
<1> DEFINE e == held[w]
<1>4. /\ e \in Entries /\ e \in runs /\ e \in running /\ e.seq \in 1 .. MaxSubmits
      /\ launches[e.seq] = 0
  BY <1>1, <1>2, <1>3 DEF TypeOK, Holding, LaunchCount, Entries
<1>5. \A n \in 1 .. MaxSubmits : launches'[n] = IF n = e.seq THEN 1 ELSE launches[n]
  BY <1>1, <1>2, <1>4 DEF TypeOK
<1>6. \A v \in Workers : wpc'[v] = IF v = w THEN "running" ELSE wpc[v]
  BY <1>1, <1>2 DEF TypeOK
<1>7. Busy' = Busy
  BY <1>2, <1>6 DEF Busy
<1>8. TypeOK'
  <2>1. wpc' \in [Workers -> WorkerStates] /\ launches' \in [1 .. MaxSubmits -> Nat]
    BY <1>1, <1>2, <1>4 DEF TypeOK, WorkerStates
  <2> QED
    BY <1>1, <1>2, <2>1 DEF TypeOK
<1>9. Numbered'
  <2>1. e.seq <= seq
    BY <1>1, <1>4 DEF Numbered
  <2>2. \A n \in 1 .. MaxSubmits : n > seq => launches'[n] = 0
    BY <1>1, <1>4, <1>5, <2>1 DEF Numbered, TypeOK
  <2> QED
    BY <1>1, <1>2, <2>2 DEF Numbered
<1>10. StatusInvariant' /\ MapKeyedByRun' /\ CancelledGone'
  BY <1>1, <1>2 DEF StatusInvariant, MapKeyedByRun, CancelledGone
<1>11. Holding'
  BY <1>1, <1>2, <1>7 DEF Holding
<1>12. LaunchCount'
  <2>1. ASSUME NEW f \in queue \cup cancelled
        PROVE  launches'[f.seq] = 0
    <3>1. f.seq # e.seq
      BY <1>1, <1>4 DEF Numbered, StatusInvariant, CancelledGone, TypeOK
    <3>2. f.seq \in 1 .. MaxSubmits
      BY <1>1 DEF TypeOK, Entries
    <3> QED
      BY <1>1, <1>5, <3>1, <3>2 DEF LaunchCount
  <2>2. ASSUME NEW v \in Workers, wpc'[v] \in {"dequeued", "launching"}
        PROVE  launches'[held'[v].seq] = 0
    <3>1. v # w /\ wpc[v] \in {"dequeued", "launching"}
      BY <1>6, <2>2
    <3>2. v \in Busy /\ held[v] \in running /\ held[v] \in Entries /\ held[v] # e
      BY <1>1, <1>3, <3>1 DEF Busy, Holding, TypeOK
    <3>3. held[v].seq # e.seq /\ held[v].seq \in 1 .. MaxSubmits
      BY <1>1, <1>4, <3>2 DEF Numbered, Entries
    <3> QED
      BY <1>1, <1>2, <1>5, <3>1, <3>3 DEF LaunchCount
  <2>3. \A n \in 1 .. MaxSubmits : launches'[n] <= 1
    BY <1>1, <1>5 DEF LaunchCount
  <2> QED
    BY <1>2, <2>1, <2>2, <2>3 DEF LaunchCount
<1>13. Stopping'
  BY <1>1, <1>2 DEF Stopping, PoolDone
<1> QED
  BY <1>8, <1>9, <1>10, <1>11, <1>12, <1>13 DEF Core

\* Finish keeps it: the delete by run id removes the worker's own entry.
LEMMA FinishCore ==
  ASSUME Core, NEW w \in Workers, Finish(w)
  PROVE  Core'
<1> USE SchedulerAssumption
<1>1. /\ TypeOK /\ Numbered /\ StatusInvariant /\ MapKeyedByRun /\ Holding
      /\ CancelledGone /\ LaunchCount /\ Stopping
  BY DEF Core
<1>2. /\ wpc[w] = "finishing"
      /\ runs' = {f \in runs : f.run # held[w].run}
      /\ held' = [held EXCEPT ![w] = NoEntry]
      /\ wpc' = [wpc EXCEPT ![w] = "ready"]
      /\ UNCHANGED <<queue, running, seq, stopped, outbox, stopper, purged,
                     published, launches, cancelled>>
  BY DEF Finish
<1>3. w \in Busy /\ held[w] \in runs /\ held[w] \in running
  BY <1>1, <1>2 DEF Busy, Holding
<1>4. runs' = runs \ {held[w]}
  BY <1>1, <1>2, <1>3 DEF MapKeyedByRun
<1>5. /\ wpc'[w] = "ready" /\ held'[w] = NoEntry
      /\ \A v \in Workers : v # w => wpc'[v] = wpc[v] /\ held'[v] = held[v]
  <2>1. held'[w] = NoEntry /\ \A v \in Workers : v # w => held'[v] = held[v]
    BY <1>1, <1>2 DEF TypeOK
  <2>2. wpc'[w] = "ready" /\ \A v \in Workers : v # w => wpc'[v] = wpc[v]
    BY <1>1, <1>2 DEF TypeOK
  <2> QED
    BY <2>1, <2>2
<1>6. Busy' = Busy \ {w}
  BY <1>2, <1>5 DEF Busy
<1>7. TypeOK'
  <2>1. /\ wpc' \in [Workers -> WorkerStates]
        /\ held' \in [Workers -> Entries \cup {NoEntry}]
    BY <1>1, <1>2 DEF TypeOK, WorkerStates
  <2> QED
    BY <1>1, <1>2, <1>4, <2>1 DEF TypeOK
<1>8. Numbered'
  BY <1>1, <1>2 DEF Numbered
<1>9. StatusInvariant'
  BY <1>1, <1>2, <1>3, <1>4 DEF StatusInvariant
<1>10. MapKeyedByRun' /\ CancelledGone'
  BY <1>1, <1>2, <1>4 DEF MapKeyedByRun, CancelledGone
<1>11. Holding'
  <2>1. \A v \in Busy' : v \in Busy /\ v # w /\ held'[v] = held[v] /\ held[v] # held[w]
    BY <1>1, <1>3, <1>5, <1>6 DEF Holding, Busy
  <2>2. \A f \in runs' \cap running' : \E v \in Busy' : held'[v] = f
    BY <1>1, <1>2, <1>4, <1>5, <1>6 DEF Holding, Busy
  <2> QED
    BY <1>1, <1>2, <1>4, <2>1, <2>2 DEF Holding
<1>12. LaunchCount'
  BY <1>1, <1>2, <1>5 DEF LaunchCount
<1>13. Stopping'
  BY <1>1, <1>2 DEF Stopping, PoolDone
<1> QED
  BY <1>7, <1>8, <1>9, <1>10, <1>11, <1>12, <1>13 DEF Core

\* Stop keeps it: what it purges was queued, so no worker loses its entry.
LEMMA StopCore ==
  ASSUME Core, Stop
  PROVE  Core'
<1> USE SchedulerAssumption
<1>1. /\ TypeOK /\ Numbered /\ StatusInvariant /\ MapKeyedByRun /\ Holding
      /\ CancelledGone /\ LaunchCount /\ Stopping
  BY DEF Core
<1>2. /\ stopped' = TRUE
      /\ queue' = {}
      /\ runs' = {f \in runs : \A e \in queue : f.run # e.run}
      /\ purged' = queue
      /\ cancelled' = cancelled \cup queue
      /\ wpc' = [w \in Workers |-> IF wpc[w] = "waiting" THEN "ready" ELSE wpc[w]]
      /\ stopper' = "emitting"
      /\ UNCHANGED <<running, seq, held, outbox, published, launches>>
  BY DEF Stop, Broadcast
<1>3. queue \subseteq runs /\ queue \cap running = {}
  BY <1>1 DEF StatusInvariant, TypeOK
<1>4. runs' = runs \ queue
  BY <1>1, <1>2, <1>3 DEF MapKeyedByRun
<1>5. \A w \in Workers : wpc'[w] = IF wpc[w] = "waiting" THEN "ready" ELSE wpc[w]
  BY <1>2
<1>6. Busy' = Busy
  BY <1>5 DEF Busy
<1>7. TypeOK'
  <2>1. wpc' \in [Workers -> WorkerStates]
    BY <1>1, <1>2 DEF TypeOK, WorkerStates
  <2>2. stopped' \in BOOLEAN
    BY <1>2, Zenon
  <2>3. stopper' \in {"idle", "emitting", "returned", "timedout"}
    BY <1>2
  <2> QED
    BY <1>1, <1>2, <1>4, <2>1, <2>2, <2>3 DEF TypeOK
<1>8. Numbered'
  BY <1>1, <1>2 DEF Numbered
<1>9. StatusInvariant'
  BY <1>1, <1>2, <1>4 DEF StatusInvariant
<1>10. MapKeyedByRun' /\ CancelledGone'
  BY <1>1, <1>2, <1>3, <1>4 DEF MapKeyedByRun, CancelledGone
<1>11. Holding'
  BY <1>1, <1>2, <1>3, <1>4, <1>6 DEF Holding
<1>12. LaunchCount'
  BY <1>1, <1>2, <1>5 DEF LaunchCount
<1>13. Stopping'
  BY <1>2 DEF Stopping
<1> QED
  BY <1>7, <1>8, <1>9, <1>10, <1>11, <1>12, <1>13 DEF Core

\* Stop's return, or its deadline, changes only where the Stop call stands.
LEMMA StopEndsCore ==
  ASSUME Core, StopReturns \/ StopTimesOut
  PROVE  Core'
<1> USE SchedulerAssumption
<1>1. /\ TypeOK /\ Numbered /\ StatusInvariant /\ MapKeyedByRun /\ Holding
      /\ CancelledGone /\ LaunchCount /\ Stopping
  BY DEF Core
<1>2. /\ stopper = "emitting"
      /\ stopper' \in {"returned", "timedout"}
      /\ stopper' = "returned" => PoolDone
      /\ UNCHANGED <<queue, runs, running, seq, stopped>>
      /\ UNCHANGED <<wpc, held, outbox, purged, published, launches, cancelled>>
  BY DEF StopReturns, StopTimesOut, lockVars
<1>3. TypeOK'
  BY <1>1, <1>2 DEF TypeOK
<1>4. Numbered' /\ StatusInvariant' /\ MapKeyedByRun' /\ CancelledGone'
  BY <1>1, <1>2 DEF Numbered, StatusInvariant, MapKeyedByRun, CancelledGone
<1>5. Busy' = Busy
  BY <1>2 DEF Busy
<1>6. Holding' /\ LaunchCount'
  BY <1>1, <1>2, <1>5 DEF Holding, LaunchCount
<1>7. Stopping'
  BY <1>1, <1>2 DEF Stopping, PoolDone
<1> QED
  BY <1>3, <1>4, <1>6, <1>7 DEF Core

-----------------------------------------------------------------------------

\* Every worker step keeps the invariant without counts.
LEMMA WorkerCore ==
  ASSUME Core, NEW w \in Workers, WorkerStep(w)
  PROVE  Core'
<1>1. TypeOK /\ Holding
  BY DEF Core
<1>2. CASE Park(w)
  <2>1. /\ wpc' = [wpc EXCEPT ![w] = "waiting"] /\ w \notin Busy
        /\ wpc[w] = "ready" /\ published' \subseteq Entries \X EmitTypes
        /\ UNCHANGED <<lockVars, held, outbox, stopper, purged, launches, cancelled>>
    BY <1>1, <1>2 DEF Park, Busy, TypeOK
  <2> QED
    BY <2>1, MoveCore DEF WorkerStates
<1>3. CASE Exit(w)
  <2>1. /\ wpc' = [wpc EXCEPT ![w] = "exited"] /\ w \notin Busy
        /\ wpc[w] = "ready" /\ published' \subseteq Entries \X EmitTypes
        /\ UNCHANGED <<lockVars, held, outbox, stopper, purged, launches, cancelled>>
    BY <1>1, <1>3 DEF Exit, Busy, TypeOK
  <2> QED
    BY <2>1, MoveCore DEF WorkerStates
<1>4. CASE Pop(w)
  BY <1>4, PopCore
<1>5. CASE EmitDequeued(w)
  <2>1. /\ wpc' = [wpc EXCEPT ![w] = "launching"] /\ w \in Busy
        /\ wpc[w] = "dequeued"
        /\ published' = published \cup {<<held[w], "run.dequeued">>}
        /\ UNCHANGED <<lockVars, held, outbox, stopper, purged, launches, cancelled>>
    BY <1>5 DEF EmitDequeued, Busy
  <2>2. held[w] \in Entries
    BY <1>1, <2>1 DEF Holding, TypeOK
  <2>3. published' \subseteq Entries \X EmitTypes
    BY <1>1, <2>1, <2>2 DEF TypeOK, EmitTypes
  <2> QED
    BY <2>1, <2>3, MoveCore DEF WorkerStates
<1>6. CASE Launch(w)
  BY <1>6, LaunchCore
<1>7. CASE LaunchReturns(w)
  <2>1. /\ wpc' = [wpc EXCEPT ![w] = "finishing"] /\ w \in Busy
        /\ wpc[w] = "running" /\ published' \subseteq Entries \X EmitTypes
        /\ UNCHANGED <<lockVars, held, outbox, stopper, purged, launches, cancelled>>
    BY <1>1, <1>7 DEF LaunchReturns, Busy, TypeOK
  <2> QED
    BY <2>1, MoveCore DEF WorkerStates
<1>8. CASE Finish(w)
  BY <1>8, FinishCore
<1> QED
  BY <1>2, <1>3, <1>4, <1>5, <1>6, <1>7, <1>8 DEF WorkerStep

\* Every step of the scheduler keeps the invariant without counts.
LEMMA NextCore ==
  ASSUME Core, [Next]_vars
  PROVE  Core'
<1>1. TypeOK
  BY DEF Core
<1>2. CASE \E r \in RunIDs, p \in Priorities : Submit(r, p)
  BY <1>2, SubmitCore
<1>3. CASE \E r \in RunIDs : Cancel(r)
  BY <1>3, CancelCore
<1>4. CASE Emit
  <2>1. /\ UNCHANGED <<lockVars, wpc, held, stopper, launches, cancelled>>
        /\ purged' \subseteq Entries
        /\ outbox' \subseteq Entries \X EmitTypes
        /\ published' \subseteq Entries \X EmitTypes
    BY <1>1, <1>4 DEF Emit, TypeOK
  <2> QED
    BY <2>1, QuietCore
<1>5. CASE \E w \in Workers : WorkerStep(w)
  BY <1>5, WorkerCore
<1>6. CASE Stop
  BY <1>6, StopCore
<1>7. CASE StopEmit
  <2>1. /\ UNCHANGED <<lockVars, wpc, held, stopper, launches, cancelled>>
        /\ UNCHANGED outbox
    BY <1>7 DEF StopEmit
  <2>2. PICK e \in purged : /\ purged' = purged \ {e}
                            /\ published' = published \cup {<<e, "run.cancelled">>}
    BY <1>7 DEF StopEmit
  <2>3. /\ purged' \subseteq Entries
        /\ outbox' \subseteq Entries \X EmitTypes
        /\ published' \subseteq Entries \X EmitTypes
    BY <1>1, <2>1, <2>2 DEF TypeOK, EmitTypes
  <2> QED
    BY <2>1, <2>3, QuietCore
<1>8. CASE StopReturns \/ StopTimesOut
  BY <1>8, StopEndsCore
<1>9. CASE Quiet \/ UNCHANGED vars
  <2>1. /\ UNCHANGED <<lockVars, wpc, held, stopper, launches, cancelled>>
        /\ purged' \subseteq Entries
        /\ outbox' \subseteq Entries \X EmitTypes
        /\ published' \subseteq Entries \X EmitTypes
    BY <1>1, <1>9 DEF Quiet, vars, TypeOK
  <2> QED
    BY <2>1, QuietCore
<1> QED
  BY <1>2, <1>3, <1>4, <1>5, <1>6, <1>7, <1>8, <1>9 DEF Next

-----------------------------------------------------------------------------

\* The ready workers are finitely many.
LEMMA ReadyFinite ==
  /\ IsFiniteSet(Ready) /\ Cardinality(Ready) \in Nat
  /\ IsFiniteSet(Ready') /\ Cardinality(Ready') \in Nat
<1>1. Ready \subseteq Workers /\ Ready' \subseteq Workers /\ IsFiniteSet(Workers)
  BY SchedulerAssumption DEF Ready
<1>2. IsFiniteSet(Ready) /\ IsFiniteSet(Ready')
  BY <1>1, FS_Subset
<1> QED
  BY <1>2, FS_CardinalityType

\* Counting: a step that adds no queued entry and no sleeper and takes away no
\* ready worker keeps the queue bounded and the wakeups accounted for.
LEMMA ShrinkCounts ==
  ASSUME Counts, queue' \subseteq queue, Waiting' \subseteq Waiting, Ready \subseteq Ready'
  PROVE  Counts'
<1>1. /\ IsFiniteSet(queue') /\ Cardinality(queue') <= Cardinality(queue)
      /\ Cardinality(queue) \in Nat /\ Cardinality(queue') \in Nat
  <2>1. IsFiniteSet(queue)
    BY DEF Counts
  <2>2. IsFiniteSet(queue') /\ Cardinality(queue') <= Cardinality(queue)
    BY <2>1, FS_Subset
  <2> QED
    BY <2>1, <2>2, FS_CardinalityType
<1>2. /\ Cardinality(Ready) <= Cardinality(Ready')
      /\ Cardinality(Ready) \in Nat /\ Cardinality(Ready') \in Nat
  BY ReadyFinite, FS_Subset
<1>3. QueueBounded'
  BY <1>1, SchedulerAssumption DEF Counts, QueueBounded
<1>4. NoLostWakeup'
  BY <1>1, <1>2 DEF Counts, NoLostWakeup
<1> QED
  BY <1>1, <1>3, <1>4 DEF Counts

\* A step that leaves the queue empty keeps the counts.
LEMMA EmptyCounts ==
  ASSUME queue' = {}
  PROVE  Counts'
<1>1. IsFiniteSet(queue') /\ Cardinality(queue') = 0
  BY FS_EmptySet
<1>2. QueueBounded'
  BY <1>1, SchedulerAssumption DEF QueueBounded
<1>3. NoLostWakeup'
  BY <1>1, ReadyFinite DEF NoLostWakeup
<1> QED
  BY <1>1, <1>2, <1>3 DEF Counts

\* Submit keeps the counts: its Signal wakes a sleeper for the new entry.
LEMMA SubmitCounts ==
  ASSUME Core, Counts, NEW r \in RunIDs, NEW p \in Priorities, Submit(r, p)
  PROVE  Counts'
<1> DEFINE e == [run |-> r, prio |-> p, seq |-> seq + 1]
<1>1. queue' = queue \cup {e} /\ Signal /\ ~(Cardinality(queue) >= QueueCap)
  BY DEF Submit, QueueFull
<1>2. e \notin queue
  <2>1. \A f \in queue : f.seq <= seq /\ seq \in Nat /\ f.seq \in Nat
    BY SchedulerAssumption DEF Core, TypeOK, Numbered, Entries
  <2> QED
    BY <2>1
<1>3. IsFiniteSet(queue) /\ Cardinality(queue) \in Nat
  BY FS_CardinalityType DEF Counts
<1>4. IsFiniteSet(queue') /\ Cardinality(queue') = Cardinality(queue) + 1
  BY <1>1, <1>2, <1>3, FS_AddElement
<1>5. QueueBounded'
  BY <1>1, <1>3, <1>4, SchedulerAssumption DEF QueueBounded
<1>6. NoLostWakeup'
  <2>1. CASE Waiting = {} /\ wpc' = wpc
    BY <2>1 DEF NoLostWakeup, Waiting
  <2>2. ASSUME NEW w \in Waiting, wpc' = [wpc EXCEPT ![w] = "ready"]
        PROVE  NoLostWakeup'
    <3>1. wpc \in [Workers -> WorkerStates] /\ w \in Workers /\ wpc[w] = "waiting"
      BY DEF Core, TypeOK, Waiting
    <3>2. Ready' = Ready \cup {w} /\ w \notin Ready
      BY <2>2, <3>1 DEF Ready
    <3>3. Cardinality(Ready') = Cardinality(Ready) + 1
      BY <3>2, ReadyFinite, FS_AddElement
    <3>4. Cardinality(queue) <= Cardinality(Ready)
      BY <2>2 DEF Counts, NoLostWakeup
    <3> QED
      BY <1>3, <1>4, <3>3, <3>4, ReadyFinite DEF NoLostWakeup
  <2> QED
    BY <1>1, <2>1, <2>2 DEF Signal
<1> QED
  BY <1>4, <1>5, <1>6 DEF Counts

\* Pop keeps the counts: one entry and one ready worker leave together.
LEMMA PopCounts ==
  ASSUME Core, Counts, NEW w \in Workers, Pop(w)
  PROVE  Counts'
<1>1. PICK e \in queue : /\ queue' = queue \ {e} /\ wpc[w] = "ready"
                         /\ wpc' = [wpc EXCEPT ![w] = "dequeued"]
  BY DEF Pop
<1>2. IsFiniteSet(queue) /\ Cardinality(queue) \in Nat
  BY FS_CardinalityType DEF Counts
<1>3. IsFiniteSet(queue') /\ Cardinality(queue') = Cardinality(queue) - 1
  BY <1>1, <1>2, FS_RemoveElement
<1>4. wpc \in [Workers -> WorkerStates]
  BY DEF Core, TypeOK
<1>5. Ready' = Ready \ {w} /\ w \in Ready /\ Waiting' = Waiting
  BY <1>1, <1>4 DEF Ready, Waiting
<1>6. Cardinality(Ready') = Cardinality(Ready) - 1
  BY <1>5, ReadyFinite, FS_RemoveElement
<1>7. QueueBounded'
  BY <1>2, <1>3, SchedulerAssumption DEF Counts, QueueBounded
<1>8. NoLostWakeup'
  BY <1>2, <1>3, <1>5, <1>6, ReadyFinite DEF Counts, NoLostWakeup
<1> QED
  BY <1>3, <1>7, <1>8 DEF Counts

\* Every step of the scheduler keeps the counts.
LEMMA NextCounts ==
  ASSUME Core, Counts, [Next]_vars
  PROVE  Counts'
<1>1. wpc \in [Workers -> WorkerStates]
  BY DEF Core, TypeOK
<1>2. CASE \E r \in RunIDs, p \in Priorities : Submit(r, p)
  BY <1>2, SubmitCounts
<1>3. CASE \E r \in RunIDs : Cancel(r)
  <2>1. queue' \subseteq queue /\ wpc' = wpc
    BY <1>3 DEF Cancel
  <2>2. Waiting' \subseteq Waiting /\ Ready \subseteq Ready'
    BY <2>1 DEF Waiting, Ready
  <2> QED
    BY <2>1, <2>2, ShrinkCounts
<1>4. CASE \E w \in Workers : WorkerStep(w)
  <2>1. PICK w \in Workers : WorkerStep(w)
    BY <1>4
  <2>2. CASE Park(w) \/ Exit(w)
    <3>1. queue' = {}
      BY <2>2 DEF Park, Exit, lockVars
    <3> QED
      BY <3>1, EmptyCounts
  <2>3. CASE Pop(w)
    BY <2>3, PopCounts
  <2>4. CASE EmitDequeued(w) \/ Launch(w) \/ LaunchReturns(w) \/ Finish(w)
    <3>1. /\ queue' = queue
          /\ wpc[w] \in {"dequeued", "launching", "running", "finishing"}
          /\ \E s \in {"launching", "running", "finishing", "ready"} :
                wpc' = [wpc EXCEPT ![w] = s]
      BY <2>4 DEF EmitDequeued, Launch, LaunchReturns, Finish, lockVars
    <3>2. Waiting' \subseteq Waiting /\ Ready \subseteq Ready'
      BY <1>1, <3>1 DEF Waiting, Ready
    <3> QED
      BY <3>1, <3>2, ShrinkCounts
  <2> QED
    BY <2>1, <2>2, <2>3, <2>4 DEF WorkerStep
<1>5. CASE Stop
  <2>1. queue' = {}
    BY <1>5 DEF Stop
  <2> QED
    BY <2>1, EmptyCounts
<1>6. CASE Emit \/ StopEmit \/ StopReturns \/ StopTimesOut \/ Quiet \/ UNCHANGED vars
  <2>1. queue' = queue /\ wpc' = wpc
    BY <1>6 DEF Emit, StopEmit, StopReturns, StopTimesOut, Quiet, vars, lockVars
  <2>2. Waiting' \subseteq Waiting /\ Ready \subseteq Ready' /\ queue' \subseteq queue
    BY <2>1 DEF Waiting, Ready
  <2> QED
    BY <2>2, ShrinkCounts
<1> QED
  BY <1>2, <1>3, <1>4, <1>5, <1>6 DEF Next

-----------------------------------------------------------------------------

LEMMA InvariantInitially ==
  ASSUME Init
  PROVE  SchedulerInvariant
<1>1. IsFiniteSet(queue) /\ Cardinality(queue) = 0 /\ Waiting = {}
  BY FS_EmptySet DEF Init, Waiting
<1>2. Counts
  BY <1>1, SchedulerAssumption DEF Counts, QueueBounded, NoLostWakeup
<1> QED
  BY <1>2, InitCore DEF SchedulerInvariant

\* The inductive invariant holds in every reachable state of the pool, whatever
\* the pool size, the queue capacity, the run ids and the number of Submits.
THEOREM InvariantHolds == Spec => []SchedulerInvariant
<1>1. ASSUME Init PROVE SchedulerInvariant
  BY <1>1, InvariantInitially
<1>2. ASSUME SchedulerInvariant, [Next]_vars PROVE SchedulerInvariant'
  BY <1>2, NextCore, NextCounts DEF SchedulerInvariant
<1> QED
  BY <1>1, <1>2, PTL DEF Spec

\* Types: the variables keep the shapes of the Go fields they model.
THEOREM TypeCorrect == Spec => []TypeOK
<1>1. ASSUME SchedulerInvariant PROVE TypeOK
  BY <1>1 DEF SchedulerInvariant, Core
<1> QED
  BY <1>1, InvariantHolds, PTL

\* Status: the heap and the map never disagree on which runs are queued.
THEOREM StatusConsistent == Spec => []StatusInvariant
<1>1. ASSUME SchedulerInvariant PROVE StatusInvariant
  BY <1>1 DEF SchedulerInvariant, Core
<1> QED
  BY <1>1, InvariantHolds, PTL

\* The delete by run id at the end of a worker's turn removes its own entry.
THEOREM DeleteIsOwn == Spec => []WorkerOwnsEntry
<1>1. ASSUME SchedulerInvariant PROVE WorkerOwnsEntry
  BY <1>1 DEF SchedulerInvariant, Core, MapKeyedByRun, Holding, WorkerOwnsEntry
<1> QED
  BY <1>1, InvariantHolds, PTL

\* Two pool goroutines never work on one run.
THEOREM RunsExclusively == Spec => []OneWorkerPerRun
<1>1. ASSUME SchedulerInvariant PROVE OneWorkerPerRun
  BY <1>1 DEF SchedulerInvariant, Core, MapKeyedByRun, Holding, OneWorkerPerRun
<1> QED
  BY <1>1, InvariantHolds, PTL

\* A cancelled or purged run is never launched, and no run is launched twice.
THEOREM CancelIsFinal == Spec => []CancelledNeverLaunched
<1>1. ASSUME SchedulerInvariant PROVE CancelledNeverLaunched
  <2>1. CancelledGone /\ Holding /\ LaunchCount
    BY <1>1 DEF SchedulerInvariant, Core
  <2>2. \A e \in cancelled : launches[e.seq] = 0 /\ \A w \in Busy : held[w] # e
    BY <2>1 DEF CancelledGone, Holding, LaunchCount
  <2> QED
    BY <2>1, <2>2 DEF LaunchCount, CancelledNeverLaunched
<1> QED
  BY <1>1, InvariantHolds, PTL

\* The queue never exceeds Config.QueueCap.
THEOREM QueueStaysBounded == Spec => []QueueBounded
<1>1. ASSUME SchedulerInvariant PROVE QueueBounded
  BY <1>1 DEF SchedulerInvariant, Counts
<1> QED
  BY <1>1, InvariantHolds, PTL

\* One Signal per Submit is enough: no worker sleeps on work nobody will take.
THEOREM WakeupsSuffice == Spec => []NoLostWakeup
<1>1. ASSUME SchedulerInvariant PROVE NoLostWakeup
  BY <1>1 DEF SchedulerInvariant, Counts
<1> QED
  BY <1>1, InvariantHolds, PTL

\* When Stop returns nil the pool is empty.
THEOREM DrainIsComplete == Spec => []DrainComplete
<1>1. ASSUME SchedulerInvariant PROVE DrainComplete
  <2> SUFFICES ASSUME stopper = "returned"
               PROVE  queue = {} /\ runs = {} /\ Busy = {} /\ Waiting = {}
    BY DEF DrainComplete
  <2>1. TypeOK /\ StatusInvariant /\ Holding /\ Stopping
    BY <1>1 DEF SchedulerInvariant, Core
  <2>2. queue = {} /\ PoolDone
    BY <2>1 DEF Stopping
  <2>3. Busy = {} /\ Waiting = {}
    BY <2>2 DEF PoolDone, Busy, Waiting
  <2>4. runs = {}
    BY <2>1, <2>2, <2>3 DEF StatusInvariant, Holding, TypeOK
  <2> QED
    BY <2>2, <2>3, <2>4
<1> QED
  BY <1>1, InvariantHolds, PTL

\* Priorities and sequence numbers are numbers, so Less compares numbers.
LEMMA EntryFields == \A f \in Entries : f.prio \in Nat /\ f.seq \in Nat
<1>1. Priorities \subseteq Nat /\ 1 .. MaxSubmits \subseteq Nat
  BY SchedulerAssumption
<1>2. \A f \in Entries : f.prio \in Priorities /\ f.seq \in 1 .. MaxSubmits
  BY DEF Entries
<1> QED
  BY <1>1, <1>2

\* What stands before a queued run changes only by departures, unless a step
\* admits a run of higher priority.
LEMMA PositionStep ==
  ASSUME SchedulerInvariant, [Next]_vars, NEW e \in queue, e \in queue',
         \A f \in queue' \ queue : ~(f.prio > e.prio)
  PROVE  ~(PositionOf(e)' > PositionOf(e))
<1>1. Core /\ Core' /\ IsFiniteSet(queue)
  BY NextCore DEF SchedulerInvariant, Counts
<1> DEFINE S == {f \in queue : Less(f, e)}
           T == {f \in queue' : Less(f, e)}
<1>2. /\ e.prio \in Nat /\ e.seq \in Nat /\ e.seq <= seq /\ seq \in Nat
      /\ \A f \in queue' : f.prio \in Nat /\ f.seq \in Nat
  <2>1. /\ queue \subseteq Entries /\ queue' \subseteq Entries
        /\ seq \in 0 .. MaxSubmits /\ e.seq <= seq
    BY <1>1 DEF Core, TypeOK, Numbered
  <2>2. seq \in Nat
    BY <2>1, SchedulerAssumption
  <2> QED
    BY <2>1, <2>2, EntryFields
<1>3. \A f \in queue' \ queue : f.seq = seq + 1
  <2>1. CASE \E r \in RunIDs, p \in Priorities : Submit(r, p)
    BY <2>1 DEF Submit
  <2>2. CASE \E r \in RunIDs : Cancel(r)
    BY <2>2 DEF Cancel
  <2>3. CASE \E w \in Workers : WorkerStep(w)
    BY <2>3 DEF WorkerStep, Park, Exit, Pop, EmitDequeued, Launch, LaunchReturns,
                Finish, lockVars
  <2>4. CASE \/ Emit \/ Stop \/ StopEmit \/ StopReturns \/ StopTimesOut
             \/ Quiet \/ UNCHANGED vars
    BY <2>4 DEF Emit, Stop, StopEmit, StopReturns, StopTimesOut, Quiet, vars, lockVars
  <2> QED
    BY <2>1, <2>2, <2>3, <2>4 DEF Next
<1>4. T \subseteq S
  BY <1>2, <1>3 DEF Less
<1>5. S \subseteq queue
  OBVIOUS
<1>6. IsFiniteSet(S)
  BY <1>1, <1>5, FS_Subset
<1>7. /\ Cardinality(T) <= Cardinality(S)
      /\ Cardinality(T) \in Nat /\ Cardinality(S) \in Nat
  BY <1>4, <1>6, FS_Subset, FS_CardinalityType
<1>8. PositionOf(e) = Cardinality(S) /\ PositionOf(e)' = Cardinality(T)
  BY DEF PositionOf, Less
<1> QED
  BY <1>7, <1>8

\* The position Status reports grows only for a higher-priority admission.
THEOREM PositionIsFair == Spec => PositionOnlyYieldsToPriority
<1>1. ASSUME SchedulerInvariant, [Next]_vars
      PROVE  [\A e \in queue \cap queue' :
                 PositionOf(e)' > PositionOf(e) =>
                     \E f \in queue' \ queue : f.prio > e.prio]_vars
  BY <1>1, PositionStep
<1> QED
  BY <1>1, InvariantHolds, PTL DEF Spec, PositionOnlyYieldsToPriority

-----------------------------------------------------------------------------
(* The server's inductive invariant *)

Known == queue \cup running \cup cancelled

\* Waiting in the queue, or popped and not launched yet.
ToLaunch == queue \cup Popped

\* Where serve stands tells where Stop stands and which handlers run.
ServeFollows ==
    /\ serving \in {"listening", "shutdown"} <=> handlers = "open"
    /\ serving \in {"listening", "shutdown", "drain"} => stopper = "idle"
    /\ serving = "stopping" => stopper = "emitting"
    /\ serving \in {"purge", "unset"} => stopper \in {"returned", "timedout"}
    /\ serving \in {"wait", "cancelled"} => stopper = "idle" /\ ~schedSet
    /\ serving = "returned" => ~schedSet /\ stopper # "emitting"
    /\ stopped => stopper # "idle"

\* A run is submitted once, by the handler that then accepts it.
SubmittedOnce ==
    /\ \A e \in Known, f \in Known : e.run = f.run => e = f
    /\ \A e \in Known : creating[e.run] = "accepted"

\* A run that was launched waits nowhere, nor was it cancelled.
LaunchIsFinal ==
    \A r \in launched : /\ creating[r] = "accepted"
                        /\ \A e \in ToLaunch \cup cancelled : e.run # r

\* An accepted run is somewhere.
AcceptedIsKnown ==
    \A r \in RunIDs : creating[r] = "accepted" =>
        r \in launched \/ r \in missed \/ \E e \in ToLaunch \cup cancelled : e.run = r

\* DELETE handlers un-stage runs they cancelled; a staged request stays until
\* the purge, which comes after Stop.
HandlersHold ==
    /\ \A r \in deleting : \E e \in cancelled : e.run = r
    /\ \A r \in RunIDs : creating[r] = "staged" /\ ~stopped => r \in pending

\* Shutdown leaves handlers behind only when it gave up on them.
HandlersEnd ==
    /\ handlers = "closed" => ~InHandler
    /\ \A r \in RunIDs :
          creating[r] \in {"staging", "staged", "refused"} /\ ~schedSet => handlers = "lingering"

\* The two ways of launching do not mix.
OneWay ==
    /\ stopper = "idle" /\ ~schedSet => queue = {} /\ Busy = {}
    /\ handlers # "lingering" /\ (schedSet \/ stopper # "idle") =>
          inFlight = {} /\ \A r \in RunIDs : creating[r] # "async"
    /\ serving = "returned" /\ handlers = "closed" /\ stopper = "idle" => inFlight = {}

ServerInvariant ==
    /\ SchedulerInvariant
    /\ ServerTypeOK /\ ServeFollows /\ SubmittedOnce /\ LaunchIsFinal /\ AcceptedIsKnown
    /\ HandlersHold /\ HandlersEnd /\ OneWay
    /\ RequestsStaged /\ PendingIsClaimed

-----------------------------------------------------------------------------
(* What the scheduler's invariant gives *)

LEMMA PoolFacts ==
    ASSUME SchedulerInvariant
    PROVE  /\ queue \subseteq Entries /\ running \subseteq Entries /\ cancelled \subseteq Entries
           /\ runs \subseteq Entries
           /\ \A e \in Entries : e.run \in RunIDs
           /\ Popped \subseteq running /\ Popped \subseteq Entries
           /\ \A e \in queue : e \in runs /\ e \notin running
           /\ \A e \in runs : e \notin running => e \in queue
           /\ \A e \in cancelled : e \notin running /\ e \notin queue
           /\ wpc \in [Workers -> WorkerStates]
           /\ held \in [Workers -> Entries \cup {NoEntry}]
           /\ \A w \in Busy : held[w] \in runs /\ held[w] \in running
           /\ \A v \in Busy, w \in Busy : held[v] = held[w] => v = w
           /\ stopped => queue = {}
           /\ stopper # "idle" => stopped
           /\ stopper = "returned" => PoolDone
<1>1. /\ TypeOK /\ StatusInvariant /\ Holding /\ CancelledGone /\ Stopping
  BY DEF SchedulerInvariant, Core
<1>2. /\ queue \subseteq Entries /\ running \subseteq Entries /\ cancelled \subseteq Entries
      /\ runs \subseteq Entries
      /\ wpc \in [Workers -> WorkerStates]
      /\ held \in [Workers -> Entries \cup {NoEntry}]
  BY <1>1 DEF TypeOK
<1>3. \A e \in Entries : e.run \in RunIDs
  BY DEF Entries
<1>4. /\ \A w \in Busy : held[w] \in runs /\ held[w] \in running
      /\ \A v \in Busy, w \in Busy : held[v] = held[w] => v = w
  BY <1>1 DEF Holding
<1>5. Popped \subseteq running /\ Popped \subseteq Entries
  BY <1>2, <1>4 DEF Popped, Busy
<1>6. /\ \A e \in queue : e \in runs /\ e \notin running
      /\ \A e \in runs : e \notin running => e \in queue
  BY <1>1, <1>2 DEF StatusInvariant
<1>7. \A e \in cancelled : e \notin running /\ e \notin queue
  BY <1>1, <1>6 DEF CancelledGone
<1>8. /\ stopped => queue = {}
      /\ stopper # "idle" => stopped
      /\ stopper = "returned" => PoolDone
  BY <1>1 DEF Stopping
<1> QED
  BY <1>2, <1>3, <1>4, <1>5, <1>6, <1>7, <1>8

\* The conjuncts, for citation.
LEMMA Parts ==
    ASSUME ServerInvariant
    PROVE  /\ SchedulerInvariant
           /\ ServerTypeOK /\ ServeFollows /\ SubmittedOnce /\ LaunchIsFinal /\ AcceptedIsKnown
           /\ HandlersHold /\ HandlersEnd /\ OneWay
           /\ RequestsStaged /\ PendingIsClaimed
BY DEF ServerInvariant

LEMMA SchedulerKeeps ==
    ASSUME SchedulerInvariant, [Next]_vars
    PROVE  SchedulerInvariant'
BY NextCore, NextCounts DEF SchedulerInvariant

\* The scheduler is left alone.
LEMMA PoolRests ==
    ASSUME SchedulerInvariant, UNCHANGED vars
    PROVE  /\ SchedulerInvariant'
           /\ queue' = queue /\ running' = running /\ cancelled' = cancelled
           /\ Popped' = Popped /\ ToLaunch' = ToLaunch /\ Known' = Known /\ Busy' = Busy
           /\ stopper' = stopper /\ stopped' = stopped
<1>1. SchedulerInvariant'
  BY SchedulerKeeps
<1>2. /\ queue' = queue /\ running' = running /\ cancelled' = cancelled /\ held' = held
      /\ wpc' = wpc /\ stopper' = stopper /\ stopped' = stopped
  BY DEF vars, lockVars
<1>3. Popped' = Popped /\ Busy' = Busy
  BY <1>2 DEF Popped, Busy
<1> QED
  BY <1>1, <1>2, <1>3 DEF ToLaunch, Known

-----------------------------------------------------------------------------
(* Handlers *)

\* handleCreateRun begins, or its submission was refused or found no scheduler.
LEMMA CreateMoves ==
    ASSUME ServerInvariant, NEW r \in RunIDs, BeginCreate(r) \/ Refuse(r) \/ NilScheduler(r)
    PROVE  ServerInvariant'
<1>1. /\ SchedulerInvariant
      /\ ServerTypeOK /\ ServeFollows /\ SubmittedOnce /\ LaunchIsFinal /\ AcceptedIsKnown
      /\ HandlersHold /\ HandlersEnd /\ OneWay
      /\ RequestsStaged /\ PendingIsClaimed
  BY Parts
<1>2. /\ SchedulerInvariant'
      /\ queue' = queue /\ running' = running /\ cancelled' = cancelled
      /\ Popped' = Popped /\ ToLaunch' = ToLaunch /\ Known' = Known /\ Busy' = Busy
      /\ stopper' = stopper /\ stopped' = stopped
  BY <1>1, PoolRests DEF BeginCreate, Refuse, NilScheduler
<1>3. PICK s \in CreateStates :
        /\ creating' = [creating EXCEPT ![r] = s]
        /\ creating[r] \notin {"accepted"} /\ s # "accepted" /\ s # "staged"
        /\ creating[r] \in {"staged", "refused"} => s = "refused" \/ ~schedSet
        /\ s = "staging" => schedSet
        /\ s = "refused" => creating[r] = "staged"
        /\ s = "async" => ~schedSet
        /\ handlers = "closed" => creating[r] = "staged"
  BY DEF BeginCreate, Refuse, NilScheduler, CreateStates
<1>4. /\ deleting' = deleting /\ pending' = pending /\ schedSet' = schedSet
      /\ inFlight' = inFlight /\ serving' = serving /\ handlers' = handlers
      /\ launched' = launched /\ missed' = missed
  BY DEF BeginCreate, Refuse, NilScheduler
<1>5. \A q \in RunIDs : creating'[q] = IF q = r THEN s ELSE creating[q]
  BY <1>1, <1>3 DEF ServerTypeOK
<1>6. ServerTypeOK'
  BY <1>1, <1>3, <1>4 DEF ServerTypeOK
<1>7. ServeFollows'
  BY <1>1, <1>2, <1>4 DEF ServeFollows
<1>8. \A e \in Known : e.run \in RunIDs
  BY <1>1, PoolFacts DEF Known
<1>9. SubmittedOnce'
  BY <1>1, <1>2, <1>3, <1>5, <1>8 DEF SubmittedOnce
<1>10. LaunchIsFinal' /\ AcceptedIsKnown'
  BY <1>1, <1>2, <1>3, <1>4, <1>5 DEF LaunchIsFinal, AcceptedIsKnown, ServerTypeOK
<1>11. HandlersHold'
  BY <1>1, <1>2, <1>3, <1>4, <1>5 DEF HandlersHold
<1>12. handlers # "closed"
  BY <1>1, <1>3 DEF HandlersEnd, InHandler
<1>13. HandlersEnd'
  BY <1>1, <1>3, <1>4, <1>5, <1>12 DEF HandlersEnd
<1>14. OneWay'
  <2>1. s = "async" => handlers = "lingering" \/ stopper = "idle"
    BY <1>1, <1>12 DEF ServeFollows, ServerTypeOK
  <2> QED
    BY <1>1, <1>2, <1>3, <1>4, <1>5, <2>1 DEF OneWay
<1>15. RequestsStaged'
  BY <1>1, <1>2, <1>4 DEF RequestsStaged, Runs
<1>16. PendingIsClaimed'
  BY <1>1, <1>2, <1>3, <1>4, <1>5 DEF PendingIsClaimed, Runs, HandlersEnd, ServerTypeOK
<1> QED
  BY <1>2, <1>6, <1>7, <1>9, <1>10, <1>11, <1>13, <1>14, <1>15, <1>16 DEF ServerInvariant

LEMMA PutPendingStep ==
    ASSUME ServerInvariant, NEW r \in RunIDs, PutPending(r)
    PROVE  ServerInvariant'
<1>1. /\ SchedulerInvariant
      /\ ServerTypeOK /\ ServeFollows /\ SubmittedOnce /\ LaunchIsFinal /\ AcceptedIsKnown
      /\ HandlersHold /\ HandlersEnd /\ OneWay
      /\ RequestsStaged /\ PendingIsClaimed
  BY Parts
<1>2. /\ SchedulerInvariant'
      /\ queue' = queue /\ running' = running /\ cancelled' = cancelled
      /\ Popped' = Popped /\ ToLaunch' = ToLaunch /\ Known' = Known /\ Busy' = Busy
      /\ stopper' = stopper /\ stopped' = stopped
  BY <1>1, PoolRests DEF PutPending
<1>3. /\ creating[r] = "staging" /\ creating' = [creating EXCEPT ![r] = "staged"]
      /\ pending' = pending \cup {r}
      /\ deleting' = deleting /\ schedSet' = schedSet
      /\ inFlight' = inFlight /\ serving' = serving /\ handlers' = handlers
      /\ launched' = launched /\ missed' = missed
  BY DEF PutPending
<1>4. \A q \in RunIDs : creating'[q] = IF q = r THEN "staged" ELSE creating[q]
  BY <1>1, <1>3 DEF ServerTypeOK
<1>5. ServerTypeOK' /\ ServeFollows'
  BY <1>1, <1>2, <1>3 DEF ServerTypeOK, ServeFollows, CreateStates
<1>6. \A e \in Known : e.run \in RunIDs
  BY <1>1, PoolFacts DEF Known
<1>7. SubmittedOnce'
  BY <1>1, <1>2, <1>3, <1>4, <1>6 DEF SubmittedOnce
<1>8. LaunchIsFinal' /\ AcceptedIsKnown'
  BY <1>1, <1>2, <1>3, <1>4 DEF LaunchIsFinal, AcceptedIsKnown, ServerTypeOK
<1>9. HandlersHold'
  BY <1>1, <1>2, <1>3, <1>4 DEF HandlersHold
<1>10. HandlersEnd'
  BY <1>1, <1>3, <1>4 DEF HandlersEnd, InHandler
<1>11. OneWay'
  BY <1>1, <1>2, <1>3, <1>4 DEF OneWay
<1>12. RequestsStaged'
  BY <1>1, <1>2, <1>3 DEF RequestsStaged
<1>13. PendingIsClaimed'
  BY <1>1, <1>2, <1>3, <1>4 DEF PendingIsClaimed, Runs, ServerTypeOK
<1> QED
  BY <1>2, <1>5, <1>7, <1>8, <1>9, <1>10, <1>11, <1>12, <1>13 DEF ServerInvariant

\* takePending, by the handler of a refused request or by that of a DELETE.
LEMMA UnstageStep ==
    ASSUME ServerInvariant, NEW r \in RunIDs, Unstage(r) \/ CancelUnstage(r)
    PROVE  ServerInvariant'
<1>1. /\ SchedulerInvariant
      /\ ServerTypeOK /\ ServeFollows /\ SubmittedOnce /\ LaunchIsFinal /\ AcceptedIsKnown
      /\ HandlersHold /\ HandlersEnd /\ OneWay
      /\ RequestsStaged /\ PendingIsClaimed
  BY Parts
<1>2. /\ SchedulerInvariant'
      /\ queue' = queue /\ running' = running /\ cancelled' = cancelled
      /\ Popped' = Popped /\ ToLaunch' = ToLaunch /\ Known' = Known /\ Busy' = Busy
      /\ stopper' = stopper /\ stopped' = stopped
  BY <1>1, PoolRests DEF Unstage, CancelUnstage
<1>3. /\ pending' = pending \ {r} /\ schedSet' = schedSet
      /\ inFlight' = inFlight /\ serving' = serving /\ handlers' = handlers
      /\ launched' = launched /\ missed' = missed
      /\ \/ /\ creating[r] = "refused" /\ creating' = [creating EXCEPT ![r] = "rejected"]
            /\ deleting' = deleting
         \/ /\ r \in deleting /\ deleting' = deleting \ {r} /\ creating' = creating
  BY DEF Unstage, CancelUnstage
<1>4. \A q \in RunIDs : \/ creating'[q] = creating[q]
                        \/ q = r /\ creating[r] = "refused" /\ creating'[r] = "rejected"
  BY <1>1, <1>3 DEF ServerTypeOK
<1>5. ServerTypeOK' /\ ServeFollows'
  BY <1>1, <1>2, <1>3 DEF ServerTypeOK, ServeFollows, CreateStates
<1>6. \A e \in Known : e.run \in RunIDs
  BY <1>1, PoolFacts DEF Known
<1>7. SubmittedOnce'
  BY <1>1, <1>2, <1>3, <1>4, <1>6 DEF SubmittedOnce
<1>8. LaunchIsFinal' /\ AcceptedIsKnown'
  BY <1>1, <1>2, <1>3, <1>4 DEF LaunchIsFinal, AcceptedIsKnown, ServerTypeOK
<1>9. creating[r] # "staged"
  <2>1. CASE r \in deleting
    <3>1. PICK e \in cancelled : e.run = r
      BY <1>1, <2>1 DEF HandlersHold
    <3> QED
      BY <1>1, <3>1 DEF SubmittedOnce, Known
  <2> QED
    BY <1>3, <2>1
<1>10. HandlersHold'
  BY <1>1, <1>2, <1>3, <1>4, <1>9 DEF HandlersHold
<1>11. HandlersEnd'
  BY <1>1, <1>3, <1>4 DEF HandlersEnd, InHandler
<1>12. OneWay'
  BY <1>1, <1>2, <1>3, <1>4 DEF OneWay
<1>13. \A e \in ToLaunch : e.run # r
  <2> SUFFICES ASSUME NEW e \in ToLaunch, e.run = r PROVE FALSE
    OBVIOUS
  <2>1. e \in Known /\ e \notin cancelled
    BY <1>1, PoolFacts DEF ToLaunch, Known
  <2>2. CASE creating[r] = "refused"
    BY <1>1, <2>1, <2>2 DEF SubmittedOnce
  <2>3. CASE r \in deleting
    <3>1. PICK f \in cancelled : f.run = r
      BY <1>1, <2>3 DEF HandlersHold
    <3> QED
      BY <1>1, <2>1, <3>1 DEF SubmittedOnce, Known
  <2> QED
    BY <1>3, <2>2, <2>3
<1>14. RequestsStaged'
  BY <1>1, <1>2, <1>3, <1>13 DEF RequestsStaged, Runs, ToLaunch
<1>15. PendingIsClaimed'
  BY <1>1, <1>2, <1>3, <1>4 DEF PendingIsClaimed, Runs, ServerTypeOK
<1> QED
  BY <1>2, <1>5, <1>7, <1>8, <1>10, <1>11, <1>12, <1>14, <1>15 DEF ServerInvariant

LEMMA LaunchAsyncStep ==
    ASSUME ServerInvariant, NEW r \in RunIDs, LaunchAsync(r)
    PROVE  ServerInvariant'
<1>1. /\ SchedulerInvariant
      /\ ServerTypeOK /\ ServeFollows /\ SubmittedOnce /\ LaunchIsFinal /\ AcceptedIsKnown
      /\ HandlersHold /\ HandlersEnd /\ OneWay
      /\ RequestsStaged /\ PendingIsClaimed
  BY Parts
<1>2. /\ SchedulerInvariant'
      /\ queue' = queue /\ running' = running /\ cancelled' = cancelled
      /\ Popped' = Popped /\ ToLaunch' = ToLaunch /\ Known' = Known /\ Busy' = Busy
      /\ stopper' = stopper /\ stopped' = stopped
  BY <1>1, PoolRests DEF LaunchAsync
<1>3. /\ creating[r] = "async" /\ creating' = [creating EXCEPT ![r] = "accepted"]
      /\ inFlight' = inFlight \cup {r} /\ launched' = launched \cup {r}
      /\ deleting' = deleting /\ pending' = pending /\ schedSet' = schedSet
      /\ serving' = serving /\ handlers' = handlers /\ missed' = missed
  BY DEF LaunchAsync
<1>4. \A q \in RunIDs : creating'[q] = IF q = r THEN "accepted" ELSE creating[q]
  BY <1>1, <1>3 DEF ServerTypeOK
<1>5. ServerTypeOK' /\ ServeFollows'
  BY <1>1, <1>2, <1>3 DEF ServerTypeOK, ServeFollows, CreateStates
<1>6. \A e \in Known : e.run \in RunIDs /\ e.run # r
  BY <1>1, <1>3, PoolFacts DEF Known, SubmittedOnce
<1>7. \A e \in ToLaunch \cup cancelled : e \in Known
  BY <1>1, PoolFacts DEF Known, ToLaunch
<1>8. SubmittedOnce'
  BY <1>1, <1>2, <1>4, <1>6 DEF SubmittedOnce
<1>9. LaunchIsFinal' /\ AcceptedIsKnown'
  BY <1>1, <1>2, <1>3, <1>4, <1>6, <1>7 DEF LaunchIsFinal, AcceptedIsKnown, ServerTypeOK
<1>10. HandlersHold'
  BY <1>1, <1>2, <1>3, <1>4 DEF HandlersHold
<1>11. handlers # "closed"
  BY <1>1, <1>3 DEF HandlersEnd, InHandler
<1>12. HandlersEnd'
  BY <1>1, <1>3, <1>4, <1>11 DEF HandlersEnd
<1>13. OneWay'
  BY <1>1, <1>2, <1>3, <1>4, <1>11 DEF OneWay
<1>14. RequestsStaged'
  BY <1>1, <1>2, <1>3 DEF RequestsStaged
<1>15. PendingIsClaimed'
  BY <1>1, <1>2, <1>3, <1>4 DEF PendingIsClaimed, Runs, ServerTypeOK
<1> QED
  BY <1>2, <1>5, <1>8, <1>9, <1>10, <1>12, <1>13, <1>14, <1>15 DEF ServerInvariant

\* A step of serve itself, or the return of a launch.
LEMMA ServeMoves ==
    ASSUME ServerInvariant,
           \/ ServeCtxDone \/ ShutdownReturns \/ ServeFails \/ BeginWait \/ WaitTimesOut
           \/ WaitEnds \/ ClearScheduler \/ ServerQuiet
           \/ \E r \in RunIDs : AsyncReturns(r)
    PROVE  ServerInvariant'
<1>1. /\ SchedulerInvariant
      /\ ServerTypeOK /\ ServeFollows /\ SubmittedOnce /\ LaunchIsFinal /\ AcceptedIsKnown
      /\ HandlersHold /\ HandlersEnd /\ OneWay
      /\ RequestsStaged /\ PendingIsClaimed
  BY Parts
<1>2. UNCHANGED vars
  BY DEF ServeCtxDone, ShutdownReturns, ServeFails, BeginWait, WaitTimesOut, WaitEnds,
         ClearScheduler, ServerQuiet, AsyncReturns
<1>3. /\ SchedulerInvariant'
      /\ queue' = queue /\ running' = running /\ cancelled' = cancelled
      /\ Popped' = Popped /\ ToLaunch' = ToLaunch /\ Known' = Known /\ Busy' = Busy
      /\ stopper' = stopper /\ stopped' = stopped
  BY <1>1, <1>2, PoolRests
<1>4. /\ creating' = creating /\ deleting' = deleting /\ pending' = pending
      /\ launched' = launched /\ missed' = missed /\ inFlight' \subseteq inFlight
      /\ handlers = "lingering" => handlers' = "lingering"
      /\ schedSet' => schedSet
  BY <1>1 DEF ServeFollows, ServeCtxDone, ShutdownReturns, ServeFails, BeginWait, WaitTimesOut, WaitEnds,
         ClearScheduler, ServerQuiet, AsyncReturns, serverVars, handlerVars
<1>5. ServerTypeOK'
  BY <1>1, <1>4 DEF ServerTypeOK, ServeStates, ServeCtxDone, ShutdownReturns, ServeFails, BeginWait,
         WaitTimesOut, WaitEnds, ClearScheduler, ServerQuiet, AsyncReturns, serverVars, handlerVars
<1>6. ServeFollows'
  BY <1>1, <1>3 DEF ServeFollows, ServeCtxDone, ShutdownReturns, ServeFails, BeginWait,
         WaitTimesOut, WaitEnds, ClearScheduler, ServerQuiet, AsyncReturns, serverVars, handlerVars
<1>7. SubmittedOnce' /\ LaunchIsFinal' /\ AcceptedIsKnown' /\ HandlersHold' /\ RequestsStaged'
  BY <1>1, <1>3, <1>4 DEF SubmittedOnce, LaunchIsFinal, AcceptedIsKnown, HandlersHold, RequestsStaged
<1>8. InHandler' <=> InHandler
  BY <1>4 DEF InHandler
<1>9. handlers' = "closed" => ~InHandler
  BY <1>1 DEF HandlersEnd, ServeCtxDone, ShutdownReturns, ServeFails, BeginWait,
         WaitTimesOut, WaitEnds, ClearScheduler, ServerQuiet, AsyncReturns, serverVars, handlerVars
<1>10. schedSet' = schedSet \/ (serving = "unset" /\ handlers' = handlers /\ handlers # "open")
  BY <1>1 DEF ServeFollows, ServeCtxDone, ShutdownReturns, ServeFails, BeginWait,
         WaitTimesOut, WaitEnds, ClearScheduler, ServerQuiet, AsyncReturns, serverVars, handlerVars
<1>11. HandlersEnd'
  <2> SUFFICES ASSUME NEW r \in RunIDs, creating[r] \in {"staging", "staged", "refused"}, ~schedSet'
               PROVE  handlers' = "lingering"
    BY <1>4, <1>8, <1>9 DEF HandlersEnd
  <2>1. CASE ~schedSet
    BY <1>1, <1>4, <2>1 DEF HandlersEnd
  <2>2. CASE schedSet
    <3>1. handlers' # "closed"
      BY <1>9 DEF InHandler
    <3> QED
      BY <1>1, <1>10, <2>2, <3>1 DEF ServerTypeOK
  <2> QED
    BY <2>1, <2>2
<1>12. OneWay'
  <2>1. schedSet' = schedSet \/ stopper # "idle"
    BY <1>1, <1>10 DEF ServeFollows
  <2>2. serving' = "returned" /\ stopper = "idle" => inFlight' = {} \/ (serving = "returned" /\ handlers' = handlers)
    BY <1>1 DEF ServeFollows, ServeCtxDone, ShutdownReturns, ServeFails, BeginWait, InFlightDone,
         WaitTimesOut, WaitEnds, ClearScheduler, ServerQuiet, AsyncReturns, serverVars, handlerVars
  <2> QED
    BY <1>1, <1>3, <1>4, <2>1, <2>2 DEF OneWay
<1>13. PendingIsClaimed'
  <2>1. serving \in {"stopping", "purge"} => serving' = serving
    BY DEF ServeCtxDone, ShutdownReturns, ServeFails, BeginWait,
         WaitTimesOut, WaitEnds, ClearScheduler, ServerQuiet, AsyncReturns, serverVars, handlerVars
  <2> QED
    BY <1>1, <1>3, <1>4, <2>1 DEF PendingIsClaimed, Runs
<1> QED
  BY <1>3, <1>5, <1>6, <1>7, <1>11, <1>12, <1>13 DEF ServerInvariant

LEMMA PurgeStep ==
    ASSUME ServerInvariant, PurgePending
    PROVE  ServerInvariant'
<1>1. /\ SchedulerInvariant
      /\ ServerTypeOK /\ ServeFollows /\ SubmittedOnce /\ LaunchIsFinal /\ AcceptedIsKnown
      /\ HandlersHold /\ HandlersEnd /\ OneWay
      /\ RequestsStaged /\ PendingIsClaimed
  BY Parts
<1>2. /\ SchedulerInvariant'
      /\ queue' = queue /\ running' = running /\ cancelled' = cancelled
      /\ Popped' = Popped /\ ToLaunch' = ToLaunch /\ Known' = Known /\ Busy' = Busy
      /\ stopper' = stopper /\ stopped' = stopped
  BY <1>1, PoolRests DEF PurgePending
<1>3. /\ creating' = creating /\ deleting' = deleting /\ schedSet' = schedSet
      /\ inFlight' = inFlight /\ handlers' = handlers /\ launched' = launched /\ missed' = missed
      /\ pending' = {} /\ serving = "purge" /\ serving' = "unset"
  BY DEF PurgePending, handlerVars
<1>4. stopper \in {"returned", "timedout"} /\ stopped
  BY <1>1, <1>3, PoolFacts DEF ServeFollows
<1>5. stopper = "returned" => queue = {} /\ Popped = {}
  BY <1>1, <1>4, PoolFacts DEF PoolDone, Popped
<1>6. ServerTypeOK' /\ ServeFollows'
  BY <1>1, <1>2, <1>3 DEF ServerTypeOK, ServeFollows, ServeStates
<1>7. SubmittedOnce' /\ LaunchIsFinal' /\ AcceptedIsKnown'
  BY <1>1, <1>2, <1>3 DEF SubmittedOnce, LaunchIsFinal, AcceptedIsKnown
<1>8. HandlersHold'
  BY <1>1, <1>2, <1>3, <1>4 DEF HandlersHold
<1>9. HandlersEnd' /\ OneWay'
  BY <1>1, <1>2, <1>3, <1>4 DEF HandlersEnd, InHandler, OneWay
<1>10. RequestsStaged'
  BY <1>1, <1>2, <1>3, <1>4, <1>5 DEF RequestsStaged, Runs
<1>11. PendingIsClaimed'
  BY <1>3 DEF PendingIsClaimed
<1> QED
  BY <1>2, <1>6, <1>7, <1>8, <1>9, <1>10, <1>11 DEF ServerInvariant

-----------------------------------------------------------------------------
(* The server and its scheduler *)

LEMMA AdmitStep ==
    ASSUME ServerInvariant, NEW r \in RunIDs, Admit(r)
    PROVE  ServerInvariant'
<1>1. /\ SchedulerInvariant
      /\ ServerTypeOK /\ ServeFollows /\ SubmittedOnce /\ LaunchIsFinal /\ AcceptedIsKnown
      /\ HandlersHold /\ HandlersEnd /\ OneWay
      /\ RequestsStaged /\ PendingIsClaimed
  BY Parts
<1>2. PICK p \in Priorities : Submit(r, p)
  BY DEF Admit
<1>3. SchedulerInvariant'
  BY <1>1, <1>2, SchedulerKeeps DEF Next
<1> DEFINE e == [run |-> r, prio |-> p, seq |-> seq + 1]
<1>4. /\ ~stopped /\ queue' = queue \cup {e} /\ Signal
      /\ running' = running /\ cancelled' = cancelled /\ held' = held
      /\ stopper' = stopper /\ stopped' = stopped
  BY <1>2 DEF Submit
<1>5. e.run = r
  OBVIOUS
<1> HIDE DEF e
<1>6. /\ creating[r] = "staged" /\ schedSet /\ creating' = [creating EXCEPT ![r] = "accepted"]
      /\ deleting' = deleting /\ pending' = pending /\ schedSet' = schedSet
      /\ inFlight' = inFlight /\ serving' = serving /\ handlers' = handlers
      /\ launched' = launched /\ missed' = missed
  BY DEF Admit
<1>7. \A q \in RunIDs : creating'[q] = IF q = r THEN "accepted" ELSE creating[q]
  BY <1>1, <1>6 DEF ServerTypeOK
<1>8. Popped' = Popped /\ Busy' = Busy
  <2>1. wpc \in [Workers -> WorkerStates]
    BY <1>1, PoolFacts
  <2>2. \A w \in Workers : wpc'[w] = wpc[w] \/ (wpc[w] = "waiting" /\ wpc'[w] = "ready")
    BY <1>4, <2>1 DEF Signal, Waiting
  <2> QED
    BY <1>4, <2>2 DEF Popped, Busy
<1>9. ToLaunch' = ToLaunch \cup {e} /\ Known' = Known \cup {e}
  BY <1>4, <1>8 DEF ToLaunch, Known
<1>10. ServerTypeOK' /\ ServeFollows'
  BY <1>1, <1>4, <1>6 DEF ServerTypeOK, ServeFollows, CreateStates
<1>11. \A f \in Known : f.run \in RunIDs /\ f.run # r
  BY <1>1, <1>6, PoolFacts DEF Known, SubmittedOnce
<1>12. SubmittedOnce'
  BY <1>1, <1>5, <1>7, <1>9, <1>11 DEF SubmittedOnce
<1>13. r \notin launched
  BY <1>1, <1>6 DEF LaunchIsFinal
<1>14. LaunchIsFinal'
  BY <1>1, <1>4, <1>5, <1>6, <1>7, <1>9, <1>13 DEF LaunchIsFinal, ServerTypeOK
<1>15. AcceptedIsKnown'
  BY <1>1, <1>4, <1>5, <1>6, <1>7, <1>9 DEF AcceptedIsKnown
<1>16. HandlersHold'
  BY <1>1, <1>4, <1>6, <1>7 DEF HandlersHold
<1>17. HandlersEnd'
  BY <1>1, <1>6, <1>7 DEF HandlersEnd, InHandler
<1>18. OneWay'
  BY <1>1, <1>4, <1>6, <1>7, <1>8 DEF OneWay
<1>19. r \in pending
  BY <1>1, <1>4, <1>6 DEF HandlersHold
<1>20. RequestsStaged'
  BY <1>1, <1>4, <1>5, <1>6, <1>8, <1>19 DEF RequestsStaged, Runs
<1>21. PendingIsClaimed'
  BY <1>1, <1>4, <1>5, <1>6, <1>7, <1>8 DEF PendingIsClaimed, Runs, ServerTypeOK
<1> QED
  BY <1>3, <1>10, <1>12, <1>14, <1>15, <1>16, <1>17, <1>18, <1>20, <1>21 DEF ServerInvariant

LEMMA CancelRunStep ==
    ASSUME ServerInvariant, NEW r \in RunIDs, CancelRun(r)
    PROVE  ServerInvariant'
<1>1. /\ SchedulerInvariant
      /\ ServerTypeOK /\ ServeFollows /\ SubmittedOnce /\ LaunchIsFinal /\ AcceptedIsKnown
      /\ HandlersHold /\ HandlersEnd /\ OneWay
      /\ RequestsStaged /\ PendingIsClaimed
  BY Parts
<1>2. SchedulerInvariant'
  BY <1>1, SchedulerKeeps DEF Next, CancelRun
<1>3. PICK e \in runs :
        /\ e.run = r /\ e \notin running
        /\ queue' = {f \in queue : f.run # r}
        /\ cancelled' = cancelled \cup {e}
        /\ running' = running /\ held' = held /\ wpc' = wpc
        /\ stopper' = stopper /\ stopped' = stopped
  BY DEF CancelRun, Cancel, Cancellable
<1>4. e \in queue
  BY <1>1, <1>3, PoolFacts
<1>5. /\ creating' = creating /\ pending' = pending /\ schedSet' = schedSet /\ schedSet
      /\ inFlight' = inFlight /\ serving' = serving /\ handlers' = handlers /\ handlers # "closed"
      /\ launched' = launched /\ missed' = missed /\ deleting' = deleting \cup {r}
  BY DEF CancelRun
<1>6. Popped' = Popped /\ Busy' = Busy
  BY <1>3 DEF Popped, Busy
<1>7. Known' \subseteq Known /\ e \in Known
  BY <1>3, <1>4 DEF Known
<1>8. ServerTypeOK' /\ ServeFollows'
  BY <1>1, <1>3, <1>5 DEF ServerTypeOK, ServeFollows
<1>9. SubmittedOnce'
  BY <1>1, <1>5, <1>7 DEF SubmittedOnce
<1>10. LaunchIsFinal'
  BY <1>1, <1>3, <1>4, <1>5, <1>6 DEF LaunchIsFinal, ToLaunch
<1>11. AcceptedIsKnown'
  BY <1>1, <1>3, <1>4, <1>5, <1>6 DEF AcceptedIsKnown, ToLaunch
<1>12. HandlersHold'
  BY <1>1, <1>3, <1>5 DEF HandlersHold
<1>13. HandlersEnd'
  BY <1>1, <1>5 DEF HandlersEnd
<1>14. OneWay'
  BY <1>1, <1>3, <1>5, <1>6 DEF OneWay
<1>15. RequestsStaged'
  BY <1>1, <1>3, <1>5, <1>6 DEF RequestsStaged, Runs
<1>16. PendingIsClaimed'
  BY <1>1, <1>3, <1>4, <1>5, <1>6 DEF PendingIsClaimed, Runs, ServerTypeOK
<1> QED
  BY <1>2, <1>8, <1>9, <1>10, <1>11, <1>12, <1>13, <1>14, <1>15, <1>16 DEF ServerInvariant

\* launchFunc: the request is there, or the drain timed out.
LEMMA LaunchFuncStep ==
    ASSUME ServerInvariant, NEW w \in Workers, LaunchFunc(w)
    PROVE  ServerInvariant'
<1>1. /\ SchedulerInvariant
      /\ ServerTypeOK /\ ServeFollows /\ SubmittedOnce /\ LaunchIsFinal /\ AcceptedIsKnown
      /\ HandlersHold /\ HandlersEnd /\ OneWay
      /\ RequestsStaged /\ PendingIsClaimed
  BY Parts
<1> DEFINE e == held[w]
<1> DEFINE r == e.run
<1>2. Launch(w)
  BY DEF LaunchFunc
<1>3. SchedulerInvariant'
  BY <1>1, <1>2, SchedulerKeeps DEF Next, WorkerStep
<1>4. /\ wpc[w] = "launching" /\ wpc' = [wpc EXCEPT ![w] = "running"]
      /\ queue' = queue /\ running' = running /\ cancelled' = cancelled /\ held' = held
      /\ stopper' = stopper /\ stopped' = stopped
  BY <1>2 DEF Launch, lockVars
<1>5. /\ pending' = pending \ {r}
      /\ r \in pending => launched' = launched \cup {r} /\ missed' = missed
      /\ r \notin pending => missed' = missed \cup {r} /\ launched' = launched
      /\ creating' = creating /\ deleting' = deleting /\ schedSet' = schedSet
      /\ inFlight' = inFlight /\ serving' = serving /\ handlers' = handlers
  BY DEF LaunchFunc
<1>6. w \in Busy /\ e \in Popped /\ Busy' = Busy
  <2>1. wpc \in [Workers -> WorkerStates]
    BY <1>1, PoolFacts
  <2>2. \A v \in Workers : wpc'[v] = IF v = w THEN "running" ELSE wpc[v]
    BY <1>4, <2>1
  <2> QED
    BY <1>4, <2>2 DEF Busy, Popped
<1>7. Popped' = Popped \ {e}
  <2>1. /\ wpc \in [Workers -> WorkerStates]
        /\ \A v \in Busy : held[v] = held[w] => v = w
    BY <1>1, <1>6, PoolFacts
  <2>2. \A v \in Workers : wpc'[v] = IF v = w THEN "running" ELSE wpc[v]
    BY <1>4, <2>1
  <2>3. ASSUME NEW v \in Workers, wpc[v] \in {"dequeued", "launching"}, held[v] = e
        PROVE  v = w
    BY <2>1, <2>3 DEF Busy
  <2> QED
    BY <1>4, <2>2, <2>3 DEF Popped
<1>8. /\ e \in Known /\ e.run \in RunIDs /\ e \notin queue /\ e \notin cancelled
      /\ Popped \subseteq Known
  BY <1>1, <1>6, PoolFacts DEF Known
<1> HIDE DEF e
<1>9. Known' = Known /\ ToLaunch' \subseteq ToLaunch
  BY <1>4, <1>7 DEF Known, ToLaunch
<1>10. \A f \in ToLaunch' \cup cancelled : f.run # r
  BY <1>1, <1>4, <1>7, <1>8 DEF ToLaunch, Known, SubmittedOnce
<1>11. ServerTypeOK' /\ ServeFollows'
  BY <1>1, <1>4, <1>5, <1>8 DEF ServerTypeOK, ServeFollows
<1>12. SubmittedOnce'
  BY <1>1, <1>5, <1>9 DEF SubmittedOnce
<1>13. LaunchIsFinal'
  BY <1>1, <1>4, <1>5, <1>8, <1>9, <1>10 DEF LaunchIsFinal, SubmittedOnce
<1>14. AcceptedIsKnown'
  <2> SUFFICES ASSUME NEW q \in RunIDs, creating[q] = "accepted"
               PROVE  q \in launched' \/ q \in missed' \/ \E f \in ToLaunch' \cup cancelled' : f.run = q
    BY <1>5 DEF AcceptedIsKnown
  <2>1. CASE q = r
    BY <1>5, <2>1
  <2>2. CASE q # r
    <3>1. q \in launched \/ q \in missed \/ \E f \in ToLaunch \cup cancelled : f.run = q
      BY <1>1 DEF AcceptedIsKnown
    <3>2. \A f \in ToLaunch : f # e => f \in ToLaunch'
      BY <1>4, <1>7 DEF ToLaunch
    <3> QED
      BY <1>4, <1>5, <2>2, <3>1, <3>2
  <2> QED
    BY <2>1, <2>2
<1>15. HandlersHold'
  BY <1>1, <1>4, <1>5, <1>8 DEF HandlersHold, SubmittedOnce
<1>16. HandlersEnd'
  BY <1>1, <1>5 DEF HandlersEnd, InHandler
<1>17. OneWay'
  BY <1>1, <1>4, <1>5, <1>6 DEF OneWay
<1>18. RequestsStaged'
  <2> SUFFICES ASSUME stopper # "timedout"
               PROVE  missed' = {} /\ \A f \in ToLaunch' : f.run \in pending'
    BY <1>4 DEF RequestsStaged, Runs, ToLaunch
  <2>1. missed = {} /\ \A f \in ToLaunch : f.run \in pending
    BY <1>1 DEF RequestsStaged, Runs, ToLaunch
  <2>2. r \in pending
    BY <1>6, <2>1 DEF ToLaunch
  <2> QED
    BY <1>5, <1>9, <1>10, <2>1, <2>2
<1>19. PendingIsClaimed'
  <2> SUFFICES ASSUME handlers # "lingering", NEW q \in pending, q # r
               PROVE  \/ creating[q] \in {"staged", "refused"}
                      \/ q \in deleting \/ \E f \in ToLaunch' : f.run = q
                      \/ serving \in {"stopping", "purge"} /\ q \in Runs(cancelled)
    BY <1>4, <1>5 DEF PendingIsClaimed, Runs, ToLaunch
  <2>1. \/ creating[q] \in {"staged", "refused"}
        \/ q \in deleting \/ \E f \in ToLaunch : f.run = q
        \/ serving \in {"stopping", "purge"} /\ q \in Runs(cancelled)
    BY <1>1 DEF PendingIsClaimed, Runs, ToLaunch
  <2>2. \A f \in ToLaunch : f # e => f \in ToLaunch'
    BY <1>4, <1>7 DEF ToLaunch
  <2> QED
    BY <2>1, <2>2
<1> QED
  BY <1>3, <1>11, <1>12, <1>13, <1>14, <1>15, <1>16, <1>17, <1>18, <1>19 DEF ServerInvariant

\* A step of the scheduler that only moves an entry from the queue to a worker,
\* or moves nothing the server looks at.
LEMMA PoolMoves ==
    ASSUME ServerInvariant, SchedulerInvariant', UNCHANGED serverVars,
           Known' = Known, ToLaunch' = ToLaunch, cancelled' = cancelled,
           stopper' = stopper, stopped' = stopped, queue' \subseteq queue,
           queue = {} => Busy' \subseteq Busy
    PROVE  ServerInvariant'
<1>1. /\ SchedulerInvariant
      /\ ServerTypeOK /\ ServeFollows /\ SubmittedOnce /\ LaunchIsFinal /\ AcceptedIsKnown
      /\ HandlersHold /\ HandlersEnd /\ OneWay
      /\ RequestsStaged /\ PendingIsClaimed
  BY Parts
<1>2. /\ creating' = creating /\ deleting' = deleting /\ pending' = pending /\ schedSet' = schedSet
      /\ inFlight' = inFlight /\ serving' = serving /\ handlers' = handlers
      /\ launched' = launched /\ missed' = missed
  BY DEF serverVars
<1>3. ServerTypeOK' /\ ServeFollows' /\ HandlersHold' /\ HandlersEnd'
  BY <1>1, <1>2 DEF ServerTypeOK, ServeFollows, HandlersHold, HandlersEnd, InHandler
<1>4. SubmittedOnce' /\ LaunchIsFinal' /\ AcceptedIsKnown'
  BY <1>1, <1>2 DEF SubmittedOnce, LaunchIsFinal, AcceptedIsKnown
<1>5. OneWay'
  BY <1>1, <1>2 DEF OneWay
<1>6. Runs(queue \cup Popped)' = Runs(queue \cup Popped) /\ Runs(cancelled)' = Runs(cancelled)
  BY DEF Runs, ToLaunch
<1>7. RequestsStaged' /\ PendingIsClaimed'
  BY <1>1, <1>2, <1>6 DEF RequestsStaged, PendingIsClaimed
<1> QED
  BY <1>3, <1>4, <1>5, <1>7 DEF ServerInvariant

LEMMA PoolSteps ==
    ASSUME ServerInvariant, \/ \E w \in Workers : PoolStep(w)
                            \/ BusStep \/ StoppingEmits
    PROVE  ServerInvariant'
<1>1. /\ SchedulerInvariant
      /\ ServerTypeOK /\ ServeFollows /\ SubmittedOnce /\ LaunchIsFinal /\ AcceptedIsKnown
      /\ HandlersHold /\ HandlersEnd /\ OneWay
      /\ RequestsStaged /\ PendingIsClaimed
  BY Parts
<1>2. wpc \in [Workers -> WorkerStates] /\ held \in [Workers -> Entries \cup {NoEntry}]
  BY <1>1, PoolFacts
<1>3. CASE BusStep \/ StoppingEmits
  <2>1. SchedulerInvariant' /\ UNCHANGED serverVars
    BY <1>1, <1>3, SchedulerKeeps DEF BusStep, StoppingEmits, Next
  <2>2. /\ queue' = queue /\ running' = running /\ cancelled' = cancelled /\ held' = held
        /\ wpc' = wpc /\ stopper' = stopper /\ stopped' = stopped
    BY <1>3 DEF BusStep, StoppingEmits, Emit, StopEmit, lockVars
  <2>3. Known' = Known /\ ToLaunch' = ToLaunch /\ Busy' = Busy
    BY <2>2 DEF Known, ToLaunch, Popped, Busy
  <2> QED
    BY <2>1, <2>2, <2>3, PoolMoves
<1>4. ASSUME NEW w \in Workers, PoolStep(w) PROVE ServerInvariant'
  <2>1. SchedulerInvariant' /\ UNCHANGED serverVars
    BY <1>1, <1>4, SchedulerKeeps DEF PoolStep, Next, WorkerStep
  <2>2. CASE Pop(w)
    <3>1. PICK e \in queue :
            /\ wpc[w] = "ready" /\ queue' = queue \ {e} /\ running' = running \cup {e}
            /\ held' = [held EXCEPT ![w] = e] /\ wpc' = [wpc EXCEPT ![w] = "dequeued"]
            /\ stopper' = stopper /\ stopped' = stopped /\ cancelled' = cancelled
      BY <2>2 DEF Pop, MarkRunning
    <3>2. \A v \in Workers : /\ wpc'[v] = IF v = w THEN "dequeued" ELSE wpc[v]
                             /\ held'[v] = IF v = w THEN e ELSE held[v]
      BY <1>2, <3>1
    <3>3. Popped' = Popped \cup {e}
      BY <3>1, <3>2 DEF Popped
    <3>4. Known' = Known /\ ToLaunch' = ToLaunch
      BY <3>1, <3>3 DEF Known, ToLaunch
    <3> QED
      BY <2>1, <3>1, <3>4, PoolMoves
  <2>3. CASE Park(w) \/ Exit(w) \/ EmitDequeued(w) \/ LaunchReturns(w) \/ Finish(w)
    <3>1. /\ queue' = queue /\ running' = running /\ cancelled' = cancelled
          /\ stopper' = stopper /\ stopped' = stopped
      BY <2>3 DEF Park, Exit, EmitDequeued, LaunchReturns, Finish, lockVars
    <3>2. /\ \A v \in Workers : v # w => wpc'[v] = wpc[v] /\ held'[v] = held[v]
          /\ wpc[w] \in {"dequeued", "launching"} <=> wpc'[w] \in {"dequeued", "launching"}
          /\ wpc[w] \in {"dequeued", "launching"} => held'[w] = held[w]
          /\ wpc'[w] \in {"dequeued", "launching", "running", "finishing"} =>
                wpc[w] \in {"dequeued", "launching", "running", "finishing"}
      BY <1>2, <2>3 DEF Park, Exit, EmitDequeued, LaunchReturns, Finish
    <3>3. Popped' = Popped /\ Busy' \subseteq Busy
      BY <3>2 DEF Popped, Busy
    <3>4. Known' = Known /\ ToLaunch' = ToLaunch
      BY <3>1, <3>3 DEF Known, ToLaunch
    <3> QED
      BY <2>1, <3>1, <3>3, <3>4, PoolMoves
  <2> QED
    BY <1>4, <2>2, <2>3 DEF PoolStep
<1> QED
  BY <1>3, <1>4

LEMMA BeginStopStep ==
    ASSUME ServerInvariant, BeginStop
    PROVE  ServerInvariant'
<1>1. /\ SchedulerInvariant
      /\ ServerTypeOK /\ ServeFollows /\ SubmittedOnce /\ LaunchIsFinal /\ AcceptedIsKnown
      /\ HandlersHold /\ HandlersEnd /\ OneWay
      /\ RequestsStaged /\ PendingIsClaimed
  BY Parts
<1>2. SchedulerInvariant'
  BY <1>1, SchedulerKeeps DEF Next, BeginStop
<1>3. /\ ~stopped /\ stopped' = TRUE /\ queue' = {} /\ cancelled' = cancelled \cup queue
      /\ wpc' = [w \in Workers |-> IF wpc[w] = "waiting" THEN "ready" ELSE wpc[w]]
      /\ stopper' = "emitting" /\ running' = running /\ held' = held
  BY DEF BeginStop, Stop, Broadcast
<1>4. /\ creating' = creating /\ deleting' = deleting /\ pending' = pending /\ schedSet' = schedSet
      /\ inFlight' = inFlight /\ handlers' = handlers /\ launched' = launched /\ missed' = missed
      /\ serving = "drain" /\ serving' = "stopping" /\ schedSet
  BY DEF BeginStop, handlerVars
<1>5. Popped' = Popped /\ Busy' = Busy
  BY <1>3 DEF Popped, Busy
<1>6. Known' = Known /\ ToLaunch' \subseteq ToLaunch
      /\ ToLaunch' \cup cancelled' = ToLaunch \cup cancelled
  BY <1>3, <1>5 DEF Known, ToLaunch
<1>7. ServerTypeOK' /\ ServeFollows'
  BY <1>1, <1>3, <1>4 DEF ServerTypeOK, ServeFollows, ServeStates
<1>8. SubmittedOnce' /\ LaunchIsFinal' /\ AcceptedIsKnown'
  BY <1>1, <1>4, <1>6 DEF SubmittedOnce, LaunchIsFinal, AcceptedIsKnown
<1>9. HandlersHold'
  BY <1>1, <1>3, <1>4 DEF HandlersHold
<1>10. HandlersEnd' /\ OneWay'
  BY <1>1, <1>3, <1>4, <1>5 DEF HandlersEnd, InHandler, OneWay
<1>11. stopper = "idle"
  BY <1>1, <1>4 DEF ServeFollows
<1>12. RequestsStaged'
  BY <1>1, <1>3, <1>4, <1>5, <1>11 DEF RequestsStaged, Runs
<1>13. PendingIsClaimed'
  BY <1>1, <1>3, <1>4, <1>5 DEF PendingIsClaimed, Runs
<1> QED
  BY <1>2, <1>7, <1>8, <1>9, <1>10, <1>12, <1>13 DEF ServerInvariant

LEMMA StopEndsStep ==
    ASSUME ServerInvariant, StopEnds
    PROVE  ServerInvariant'
<1>1. /\ SchedulerInvariant
      /\ ServerTypeOK /\ ServeFollows /\ SubmittedOnce /\ LaunchIsFinal /\ AcceptedIsKnown
      /\ HandlersHold /\ HandlersEnd /\ OneWay
      /\ RequestsStaged /\ PendingIsClaimed
  BY Parts
<1>2. SchedulerInvariant'
  BY <1>1, SchedulerKeeps DEF Next, StopEnds
<1>3. /\ queue' = queue /\ running' = running /\ cancelled' = cancelled /\ held' = held
      /\ wpc' = wpc /\ stopped' = stopped
      /\ stopper = "emitting" /\ stopper' \in {"returned", "timedout"}
  BY DEF StopEnds, StopReturns, StopTimesOut, lockVars
<1>4. /\ creating' = creating /\ deleting' = deleting /\ pending' = pending /\ schedSet' = schedSet
      /\ inFlight' = inFlight /\ handlers' = handlers /\ launched' = launched /\ missed' = missed
      /\ serving = "stopping" /\ serving' = "purge"
  BY DEF StopEnds, handlerVars
<1>5. Popped' = Popped /\ Busy' = Busy /\ Known' = Known /\ ToLaunch' = ToLaunch
  BY <1>3 DEF Popped, Busy, Known, ToLaunch
<1>6. ServerTypeOK' /\ ServeFollows'
  BY <1>1, <1>3, <1>4 DEF ServerTypeOK, ServeFollows, ServeStates
<1>7. SubmittedOnce' /\ LaunchIsFinal' /\ AcceptedIsKnown'
  BY <1>1, <1>3, <1>4, <1>5 DEF SubmittedOnce, LaunchIsFinal, AcceptedIsKnown
<1>8. HandlersHold' /\ HandlersEnd' /\ OneWay'
  BY <1>1, <1>3, <1>4, <1>5 DEF HandlersHold, HandlersEnd, InHandler, OneWay
<1>9. RequestsStaged' /\ PendingIsClaimed'
  BY <1>1, <1>3, <1>4, <1>5 DEF RequestsStaged, PendingIsClaimed
<1> QED
  BY <1>2, <1>6, <1>7, <1>8, <1>9 DEF ServerInvariant

-----------------------------------------------------------------------------
(* The theorems *)

\* Every step of the server is one of the scheduler, or leaves it alone.
THEOREM ServerImplementsScheduler == ServerSpec => Init /\ [][Next]_vars
<1>1. ServerInit => Init
  BY DEF ServerInit
<1>2. ASSUME [ServerNext]_<<vars, serverVars>> PROVE [Next]_vars
  <2>1. CASE \E r \in RunIDs : BeginCreate(r) \/ Create(r) \/ AsyncReturns(r)
                               \/ CancelRun(r) \/ CancelUnstage(r)
    BY <2>1 DEF Next, BeginCreate, Create, AsyncReturns, CancelRun, CancelUnstage, PutPending,
       Admit, Refuse, NilScheduler, Unstage, LaunchAsync
  <2>2. CASE \E w \in Workers : PoolStep(w) \/ LaunchFunc(w)
    BY <2>2 DEF PoolStep, LaunchFunc, Next, WorkerStep
  <2>3. CASE BusStep \/ Lifecycle
    BY <2>3 DEF BusStep, Lifecycle, Next, ShutdownReturns, BeginStop, StoppingEmits, StopEnds,
       PurgePending, ClearScheduler, BeginWait, WaitEnds
  <2>4. CASE ServeCtxDone \/ ServeFails \/ WaitTimesOut \/ ServerQuiet
    BY <2>4 DEF ServeCtxDone, ServeFails, WaitTimesOut, ServerQuiet
  <2> QED
    BY <1>2, <2>1, <2>2, <2>3, <2>4 DEF ServerNext
<1> QED
  BY <1>1, <1>2, PTL DEF ServerSpec

LEMMA ServerInitially == ServerInit => ServerInvariant
<1> SUFFICES ASSUME ServerInit PROVE ServerInvariant
  OBVIOUS
<1>1. SchedulerInvariant
  BY InvariantInitially DEF ServerInit
<1>2. /\ queue = {} /\ running = {} /\ cancelled = {} /\ stopped = FALSE /\ stopper = "idle"
      /\ wpc = [w \in Workers |-> "ready"]
  BY DEF ServerInit, Init
<1>3. Popped = {} /\ Busy = {}
  BY <1>2 DEF Popped, Busy
<1>4. /\ creating = [r \in RunIDs |-> "idle"] /\ deleting = {} /\ pending = {} /\ inFlight = {}
      /\ schedSet \in BOOLEAN /\ serving = "listening" /\ handlers = "open"
      /\ launched = {} /\ missed = {}
  BY ConfigsAssumption DEF ServerInit
<1>5. ServerTypeOK /\ ServeFollows
  BY <1>2, <1>4 DEF ServerTypeOK, ServeFollows, CreateStates, ServeStates
<1>6. SubmittedOnce /\ LaunchIsFinal /\ AcceptedIsKnown /\ HandlersHold
  BY <1>2, <1>3, <1>4 DEF SubmittedOnce, LaunchIsFinal, AcceptedIsKnown, HandlersHold, Known, ToLaunch
<1>7. HandlersEnd /\ OneWay
  BY <1>2, <1>3, <1>4 DEF HandlersEnd, OneWay
<1>8. RequestsStaged /\ PendingIsClaimed
  BY <1>2, <1>3, <1>4 DEF RequestsStaged, PendingIsClaimed, Runs
<1> QED
  BY <1>1, <1>5, <1>6, <1>7, <1>8 DEF ServerInvariant

\* The server's invariant, with that of its scheduler.
THEOREM ServerInvariantHolds == ServerSpec => []ServerInvariant
<1>1. ASSUME ServerInvariant, [ServerNext]_<<vars, serverVars>> PROVE ServerInvariant'
  <2>1. CASE \E r \in RunIDs : BeginCreate(r) \/ Create(r) \/ AsyncReturns(r)
                               \/ CancelRun(r) \/ CancelUnstage(r)
    BY <1>1, <2>1, CreateMoves, PutPendingStep, AdmitStep, UnstageStep, LaunchAsyncStep,
       ServeMoves, CancelRunStep DEF Create
  <2>2. CASE \E w \in Workers : PoolStep(w) \/ LaunchFunc(w)
    BY <1>1, <2>2, PoolSteps, LaunchFuncStep
  <2>3. CASE BusStep \/ Lifecycle
    BY <1>1, <2>3, PoolSteps, ServeMoves, BeginStopStep, StopEndsStep, PurgeStep DEF Lifecycle
  <2>4. CASE ServeCtxDone \/ ServeFails \/ WaitTimesOut \/ ServerQuiet
    BY <1>1, <2>4, ServeMoves
  <2>5. CASE UNCHANGED <<vars, serverVars>>
    <3>1. /\ SchedulerInvariant'
          /\ queue' = queue /\ running' = running /\ cancelled' = cancelled
          /\ Popped' = Popped /\ ToLaunch' = ToLaunch /\ Known' = Known /\ Busy' = Busy
          /\ stopper' = stopper /\ stopped' = stopped
      BY <1>1, <2>5, Parts, PoolRests
    <3> QED
      BY <1>1, <2>5, <3>1, PoolMoves
  <2> QED
    BY <1>1, <2>1, <2>2, <2>3, <2>4, <2>5 DEF ServerNext
<1> QED
  BY <1>1, ServerInitially, PTL DEF ServerSpec

\* launchFunc finds a staged request for every run the pool gets to, every staged
\* request has somebody who will still take it, and an orderly shutdown that
\* drained in time leaves nothing behind.
THEOREM RequestsStayStaged == ServerSpec => []StagedRequests
<1>1. ServerInvariant => StagedRequests
  <2> SUFFICES ASSUME ServerInvariant PROVE ReturnsClean
    BY DEF StagedRequests, ServerInvariant
  <2>1. /\ SchedulerInvariant
        /\ ServerTypeOK /\ ServeFollows /\ AcceptedIsKnown
        /\ HandlersEnd /\ OneWay /\ RequestsStaged /\ PendingIsClaimed
    BY Parts
  <2> SUFFICES ASSUME serving = "returned", handlers = "closed", stopper # "timedout"
               PROVE  /\ pending = {} /\ inFlight = {} /\ Busy = {}
                      /\ \A r \in RunIDs : creating[r] = "accepted" =>
                            r \in launched \cup Runs(cancelled)
    BY DEF ReturnsClean
  <2>2. stopper \in {"idle", "returned"} /\ ~schedSet
    BY <2>1 DEF ServeFollows, SchedulerInvariant, Core, TypeOK
  <2>3. queue = {} /\ Busy = {}
    <3>1. CASE stopper = "idle"
      BY <2>1, <2>2, <3>1 DEF OneWay
    <3>2. CASE stopper = "returned"
      BY <2>1, <3>2, PoolFacts DEF PoolDone, Busy
    <3> QED
      BY <2>2, <3>1, <3>2
  <2>4. Popped = {}
    BY <2>3 DEF Popped, Busy
  <2>5. inFlight = {}
    BY <2>1, <2>2 DEF OneWay
  <2>6. ~InHandler
    BY <2>1 DEF HandlersEnd
  <2>7. pending = {}
    BY <2>1, <2>3, <2>4, <2>6 DEF PendingIsClaimed, InHandler, Runs, ServerTypeOK
  <2>8. missed = {}
    BY <2>1 DEF RequestsStaged
  <2> QED
    BY <2>1, <2>3, <2>4, <2>5, <2>7, <2>8 DEF AcceptedIsKnown, ToLaunch, Runs
<1> QED
  BY <1>1, ServerInvariantHolds, PTL

\* No run is both launched and cancelled, and none is launched that was refused.
THEOREM OnlyAcceptedIsLaunched == ServerSpec => []LaunchedWasAccepted
<1>1. ServerInvariant => LaunchedWasAccepted
  BY DEF ServerInvariant, LaunchIsFinal, LaunchedWasAccepted, Runs
<1> QED
  BY <1>1, ServerInvariantHolds, PTL
=============================================================================
