----------------------------- MODULE EventSink -----------------------------
(***************************************************************************)
(* What one run's events leave behind: event.LocalBus delivering to the    *)
(* two subscribers that keep state about a run,                            *)
(*                                                                         *)
(*   - the server's StateCache, whose ExecutionState is `live';            *)
(*   - event.PersistTo, whose log is read back only through a strict       *)
(*     runtime.Replay; `stored' is that replay of the log so far.          *)
(*                                                                         *)
(* The subscribers run synchronously inside Publish, in subscription       *)
(* order, and neither one's error reaches the other or the publisher.      *)
(* PersistTo appends with the PUBLISHER's context, so once that context is *)
(* done ExecContext fails and the event is not stored; the cache ignores   *)
(* the context.                                                            *)
(***************************************************************************)
EXTENDS ExecutionState, Sequences

CONSTANT Self       \* the run whose events are followed

ASSUME SelfAssumption == Self \in RunIDs

VARIABLES
    ctxDone,    \* the context handed to Publish has been cancelled
    live,       \* the cached ExecutionState
    stored,     \* the strict replay of the persisted log
    terminal,   \* run.completed/failed/cancelled events, in publication order
    rejected    \* types of published events that Apply refused

sinkVars == <<ctxDone, live, stored, terminal, rejected>>

SinkTypeOK ==
    /\ ctxDone \in BOOLEAN
    /\ live \in States
    /\ stored \in Replays
    /\ terminal \in Seq({"run.completed", "run.failed", "run.cancelled"})
    /\ rejected \subseteq EventTypes

SinkInit ==
    /\ ctxDone = FALSE
    /\ live = NewExecutionState(Self)
    /\ stored = NewReplay(Self)
    /\ terminal = <<>>
    /\ rejected = {}

\* PersistTo's handler: Append, which needs a live context.
Persist(log, ev) == IF ctxDone THEN log ELSE ReplayStep(log, ev)

\* One bus.Publish(ctx, event.New(type, Self, ...)).
Publish(type) ==
    LET ev == [type |-> type, run |-> Self]
    IN  /\ live' = Apply(live, ev)
        /\ stored' = Persist(stored, ev)
        /\ terminal' = IF IsTerminalEvent(type) THEN Append(terminal, type)
                                                ELSE terminal
        /\ rejected' = IF Accepts(live, ev) THEN rejected
                                            ELSE rejected \cup {type}
        /\ UNCHANGED ctxDone
=============================================================================
