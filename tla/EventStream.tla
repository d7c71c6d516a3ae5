---------------------------- MODULE EventStream ----------------------------
(***************************************************************************)
(* How the events of one run reach the clients of                          *)
(* GET /v1/runs/{id}/events: LocalBus.Publish, the store PersistTo appends *)
(* to, and the SSE handler with its replay.                                *)
(*                                                                         *)
(* Publish collects the handlers under the bus's lock and then calls them  *)
(* one after another in the publisher's goroutine, the store's first (it   *)
(* subscribed first), then one per open stream.  A stream's handler puts   *)
(* the event in a bounded channel or drops it.  A client that names an     *)
(* event to resume from gets what the store has after it, then the live    *)
(* events it has not seen.                                                 *)
(*                                                                         *)
(* Events are numbered in the order event.New creates them, which is when  *)
(* they get their Timestamp; they may be published in another order.  The  *)
(* store returns a run's events by that timestamp (ORDER BY occurred_at,   *)
(* rowid), so an event published late lands among those already stored.    *)
(* Publishers are goroutines: the run's own, and the callers of the        *)
(* scheduler, which create and publish their events after unlocking.       *)
(***************************************************************************)
EXTENDS Naturals, Sequences, FiniteSets, Functions

CONSTANTS
    Publishers,         \* goroutines that publish events of the run
    Clients,            \* SSE requests for the run
    NumEvents,          \* events of the run
    Terminal,           \* the one that ends it
    sseChannelBuffer,   \* capacity of a stream's channel
    MaxLoad,            \* bound: events created and streams opened, together
    Idle                \* a publisher's job while it has none

Events == 1 .. NumEvents
Stages == {"collect", "append", "deliver"}

ASSUME StreamAssumption ==
    /\ NumEvents \in Nat \ {0}
    /\ Terminal \in Events
    /\ sseChannelBuffer \in Nat \ {0}
    /\ MaxLoad \in Nat
    /\ Idle \notin [ev : Events, stage : Stages, todo : Seq(Clients)]

VARIABLES
    next,       \* the next event to create
    stamp,      \* ev.Timestamp
    job,        \* the event a publisher has created, how far it is, and for whom
    all,        \* b.all: the streams subscribed, in order
    log,        \* the events in the store, in LoadRun's order
    stream,     \* where each handler stands
    from,       \* the event id to resume from; 0 for none
    history,    \* what is left to replay
    events,     \* the stream's channel
    seen,       \* event ids replayed
    sent,       \* events written to the client
    \* history variables
    dropped,    \* events a stream's handler dropped
    early,      \* events whose publication had begun when the stream subscribed
    racing,     \* those of them whose publication was not over
    before      \* events whose publication was over when another was created

clientVars == <<stream, from, history, seen, sent>>
vars == <<next, stamp, job, all, log, clientVars, events, dropped, early, racing, before>>

StreamStates == {"idle", "accepted", "loading", "replaying", "live", "closed"}

TypeOK ==
    /\ next \in 1 .. NumEvents + 1
    /\ stamp \in [Events -> Nat]
    /\ \A p \in Publishers : job[p] = Idle \/
          /\ job[p].ev \in Events
          /\ job[p].stage \in Stages
          /\ \A i \in DOMAIN job[p].todo : job[p].todo[i] \in Clients
    /\ \A i \in DOMAIN all : all[i] \in Clients
    /\ \A i \in DOMAIN log : log[i] \in Events
    /\ stream \in [Clients -> StreamStates]
    /\ from \in [Clients -> 0 .. NumEvents]
    /\ before \in [Events -> SUBSET Events]
    /\ \A c \in Clients :
          /\ \A i \in DOMAIN history[c] : history[c][i] \in Events
          /\ \A i \in DOMAIN events[c] : events[c][i] \in Events
          /\ Len(events[c]) <= sseChannelBuffer
          /\ \A i \in DOMAIN sent[c] : sent[c][i] \in Events
          /\ seen[c] \cup dropped[c] \cup early[c] \cup racing[c] \subseteq Events

Init ==
    /\ next = 1
    /\ stamp = [e \in Events |-> 0]
    /\ job = [p \in Publishers |-> Idle]
    /\ all = <<>> /\ log = <<>>
    /\ stream = [c \in Clients |-> "idle"]
    /\ from = [c \in Clients |-> 0]
    /\ history = [c \in Clients |-> <<>>]
    /\ events = [c \in Clients |-> <<>>]
    /\ seen = [c \in Clients |-> {}]
    /\ sent = [c \in Clients |-> <<>>]
    /\ dropped = [c \in Clients |-> {}]
    /\ early = [c \in Clients |-> {}]
    /\ racing = [c \in Clients |-> {}]
    /\ before = [e \in Events |-> {}]

-----------------------------------------------------------------------------
(* Publish *)

InProgress == {job[p].ev : p \in {q \in Publishers : job[q] # Idle}}

\* The events whose publication has begun.
Published ==
    {e \in Events : e < next /\ \A p \in Publishers :
        job[p] # Idle /\ job[p].ev = e => job[p].stage # "collect"}

\* Events and streams so far.
Traffic == next - 1 + Cardinality({c \in Clients : stream[c] # "idle"})

\* The clock moves on, or not; that can matter only to events in progress.
Clock == IF next = 1 THEN 0 ELSE stamp[next - 1]
Ticks == IF InProgress = {} THEN {Clock + 1} ELSE {Clock, Clock + 1}

\* event.New, in the goroutine that will publish: the Timestamp is time.Now(),
\* which two events may share.
Create(p) ==
    /\ job[p] = Idle
    /\ next <= NumEvents
    /\ Traffic < MaxLoad
    /\ \E t \in Ticks : stamp' = [stamp EXCEPT ![next] = t]
    /\ job' = [job EXCEPT ![p] = [ev |-> next, stage |-> "collect", todo |-> <<>>]]
    /\ next' = next + 1
    /\ before' = [before EXCEPT ![next] = (1 .. next - 1) \ InProgress]
    /\ UNCHANGED <<all, log, clientVars, events, dropped, early, racing>>

\* Publish: the handlers subscribed now will get the event.
Collect(p) ==
    /\ job[p] # Idle
    /\ job[p].stage = "collect"
    /\ job' = [job EXCEPT ![p] = [ev |-> @.ev, stage |-> "append", todo |-> all]]
    /\ UNCHANGED <<next, stamp, all, log, clientVars, events, dropped, early, racing, before>>

InsertAfter(s, i, e) == SubSeq(s, 1, i) \o <<e>> \o SubSeq(s, i + 1, Len(s))

\* The row takes its place in ORDER BY occurred_at ASC, rowid ASC.
Inserted(e) ==
    \E i \in 0 .. Len(log) :
        /\ \A k \in 1 .. i : stamp[log[k]] <= stamp[e]
        /\ \A k \in i + 1 .. Len(log) : stamp[log[k]] > stamp[e]
        /\ log' = InsertAfter(log, i, e)

\* PersistTo's handler: an Append that fails is logged.
Append_(p) ==
    /\ job[p] # Idle
    /\ job[p].stage = "append"
    /\ Inserted(job[p].ev) \/ log' = log
    /\ job' = [job EXCEPT ![p].stage = "deliver"]
    /\ UNCHANGED <<next, stamp, all, clientVars, events, dropped, early, racing, before>>

\* The select with a default in the stream's bus handler.
Offer(c, e) ==
    IF Len(events[c]) < sseChannelBuffer
    THEN events' = [events EXCEPT ![c] = Append(@, e)] /\ dropped' = dropped
    ELSE dropped' = [dropped EXCEPT ![c] = @ \cup {e}] /\ events' = events

\* Mutant: the publisher tries again until there is room in the channel.
Deliver_Blocks(p) ==
    /\ job[p] # Idle
    /\ job[p].stage = "deliver" /\ job[p].todo # <<>>
    /\ IF Len(events[Head(job[p].todo)]) < sseChannelBuffer
       THEN /\ Offer(Head(job[p].todo), job[p].ev)
            /\ job' = [job EXCEPT ![p].todo = Tail(@)]
            /\ UNCHANGED <<next, stamp, all, log, clientVars, early, racing, before>>
       ELSE UNCHANGED vars

\* A handler collected earlier is called even if its stream has ended since.
Deliver(p) ==
    /\ job[p] # Idle
    /\ job[p].stage = "deliver" /\ job[p].todo # <<>>
    /\ Offer(Head(job[p].todo), job[p].ev)
    /\ job' = [job EXCEPT ![p].todo = Tail(@)]
    /\ UNCHANGED <<next, stamp, all, log, clientVars, early, racing, before>>

PublishReturns(p) ==
    /\ job[p] # Idle
    /\ job[p].stage = "deliver" /\ job[p].todo = <<>>
    /\ job' = [job EXCEPT ![p] = Idle]
    /\ UNCHANGED <<next, stamp, all, log, clientVars, events, dropped, early, racing, before>>

Publish(p) == Collect(p) \/ Append_(p) \/ Deliver(p) \/ PublishReturns(p)

-----------------------------------------------------------------------------
(* handleRunEventsSSE *)

InLog(e) == \E i \in DOMAIN log : log[i] = e

\* No ?from and no Last-Event-ID, or one the store knows: 200.  An unknown one,
\* or a store that cannot be read, is answered with 400 or 500 and changes nothing.
Open(c) ==
    /\ stream[c] = "idle"
    /\ Traffic < MaxLoad
    /\ \E f \in 0 .. NumEvents :
          /\ f = 0 \/ InLog(f)
          /\ from' = [from EXCEPT ![c] = f]
    /\ stream' = [stream EXCEPT ![c] = "accepted"]
    /\ UNCHANGED <<next, stamp, job, all, log, history, events, seen, sent, dropped, early, racing, before>>

Subscribe(c) ==
    /\ stream[c] = "accepted"
    /\ all' = Append(all, c)
    /\ early' = [early EXCEPT ![c] = Published]
    /\ racing' = [racing EXCEPT ![c] = Published \cap InProgress]
    /\ stream' = [stream EXCEPT ![c] = IF from[c] = 0 THEN "live" ELSE "loading"]
    /\ UNCHANGED <<next, stamp, job, log, from, history, events, seen, sent, dropped, before>>

\* Mutant: the replay starts with the named event itself.
ReplayFrom_Inclusive(i) == SubSeq(log, i, Len(log))

\* history[idx+1:]
ReplayFrom(i) == SubSeq(log, i + 1, Len(log))

\* The second LoadRun, after subscribing.
Load(c) ==
    /\ stream[c] = "loading"
    /\ \E i \in DOMAIN log :
          log[i] = from[c] /\ history' = [history EXCEPT ![c] = ReplayFrom(i)]
    /\ stream' = [stream EXCEPT ![c] = "replaying"]
    /\ UNCHANGED <<next, stamp, job, all, log, from, events, seen, sent, dropped, early, racing, before>>

\* Mutant: the first subscriber is removed, whoever it is.
Unsubscribed_First(c) == all' = IF all = <<>> THEN all ELSE Tail(all)

\* The handler returns, and its deferred Cancel leaves the bus: removeByID cuts
\* the entry out, if it is there.
Unsubscribed(c) ==
    \/ /\ \A i \in DOMAIN all : all[i] # c
       /\ all' = all
    \/ \E i \in DOMAIN all :
          /\ all[i] = c
          /\ all' = SubSeq(all, 1, i - 1) \o SubSeq(all, i + 1, Len(all))

Remember(c, e) == seen' = [seen EXCEPT ![c] = @ \cup {e}]

\* Mutant: the terminal event is not recognised.
Written_NeverEnds(c, e) ==
    /\ sent' = [sent EXCEPT ![c] = Append(@, e)]
    /\ UNCHANGED <<stream, all, before>>

\* The stream ends with the terminal event.
Written(c, e) ==
    /\ sent' = [sent EXCEPT ![c] = Append(@, e)]
    /\ IF e = Terminal
       THEN stream' = [stream EXCEPT ![c] = "closed"] /\ Unsubscribed(c)
       ELSE UNCHANGED <<stream, all, before>>

Replay(c) ==
    /\ stream[c] = "replaying" /\ history[c] # <<>>
    /\ Written(c, Head(history[c]))
    /\ Remember(c, Head(history[c]))
    /\ history' = [history EXCEPT ![c] = Tail(@)]
    /\ UNCHANGED <<next, stamp, job, log, from, events, dropped, early, racing, before>>

EndReplay(c) ==
    /\ stream[c] = "replaying" /\ history[c] = <<>>
    /\ stream' = [stream EXCEPT ![c] = "live"]
    /\ UNCHANGED <<next, stamp, job, all, log, from, history, events, seen, sent, dropped, early, racing, before>>

\* A live event: skipped if it was replayed, written otherwise.
Live(c) ==
    /\ stream[c] = "live" /\ events[c] # <<>>
    /\ events' = [events EXCEPT ![c] = Tail(@)]
    /\ IF Head(events[c]) \in seen[c]
       THEN UNCHANGED <<stream, all, sent, before>>
       ELSE Written(c, Head(events[c]))
    /\ UNCHANGED <<next, stamp, job, log, from, history, seen, dropped, early, racing, before>>

StreamStep(c) == Subscribe(c) \/ Load(c) \/ Replay(c) \/ EndReplay(c) \/ Live(c)

\* The client goes away, a write or the second LoadRun fails, or the server's
\* base context is done.
Disconnect(c) ==
    /\ stream[c] \in {"accepted", "loading", "replaying", "live"}
    /\ stream' = [stream EXCEPT ![c] = "closed"]
    /\ Unsubscribed(c)
    /\ UNCHANGED <<next, stamp, job, log, from, history, events, seen, sent, dropped, early, racing, before>>

-----------------------------------------------------------------------------

\* Nothing is under way.
Quiet ==
    /\ InProgress = {}
    /\ \A c \in Clients : stream[c] \in {"idle", "closed"}
    /\ UNCHANGED vars

Next ==
    \/ \E p \in Publishers : Create(p) \/ Publish(p)
    \/ \E c \in Clients : Open(c) \/ StreamStep(c) \/ Disconnect(c)
    \/ Quiet

\* A publisher that has an event goes on; nothing is assumed of the clients, who may
\* stop reading for as long as they like.
PublisherFairness == \A p \in Publishers : WF_vars(Publish(p))

Spec == Init /\ [][Next]_vars /\ PublisherFairness

-----------------------------------------------------------------------------
(* Properties *)

\* What the store has up to the event the client named, and after it.
Behind(c)  == {log[i] : i \in {k \in DOMAIN log : \E j \in k .. Len(log) : log[j] = from[c]}}
Resumed(c) == {log[i] : i \in {k \in DOMAIN log : \E j \in 1 .. k - 1 : log[j] = from[c]}}

\* "clients never see the same event twice across the seam"; and a resuming
\* client is not sent the event it named, nor any that the store has before it.
\* The exception is one stamped before the named event whose publication began
\* only after the client had subscribed: it comes live.
NoEventTwice ==
    \A c \in Clients :
        /\ IsInjective(sent[c])
        /\ from[c] \notin Range(sent[c])
        /\ Range(sent[c]) \cap Behind(c) \cap early[c] = {}

\* Whether e is, or still can be, written to c.
Reaches(c, e) ==
    \/ e \in Range(sent[c]) \cup Range(history[c]) \cup Range(events[c])
    \/ \E p \in Publishers : job[p] # Idle /\ job[p].ev = e /\ c \in Range(job[p].todo)

Subscribed(c) == stream[c] \in {"loading", "replaying", "live"}

\* Nothing whose publication begins after a stream subscribed is lost to it,
\* but what its full channel dropped.
LiveMissesNothing ==
    \A c \in Clients : Subscribed(c) =>
        \A e \in Published \ early[c] : e \in dropped[c] \/ Reaches(c, e)

\* A resuming client also gets everything stored after the event it named: the
\* only ones that can fall into the seam between replay and live tail are those
\* whose Publish had collected its handlers, and not appended, when the stream
\* subscribed.
SeamOnlyLosesRacing ==
    \A c \in Clients : from[c] # 0 /\ stream[c] \in {"replaying", "live"} =>
        \A e \in Resumed(c) \ dropped[c] : Reaches(c, e) \/ e \in racing[c]

\* A client sees stored events in their order, across the seam too: none after
\* one that was created when its own publication was over.  (One the store failed
\* to append, or put behind the event the client named, can come late: the
\* replay overtakes it.)
InOrder ==
    \A c \in Clients : \A i, j \in DOMAIN sent[c] :
        i < j /\ InLog(sent[c][i]) /\ InLog(sent[c][j]) /\ sent[c][j] \notin Behind(c)
            => sent[c][j] \notin before[sent[c][i]]

\* What a stream may miss, and what it may not confuse.
StreamInvariant == TypeOK /\ LiveMissesNothing /\ SeamOnlyLosesRacing /\ InOrder

\* Publication never waits for a client.
PublishEnds == \A p \in Publishers : job[p] # Idle ~> job[p] = Idle

\* A stream whose client reads, and whose terminal event got into its channel
\* or its replay, ends.
StreamEnds ==
    \A c \in Clients : WF_vars(StreamStep(c)) =>
        (Terminal \in Range(events[c]) \cup Range(history[c]) ~> stream[c] = "closed")
=============================================================================
