-------------------------- MODULE ApprovalRegistry --------------------------
(***************************************************************************)
(* internal/approval.Registry: where a run that governance sent to review  *)
(* meets the operator who decides.  The run's goroutine blocks in          *)
(* RequestApproval; the handler of POST /v1/approvals/{id} calls Resolve.  *)
(*                                                                         *)
(* A call of RequestApproval is a member of Calls and makes one channel of *)
(* capacity one; a call of Resolve is a member of Resolvers and its        *)
(* decision, whatever it says, is named after it.  Each critical section   *)
(* under r.mu is one action.                                               *)
(***************************************************************************)
CONSTANTS
    Calls,          \* calls of RequestApproval
    Resolvers,      \* calls of Resolve
    RunIDs,
    RunOf,          \* the run each call waits for
    None

Errors == {"ErrAlreadyWaiting", "ctx.Err"}

ASSUME ApprovalAssumption ==
    /\ RunOf \in [Calls -> RunIDs]
    /\ None \notin Calls \cup Resolvers
    /\ Errors \cap Resolvers = {}

VARIABLES
    waiters,    \* r.waiters: the call whose channel is registered for a run
    chan,       \* what is in each channel's buffer
    call,       \* where each RequestApproval stands
    outcome,    \* what it is going to return
    expired,    \* calls whose context is done
    resolve,    \* where each Resolve stands
    target      \* the call whose channel it found

vars == <<waiters, chan, call, outcome, expired, resolve, target>>

Channels == Calls \cup RunIDs

TypeOK ==
    /\ waiters \in [RunIDs -> Calls \cup {None}]
    /\ chan \in [Channels -> Resolvers \cup {None}]
    /\ call \in [Calls -> {"idle", "waiting", "leaving", "returned"}]
    /\ outcome \in [Calls -> Resolvers \cup Errors \cup {None}]
    /\ expired \subseteq Calls
    /\ resolve \in [Resolvers -> {"idle", "sending", "true", "false"}]
    /\ target \in [Resolvers -> Calls \cup {None}]
    /\ \A s \in Resolvers : resolve[s] \in {"sending", "true"} <=> target[s] \in Calls

Init ==
    /\ waiters = [r \in RunIDs |-> None]
    /\ chan = [h \in Channels |-> None]
    /\ call = [c \in Calls |-> "idle"]
    /\ outcome = [c \in Calls |-> None]
    /\ expired = {}
    /\ resolve = [s \in Resolvers |-> "idle"]
    /\ target = [s \in Resolvers |-> None]

-----------------------------------------------------------------------------
(* RequestApproval *)

\* make(chan Decision, 1): a channel of the call's own.
ChannelOf(c) == c

Register(c) ==
    /\ call[c] = "idle"
    /\ waiters[RunOf[c]] = None
    /\ waiters' = [waiters EXCEPT ![RunOf[c]] = c]
    /\ call' = [call EXCEPT ![c] = "waiting"]
    /\ UNCHANGED <<chan, outcome, expired, resolve, target>>

AlreadyWaiting(c) ==
    /\ call[c] = "idle"
    /\ waiters[RunOf[c]] # None
    /\ outcome' = [outcome EXCEPT ![c] = "ErrAlreadyWaiting"]
    /\ call' = [call EXCEPT ![c] = "returned"]
    /\ UNCHANGED <<waiters, chan, expired, resolve, target>>

\* The select takes the decision ...
Receive(c) ==
    /\ call[c] = "waiting"
    /\ chan[ChannelOf(c)] # None
    /\ outcome' = [outcome EXCEPT ![c] = chan[ChannelOf(c)]]
    /\ chan' = [chan EXCEPT ![ChannelOf(c)] = None]
    /\ call' = [call EXCEPT ![c] = "leaving"]
    /\ UNCHANGED <<waiters, expired, resolve, target>>

\* Mutant: the wait sees that its context is done, and goes on waiting.
GiveUp_Never(c) == call[c] = "waiting" /\ c \in expired /\ UNCHANGED vars

\* ... or ctx.Done(), even if a decision is there too.
GiveUp(c) ==
    /\ call[c] = "waiting"
    /\ c \in expired
    /\ outcome' = [outcome EXCEPT ![c] = "ctx.Err"]
    /\ call' = [call EXCEPT ![c] = "leaving"]
    /\ UNCHANGED <<waiters, chan, expired, resolve, target>>

\* Mutant: no deferred delete.
Leave_KeepsEntry(c) ==
    /\ call[c] = "leaving"
    /\ call' = [call EXCEPT ![c] = "returned"]
    /\ UNCHANGED <<waiters, chan, outcome, expired, resolve, target>>

\* The deferred delete removes whatever is registered for the run.
Leave(c) ==
    /\ call[c] = "leaving"
    /\ waiters' = [waiters EXCEPT ![RunOf[c]] = None]
    /\ call' = [call EXCEPT ![c] = "returned"]
    /\ UNCHANGED <<chan, outcome, expired, resolve, target>>

RequestApproval(c) ==
    Register(c) \/ AlreadyWaiting(c) \/ Receive(c) \/ GiveUp(c) \/ Leave(c)

\* ApprovalTimeout, or the run's own context.
ContextDone(c) ==
    /\ c \notin expired
    /\ expired' = expired \cup {c}
    /\ UNCHANGED <<waiters, chan, call, outcome, resolve, target>>

-----------------------------------------------------------------------------
(* Resolve *)

\* Mutant: the waiter stays in the map for the deferred delete to remove.
TakeWaiter_Keeps(r) == waiters' = waiters

TakeWaiter(r) == waiters' = [waiters EXCEPT ![r] = None]

Lookup(s, r) ==
    /\ resolve[s] = "idle"
    /\ waiters[r] # None
    /\ target' = [target EXCEPT ![s] = waiters[r]]
    /\ TakeWaiter(r)
    /\ resolve' = [resolve EXCEPT ![s] = "sending"]
    /\ UNCHANGED <<chan, call, outcome, expired>>

NoWaiter(s, r) ==
    /\ resolve[s] = "idle"
    /\ waiters[r] = None
    /\ resolve' = [resolve EXCEPT ![s] = "false"]
    /\ UNCHANGED <<waiters, chan, call, outcome, expired, target>>

\* ch <- d: the buffer holds one decision, a second would block.
Send(s) ==
    /\ resolve[s] = "sending"
    /\ chan[ChannelOf(target[s])] = None
    /\ chan' = [chan EXCEPT ![ChannelOf(target[s])] = s]
    /\ resolve' = [resolve EXCEPT ![s] = "true"]
    /\ UNCHANGED <<waiters, call, outcome, expired, target>>

-----------------------------------------------------------------------------

\* Nothing is left to do.
Quiet ==
    /\ \A c \in Calls : call[c] = "returned" /\ c \in expired
    /\ \A s \in Resolvers : resolve[s] \in {"true", "false"}
    /\ UNCHANGED vars

Next ==
    \/ \E c \in Calls : RequestApproval(c) \/ ContextDone(c)
    \/ \E s \in Resolvers : Send(s) \/ \E r \in RunIDs : Lookup(s, r) \/ NoWaiter(s, r)
    \/ Quiet

\* Goroutines run, and every wait has a timeout; nobody has to call Resolve.
Fairness ==
    /\ \A c \in Calls : WF_vars(RequestApproval(c)) /\ WF_vars(ContextDone(c))
    /\ \A s \in Resolvers : WF_vars(Send(s))

Spec == Init /\ [][Next]_vars /\ Fairness

-----------------------------------------------------------------------------
(* Properties *)

\* A decision ends only the wait it was given for: whatever a call returns was
\* sent by a Resolve that found that very call registered, never a decision
\* left over from an earlier wait of the run.
DecisionReachesItsWait ==
    \A c \in Calls : outcome[c] \in Resolvers => target[outcome[c]] = c

\* "buffered (cap 1) -- never blocks": the handler that got a channel always
\* finds its buffer empty, however many others resolve the same run.
ResolverNeverBlocks ==
    \A s \in Resolvers : resolve[s] = "sending" => chan[ChannelOf(target[s])] = None

\* The map holds nothing but calls still in progress: a run whose wait is over
\* can wait again.
WaitersAreWaiting ==
    \A r \in RunIDs : waiters[r] # None =>
        call[waiters[r]] = "waiting" \/ (call[waiters[r]] = "leaving" /\ waiters[r] \in expired)

\* A call that is its run's only one, as every call of the orchestrator is, can
\* be answered while it waits, or its answer is on the way: Resolve "returns
\* false if none waiting", and only then.  (A second call for the same run can
\* lose its registration to the deferred delete of the first.)
WaiterReachable ==
    \A c \in Calls :
        call[c] = "waiting" /\ (\A d \in Calls : RunOf[d] = RunOf[c] => d = c) =>
            \/ waiters[RunOf[c]] = c
            \/ chan[ChannelOf(c)] # None
            \/ \E s \in Resolvers : resolve[s] = "sending" /\ target[s] = c

\* Resolve gets through: it blocks on nobody, and finds whoever waits alone.
ResolveReaches == ResolverNeverBlocks /\ WaiterReachable

\* Every wait comes to an end.
WaitEnds == \A c \in Calls : call[c] = "waiting" ~> call[c] = "returned"

-----------------------------------------------------------------------------
(* The inductive invariant behind the safety properties *)

\* What is registered for a run is a call for that run that nobody has answered.
Registered ==
    \A r \in RunIDs : waiters[r] # None =>
        /\ RunOf[waiters[r]] = r
        /\ \A s \in Resolvers : target[s] # waiters[r]

\* A call is found by one Resolve at most, and only once it has registered.
FoundOnce ==
    /\ \A s \in Resolvers, t \in Resolvers : target[s] = target[t] /\ target[s] # None => s = t
    /\ \A s \in Resolvers : target[s] # None => call[target[s]] # "idle"

\* A buffered decision comes from the Resolve that found the channel's call.
InTheRightChannel ==
    \A c \in Calls : chan[c] # None => target[chan[c]] = c /\ resolve[chan[c]] = "true"

ApprovalInvariant ==
    /\ TypeOK /\ Registered /\ WaitersAreWaiting /\ FoundOnce
    /\ InTheRightChannel /\ DecisionReachesItsWait
=============================================================================
